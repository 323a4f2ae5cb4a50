---------------------------- MODULE TileSetProofs ----------------------------
(***************************************************************************)
(* Proofs about the sets of tiles for offline use: about TileSetDownload,  *)
(* for every number of tiles, batch size, number of requests at a time and *)
(* number of resumes, and about TileSetManager, for every set of tiles,    *)
(* names, number of sets and budget of the user.                           *)
(***************************************************************************)
EXTENDS TileSetDownload, TileSetManager, SequenceTheorems, FiniteSetTheorems,
        WellFoundedInduction, TLAPS

-----------------------------------------------------------------------------
(* TileSetDownload *)

\* What the variables are made of
Types ==
    /\ row \in [Tile -> {"pending", "downloading", "error", "none"}]
    /\ dropped \subseteq Tile
    /\ queue \in Seq(Task) /\ lists \in Seq(Seq(Tile))
    /\ inFlight \in [Tile -> Nat] /\ todo \in Seq(Tile)
    /\ replies \subseteq {t \in Tile : inFlight[t] > 0}
    /\ downloading \in BOOLEAN /\ cancelPending \in BOOLEAN /\ noMoreTiles \in BOOLEAN
    /\ batchRequested \in BOOLEAN /\ overtaken \in BOOLEAN
    /\ errorCount \in Nat /\ savedCount \in Nat /\ totalCount \in Nat
    /\ resumes \in 0..MaxResumes
FlagTypes == valid \in BOOLEAN /\ stranded \in BOOLEAN /\ unheard \in BOOLEAN

\* There is one list to come, or none, and the flag tells which
OneList == CountIn(queue, List) + Len(lists) = IF batchRequested THEN 1 ELSE 0

\* Between a resume and the update of the rows nothing else of the set is under way
RetryAlone ==
    CountIn(queue, Retry) > 0 =>
        /\ queue = <<Retry, List>> /\ lists = <<>> /\ todo = <<>>
        /\ \A t \in Tile : inFlight[t] = 0
        /\ downloading /\ ~noMoreTiles /\ ~Complete

\* A short list is the last
ShortIsLast ==
    /\ noMoreTiles => ~batchRequested /\ Pending = {}
    /\ \A i \in DOMAIN lists : IsShort(lists[i]) => Pending = {}

\* What has been counted as saved is recorded, or its record is in the queue
Saved == {t \in Tile : row[t] = "none" \/ CountIn(queue, Record(t)) > 0}
SavedIsRecorded == savedCount = Cardinality(Saved)

\* The total is lowered once, when the set becomes complete
TotalIsAll == totalCount = NumTiles \/ Complete
CompleteIsLast == Complete => Pending = {} /\ \A i \in DOMAIN lists : lists[i] = <<>>

\* An answer is thrown away of a tile that was being downloaded
DroppedAreTaken == \A t \in dropped : row[t] = "downloading"

\* A tile that is being downloaded is in one place, unless its answer was thrown away
InPlace ==
    \A t \in Tile :
        Places(t) = IF row[t] = "downloading" /\ t \notin dropped THEN 1 ELSE 0

Held == /\ InPlace /\ OneList /\ RetryAlone /\ ShortIsLast
        /\ SavedIsRecorded /\ TotalIsAll /\ CompleteIsLast /\ DroppedAreTaken

\* Without its database the worker records nothing any more
IInv == Types /\ FlagTypes /\ (Sound => Held)

-----------------------------------------------------------------------------
(* Counting in sequences *)

At(s, x) == {i \in DOMAIN s : s[i] = x}

\* The places of an element are finite in number.
LEMMA AtFinite ==
    ASSUME NEW S, NEW s \in Seq(S), NEW x
    PROVE  /\ IsFiniteSet(At(s, x)) /\ At(s, x) \subseteq 1..Len(s) /\ Len(s) \in Nat
           /\ CountIn(s, x) = Cardinality(At(s, x)) /\ CountIn(s, x) \in Nat
<1>1. Len(s) \in Nat /\ DOMAIN s = 1..Len(s)
  BY LenProperties
<1>2. IsFiniteSet(1..Len(s))
  BY <1>1, FS_Interval
<1>3. At(s, x) \in SUBSET (1..Len(s))
  BY <1>1 DEF At
<1>4. IsFiniteSet(At(s, x)) /\ Cardinality(At(s, x)) \in Nat
  BY <1>2, <1>3, FS_Subset, FS_CardinalityType
<1>5. CountIn(s, x) = Cardinality(At(s, x))
  BY DEF CountIn, At
<1> QED BY <1>1, <1>3, <1>4, <1>5

\* Nothing is in the empty sequence.
LEMMA CountEmpty == \A x : CountIn(<<>>, x) = 0
<1> TAKE x
<1>1. At(<<>>, x) = {}
  BY DEF At
<1> QED BY <1>1, FS_EmptySet DEF CountIn, At

\* What is counted is somewhere in the sequence.
LEMMA CountedIsIn ==
    ASSUME NEW S, NEW s \in Seq(S), NEW x
    PROVE  CountIn(s, x) > 0 <=> \E i \in 1..Len(s) : s[i] = x
<1>1. /\ IsFiniteSet(At(s, x)) /\ Cardinality(At(s, x)) \in Nat
      /\ CountIn(s, x) = Cardinality(At(s, x))
  BY AtFinite
<1>2. Cardinality(At(s, x)) = 0 <=> At(s, x) = {}
  BY <1>1, FS_EmptySet
<1>3. CountIn(s, x) > 0 <=> At(s, x) # {}
  BY <1>1, <1>2
<1>4. At(s, x) # {} <=> \E i \in 1..Len(s) : s[i] = x
  BY LenProperties DEF At
<1> QED BY <1>3, <1>4

\* The counts of two sequences add up.
LEMMA CountConcat ==
    ASSUME NEW S, NEW s \in Seq(S), NEW r \in Seq(S), NEW x
    PROVE  CountIn(s \o r, x) = CountIn(s, x) + CountIn(r, x)
<1> DEFINE c == s \o r
           Shift == [i \in At(r, x) |-> Len(s) + i]
           Late == {i \in At(c, x) : i > Len(s)}
<1>1. c \in Seq(S) /\ Len(c) = Len(s) + Len(r) /\ Len(s) \in Nat /\ Len(r) \in Nat
  BY ConcatProperties, LenProperties
<1>2. \A i \in 1..Len(s) + Len(r) : c[i] = IF i <= Len(s) THEN s[i] ELSE r[i - Len(s)]
  BY ConcatProperties
<1>3. /\ IsFiniteSet(At(s, x)) /\ IsFiniteSet(At(r, x)) /\ IsFiniteSet(At(c, x))
      /\ CountIn(s, x) = Cardinality(At(s, x)) /\ CountIn(r, x) = Cardinality(At(r, x))
      /\ CountIn(c, x) = Cardinality(At(c, x))
  BY <1>1, AtFinite
<1>4. /\ DOMAIN s = 1..Len(s) /\ DOMAIN r = 1..Len(r) /\ DOMAIN c = 1..Len(s) + Len(r)
  BY <1>1, LenProperties
<1> HIDE DEF c
<1>5. At(c, x) = At(s, x) \cup Late /\ At(s, x) \cap Late = {}
  BY <1>1, <1>2, <1>4 DEF At
<1>6. Shift \in Bijection(At(r, x), Late)
  <2>1. \A i \in At(r, x) : i \in Nat /\ Len(s) + i \in Late
    BY <1>1, <1>2, <1>4 DEF At
  <2>2. \A j \in Late : j \in Nat /\ j - Len(s) \in At(r, x) /\ Len(s) + (j - Len(s)) = j
    BY <1>1, <1>2, <1>4 DEF At
  <2>3. Shift \in [At(r, x) -> Late]
    BY <2>1
  <2>4. \A i, j \in At(r, x) : Shift[i] = Shift[j] => i = j
    BY <1>1, <2>1
  <2>5. \A j \in Late : \E i \in At(r, x) : Shift[i] = j
    BY <2>2
  <2> QED BY <2>3, <2>4, <2>5 DEF Bijection, Injection, Surjection, IsInjective
<1>7. Cardinality(Late) = Cardinality(At(r, x)) /\ IsFiniteSet(Late)
  BY <1>3, <1>6, FS_Bijection DEF ExistsBijection
<1> HIDE DEF Late, Shift
<1>8. Cardinality(At(s, x) \cup Late)
        = Cardinality(At(s, x)) + Cardinality(Late) - Cardinality(At(s, x) \cap Late)
  BY <1>3, <1>7, FS_Union
<1>9. Cardinality(At(s, x) \cap Late) = 0
  BY <1>5, FS_EmptySet
<1>10. /\ Cardinality(At(s, x)) \in Nat /\ Cardinality(Late) \in Nat
  BY <1>3, <1>7, FS_CardinalityType
<1>11. Cardinality(At(c, x)) = Cardinality(At(s, x)) + Cardinality(At(r, x))
  BY <1>5, <1>7, <1>8, <1>9, <1>10
<1> QED BY <1>3, <1>11 DEF c

\* An element alone is there once.
LEMMA CountOne == \A y, x : CountIn(<<y>>, x) = IF x = y THEN 1 ELSE 0
<1> TAKE y, x
<1>1. At(<<y>>, x) = IF x = y THEN {1} ELSE {}
  BY DEF At
<1>2. CountIn(<<y>>, x) = Cardinality(At(<<y>>, x))
  BY DEF CountIn, At
<1> QED BY <1>1, <1>2, FS_EmptySet, FS_Singleton

\* An appended element is there once more.
LEMMA CountAppend ==
    ASSUME NEW S, NEW s \in Seq(S), NEW y \in S, NEW x
    PROVE  CountIn(Append(s, y), x) = CountIn(s, x) + IF x = y THEN 1 ELSE 0
<1>1. Append(s, y) = s \o <<y>> /\ <<y>> \in Seq(S)
  BY AppendIsConcat
<1>2. CountIn(s \o <<y>>, x) = CountIn(s, x) + CountIn(<<y>>, x)
  BY <1>1, CountConcat
<1>3. CountIn(<<y>>, x) = IF x = y THEN 1 ELSE 0
  BY CountOne
<1> QED BY <1>1, <1>2, <1>3

\* The first element is there once less in the rest.
LEMMA CountTail ==
    ASSUME NEW S, NEW s \in Seq(S), s # <<>>, NEW x
    PROVE  CountIn(s, x) = CountIn(Tail(s), x) + IF x = Head(s) THEN 1 ELSE 0
<1>1. Head(s) \in S /\ Tail(s) \in Seq(S) /\ <<Head(s)>> \in Seq(S)
  BY HeadTailProperties
<1>2. s = <<Head(s)>> \o Tail(s)
  OBVIOUS
<1>3. CountIn(<<Head(s)>> \o Tail(s), x) = CountIn(<<Head(s)>>, x) + CountIn(Tail(s), x)
  BY <1>1, CountConcat
<1>4. CountIn(<<Head(s)>>, x) \in Nat /\ CountIn(Tail(s), x) \in Nat
  BY <1>1, AtFinite
<1>5. CountIn(<<Head(s)>>, x) = IF x = Head(s) THEN 1 ELSE 0
  BY CountOne
<1>6. CountIn(s, x) = CountIn(<<Head(s)>>, x) + CountIn(Tail(s), x)
  BY <1>2, <1>3, Zenon
<1> QED BY ONLY <1>4, <1>5, <1>6

\* What is taken from the front of a sequence and what stays are all of it.
LEMMA CountSplit ==
    ASSUME NEW S, NEW s \in Seq(S), NEW n \in 0..Len(s), NEW x
    PROVE  /\ SubSeq(s, 1, n) \in Seq(S) /\ Len(SubSeq(s, 1, n)) = n
           /\ SubSeq(s, n + 1, Len(s)) \in Seq(S)
           /\ CountIn(SubSeq(s, 1, n), x) + CountIn(SubSeq(s, n + 1, Len(s)), x) = CountIn(s, x)
<1>1. Len(s) \in Nat /\ \A i \in 1..Len(s) : s[i] \in S
  BY LenProperties, ElementOfSeq
<1>2. SubSeq(s, 1, n) \in Seq(S) /\ Len(SubSeq(s, 1, n)) = n
  BY <1>1, SubSeqProperties
<1>3. SubSeq(s, n + 1, Len(s)) \in Seq(S)
  BY <1>1, SubSeqProperties
<1>4. SubSeq(s, 1, n) \o SubSeq(s, n + 1, Len(s)) = SubSeq(s, 1, Len(s))
  <2>1. 1 \in 1..Len(s) + 1 /\ n \in 1 - 1..Len(s) /\ Len(s) \in n..Len(s)
    BY <1>1
  <2> QED BY <2>1, ConcatAdjacentSubSeq
<1>5. SubSeq(s, 1, Len(s)) = s
  BY SubSeqFull
<1>6. CountIn(SubSeq(s, 1, n) \o SubSeq(s, n + 1, Len(s)), x)
        = CountIn(SubSeq(s, 1, n), x) + CountIn(SubSeq(s, n + 1, Len(s)), x)
  BY <1>2, <1>3, CountConcat
<1> QED BY <1>2, <1>3, <1>4, <1>5, <1>6

\* One list, or none, is its own concatenation.
LEMMA FlattenNone == FlattenSeq(<<>>) = <<>>
BY EmptySeq DEF FlattenSeq

\* The concatenation of one list is the list.
LEMMA FlattenOne == \A s : FlattenSeq(<<s>>) = s
<1> TAKE s
<1> DEFINE Def(f) == f = [i \in 1..Len(<<s>>) |-> IF i = 1 THEN <<s>>[i] ELSE f[i - 1] \o <<s>>[i]]
           g == [i \in 1..Len(<<s>>) |-> s]
<1>1. Len(<<s>>) = 1
  OBVIOUS
<1>2. Def(g)
  BY <1>1
<1>3. \A f : Def(f) => f[1] = s
  BY <1>1
<1>4. Def(CHOOSE f : Def(f))
  BY <1>2, Zenon
<1>5. (CHOOSE f : Def(f))[1] = s
  BY <1>3, <1>4
<1> QED BY <1>1, <1>5 DEF FlattenSeq

-----------------------------------------------------------------------------
(* What the operators of the model compute *)

\* Tiles are numbers, and finite in number.
LEMMA TilesAreNumbers == Tile \subseteq Nat /\ IsFiniteSet(Tile) /\ Cardinality(Tile) = NumTiles
<1>1. NumTiles \in Nat
  BY DownloadAssumption
<1>2. Tile \subseteq Nat
  BY <1>1 DEF Tile
<1>3. 1 \in Int /\ NumTiles \in Int /\ 1 <= NumTiles
  BY DownloadAssumption
<1> QED BY <1>1, <1>2, <1>3, FS_Interval DEF Tile

\* The rows in order are all of them, each once.
LEMMA OrderedOnce ==
    ASSUME NEW ts \in SUBSET Tile, NEW s \in InOrder(ts)
    PROVE  /\ s \in Seq(Tile) /\ Len(s) = Cardinality(ts)
           /\ \A t \in Tile : CountIn(s, t) = IF t \in ts THEN 1 ELSE 0
<1> DEFINE n == Cardinality(ts)
<1>1. Tile \subseteq Nat /\ IsFiniteSet(Tile)
  BY TilesAreNumbers
<1>2. IsFiniteSet(ts) /\ n \in Nat
  BY <1>1, FS_Subset, FS_CardinalityType
<1>3. s \in [1..n -> ts] /\ \A i, j \in 1..n : i < j => s[i] < s[j]
  BY DEF InOrder
<1> HIDE DEF n
<1>4. s \in Seq(Tile) /\ Len(s) = n /\ DOMAIN s = 1..n
  BY <1>2, <1>3
<1>5. \A i \in 1..n : s[i] \in Nat
  BY <1>1, <1>3
<1>6. \A i, j \in 1..n : s[i] = s[j] => i = j
  BY <1>2, <1>3, <1>5
<1>7. s \in Injection(1..n, ts)
  BY <1>3, <1>6 DEF Injection, IsInjective
<1>8. Cardinality(1..n) = n
  BY <1>2, FS_Interval
<1>9. s \in Surjection(1..n, ts)
  BY <1>2, <1>7, <1>8, FS_Injection DEF n
<1>10. ASSUME NEW t \in ts PROVE CountIn(s, t) = 1
  <2>1. PICK i \in 1..n : s[i] = t
    BY <1>9 DEF Surjection
  <2>2. At(s, t) = {i}
    BY <1>4, <1>6, <2>1 DEF At
  <2> QED BY <2>2, FS_Singleton DEF CountIn, At
<1>11. ASSUME NEW t \in Tile, t \notin ts PROVE CountIn(s, t) = 0
  <2>1. At(s, t) = {}
    BY <1>3, <1>4, <1>11 DEF At
  <2> QED BY <2>1, FS_EmptySet DEF CountIn, At
<1> QED BY <1>4, <1>10, <1>11 DEF n

\* The least of a set of natural numbers is one of them.
LEMMA LeastOf ==
    ASSUME NEW N \in SUBSET Nat, N # {}
    PROVE  \E x \in N : \A y \in N : x <= y
<1>1. IsWellFoundedOn(OpToRel(<, Nat), Nat)
  BY NatLessThanWellFounded
<1>2. PICK x \in N : \A y \in N : ~ (<<y, x>> \in OpToRel(<, Nat))
  BY <1>1, WFMin
<1>3. OpToRel(<, Nat) = {ss \in Nat \X Nat : ss[1] < ss[2]}
  BY DEF OpToRel
<1>4. ASSUME NEW y \in N, y < x PROVE FALSE
  <2>1. <<y, x>> \in {ss \in Nat \X Nat : ss[1] < ss[2]}
    BY <1>4
  <2> QED BY <1>2, <1>3, <2>1
<1> QED BY <1>4

\* A list that is short has every pending tile.
LEMMA ShortHasAll ==
    /\ Fetched \subseteq Pending /\ Pending \subseteq Tile
    /\ Cardinality(Fetched) \in Nat
    /\ Cardinality(Fetched) < Batch => Fetched = Pending
<1>1. Tile \subseteq Nat /\ IsFiniteSet(Tile) /\ Batch \in Nat
  BY TilesAreNumbers, DownloadAssumption
<1>2. Fetched \subseteq Pending /\ Pending \subseteq Tile
  BY DEF Fetched, Pending
<1>3. IsFiniteSet(Fetched) /\ Cardinality(Fetched) \in Nat
  BY <1>1, <1>2, FS_Subset, FS_CardinalityType
<1>4. ASSUME Fetched # Pending PROVE ~ (Cardinality(Fetched) < Batch)
  <2> DEFINE Left == Pending \ Fetched
             Earlier(t) == {u \in Pending : u < t}
  <2>1. Left \subseteq Nat /\ Left # {}
    BY <1>1, <1>2, <1>4, Zenon
  <2>2. PICK t \in Left : \A y \in Left : t <= y
    BY <2>1, LeastOf
  <2>3. Earlier(t) \subseteq Fetched
    <3>1. ASSUME NEW u \in Pending, u < t, u \notin Fetched PROVE FALSE
      <4>1. u \in Nat /\ t \in Nat /\ t <= u
        BY <1>1, <1>2, <2>1, <2>2, <3>1
      <4> QED BY <3>1, <4>1
    <3> QED BY <3>1
  <2>4. Cardinality(Earlier(t)) \in Nat /\ Cardinality(Earlier(t)) <= Cardinality(Fetched)
    BY <1>3, <2>3, FS_Subset, FS_CardinalityType
  <2>5. ~ (Cardinality(Earlier(t)) < Batch)
    BY <2>2 DEF Fetched
  <2> HIDE DEF Earlier
  <2> QED BY <1>1, <1>3, <2>4, <2>5
<1> QED BY <1>2, <1>3, <1>4

\* The requests that are made now are the first tiles to download.
LEMMA RequestsAreFirst ==
    ASSUME NEW tiles \in Seq(Tile), NEW keys \in SUBSET Tile
    PROVE  \E n \in 0..Len(tiles) : Requests(tiles, keys) = SubSeq(tiles, 1, n)
<1> DEFINE free == Concurrent - Cardinality(keys)
<1>1. IsFiniteSet(Tile) /\ Concurrent \in Nat
  BY TilesAreNumbers, DownloadAssumption
<1>2. Cardinality(keys) \in Nat
  BY <1>1, FS_Subset, FS_CardinalityType
<1>3. Len(tiles) \in Nat
  BY LenProperties
<1>4. CASE Cardinality(keys) >= Concurrent
  <2>1. SubSeq(tiles, 1, 0) = <<>>
    BY SubSeqEmpty
  <2> QED BY <1>3, <1>4, <2>1 DEF Requests
<1>5. CASE ~ (Cardinality(keys) >= Concurrent)
  <2>1. {Len(tiles), free} \subseteq Nat
    BY <1>1, <1>2, <1>3, <1>5
  <2>2. \E x \in {Len(tiles), free} : \A y \in {Len(tiles), free} : x <= y
    BY <2>1, LeastOf
  <2>3. /\ Min({Len(tiles), free}) \in {Len(tiles), free}
        /\ \A y \in {Len(tiles), free} : Min({Len(tiles), free}) <= y
    BY <2>2 DEF Min
  <2>4. Min({Len(tiles), free}) \in 0..Len(tiles)
    BY <1>3, <2>1, <2>3
  <2>5. Requests(tiles, keys) = SubSeq(tiles, 1, Min({Len(tiles), free}))
    BY <1>5 DEF Requests
  <2> QED BY <2>4, <2>5
<1> QED BY <1>4, <1>5

-----------------------------------------------------------------------------
(* What the shared steps of the handlers do *)

\* The flags and the queue after a handler that has put tasks into the queue, has saved so
\* many tiles and has left the two flags as given
Led(given, saved, batch, noMore) ==
    /\ queue' \in Seq(Task) /\ errorCount' \in Nat /\ totalCount' \in Nat
    /\ downloading' \in BOOLEAN /\ cancelPending' \in BOOLEAN
    /\ noMoreTiles' \in BOOLEAN /\ batchRequested' \in BOOLEAN
    /\ \/ ~valid
       \/ queue' = given /\ batchRequested' = batch
       \/ queue' = Append(given, List) /\ ~batch /\ ~noMore /\ batchRequested'
    /\ noMoreTiles' => noMore
    /\ totalCount' = totalCount \/ (totalCount' = saved /\ noMore)

\* A worker with its database accepts every task.
LEMMA Accepted ==
    ASSUME NEW given \in Seq(Task), NEW task \in Task
    PROVE  Accept(given, task) \in Seq(Task) /\ (valid => Accept(given, task) = Append(given, task))
<1>1. Append(given, task) \in Seq(Task)
  BY AppendProperties
<1> QED BY <1>1 DEF Accept

\* The end of a download counts what has been saved, if nothing failed.
LEMMA DoneLeads ==
    ASSUME Types, NEW given \in Seq(Task), NEW errors \in Nat, NEW saved \in Nat,
           NEW batch \in BOOLEAN, NEW noMore \in BOOLEAN, noMore,
           DoneWithDownload(given, errors, saved, batch, noMore)
    PROVE  Led(given, saved, batch, noMore)
<1>1. /\ downloading' = FALSE /\ queue' = given /\ batchRequested' = batch
      /\ errorCount' = errors /\ noMoreTiles' = noMore /\ cancelPending' = cancelPending
      /\ totalCount' = IF errors = 0 THEN saved ELSE totalCount
  BY DEF DoneWithDownload
<1>2. cancelPending \in BOOLEAN /\ totalCount \in Nat
  BY DEF Types
<1> QED BY <1>1, <1>2 DEF Led

\* The task for a list is put into the queue unless the download is cancelled.
LEMMA CreateLeads ==
    ASSUME Types, NEW given \in Seq(Task), NEW errors \in Nat, NEW saved \in Nat,
           NEW batch \in BOOLEAN, NEW noMore \in BOOLEAN, NEW cancel \in BOOLEAN,
           ~batch, ~noMore, noMoreTiles => noMore,
           CreateDownloadTask(cancel, given, errors, batch), totalCount' = totalCount
    PROVE  Led(given, saved, batch, noMore)
<1>1. /\ noMoreTiles \in BOOLEAN /\ downloading \in BOOLEAN /\ totalCount \in Nat
      /\ ~noMoreTiles
  BY DEF Types
<1>2. CASE cancel
  <2>1. /\ cancelPending' = cancel /\ downloading' = FALSE /\ queue' = given
        /\ batchRequested' = batch /\ errorCount' = errors /\ noMoreTiles' = noMoreTiles
    BY <1>2 DEF CreateDownloadTask
  <2> QED BY <1>1, <2>1 DEF Led
<1>3. CASE ~cancel
  <2>1. /\ cancelPending' = cancel /\ downloading' = TRUE /\ queue' = Accept(given, List)
        /\ batchRequested' = TRUE /\ noMoreTiles' = (downloading /\ noMoreTiles)
        /\ errorCount' = IF downloading THEN errors ELSE 0
    BY <1>3 DEF CreateDownloadTask
  <2>2. Accept(given, List) \in Seq(Task) /\ (valid => Accept(given, List) = Append(given, List))
    <3>1. List \in Task
      BY DEF Task
    <3> QED BY <3>1, Accepted
  <2>3. errorCount' \in Nat /\ noMoreTiles' \in BOOLEAN /\ ~noMoreTiles'
    BY <1>1, <2>1
  <2> QED BY <1>1, <2>1, <2>2, <2>3 DEF Led
<1> QED BY <1>2, <1>3

\* _prepareDownload ends the download, asks for a list or goes on.
LEMMA PrepareLeads ==
    ASSUME Types, NEW given \in Seq(Task), NEW errors \in Nat, NEW saved \in Nat,
           NEW tiles, NEW keys, NEW flying,
           NEW batch \in BOOLEAN, NEW noMore \in BOOLEAN, noMoreTiles => noMore,
           PrepareDownload(given, errors, saved, tiles, keys, flying, batch, noMore)
    PROVE  Led(given, saved, batch, noMore)
<1>1. CASE /\ noMore /\ DoneWithDownload(given, errors, saved, batch, noMore)
  BY <1>1, DoneLeads
<1>2. CASE /\ ~batch /\ ~noMore /\ totalCount' = totalCount
           /\ CreateDownloadTask(cancelPending, given, errors, batch)
  <2>1. cancelPending \in BOOLEAN
    BY DEF Types
  <2> QED BY <1>2, <2>1, CreateLeads
<1>3. CASE totalCount' = totalCount /\ GoOn(given, errors, batch, noMore)
  BY <1>3 DEF GoOn, Led, Types
<1> QED BY <1>1, <1>2, <1>3 DEF PrepareDownload, WantsBatch

\* _prepareDownload requests the first tiles to download; none is lost or requested twice.
LEMMA PrepareMoves ==
    ASSUME Types, NEW given, NEW errors, NEW saved, NEW batch, NEW noMore,
           NEW tiles \in Seq(Tile), NEW flying \in [Tile -> Nat],
           NEW keys \in SUBSET {t \in Tile : flying[t] > 0},
           PrepareDownload(given, errors, saved, tiles, keys, flying, batch, noMore)
    PROVE  /\ todo' \in Seq(Tile) /\ inFlight' \in [Tile -> Nat]
           /\ replies' \subseteq {t \in Tile : inFlight'[t] > 0}
           /\ \A t \in Tile : CountIn(todo', t) + inFlight'[t] = CountIn(tiles, t) + flying[t]
<1> DEFINE now == Requests(tiles, keys)
<1>1. keys \in SUBSET Tile /\ \A t \in keys : flying[t] > 0
  OBVIOUS
<1>2. PICK n \in 0..Len(tiles) : now = SubSeq(tiles, 1, n)
  BY <1>1, RequestsAreFirst
<1>3. Len(tiles) \in Nat
  BY LenProperties
<1>4. /\ now \in Seq(Tile) /\ Len(now) = n /\ SubSeq(tiles, n + 1, Len(tiles)) \in Seq(Tile)
      /\ \A t : CountIn(now, t) + CountIn(SubSeq(tiles, n + 1, Len(tiles)), t) = CountIn(tiles, t)
  BY <1>2, CountSplit
<1>5. /\ todo' = SubSeq(tiles, Len(now) + 1, Len(tiles))
      /\ replies' = keys \cup ToSet(now)
      /\ inFlight' = [t \in Tile |-> flying[t] + CountIn(now, t)]
  BY DEF PrepareDownload
<1> HIDE DEF now
<1>6. \A t : CountIn(now, t) \in Nat /\ CountIn(todo', t) \in Nat /\ CountIn(tiles, t) \in Nat
  BY <1>4, <1>5, AtFinite
<1>7. todo' \in Seq(Tile) /\ inFlight' \in [Tile -> Nat]
  BY <1>4, <1>5, <1>6
<1>8. \A t \in Tile : inFlight'[t] = flying[t] + CountIn(now, t)
  BY <1>5
<1>9. ASSUME NEW t \in ToSet(now) PROVE t \in Tile /\ CountIn(now, t) > 0
  <2>1. PICK i \in 1..Len(now) : t = now[i]
    BY <1>4, LenProperties DEF ToSet
  <2>2. now[i] \in Tile
    BY <1>4, <2>1, ElementOfSeq
  <2> QED BY <1>4, <2>1, <2>2, CountedIsIn
<1>10. replies' \subseteq {t \in Tile : inFlight'[t] > 0}
  <2>1. ASSUME NEW t \in keys PROVE t \in Tile /\ inFlight'[t] > 0
    BY <1>1, <1>6, <1>8
  <2>2. ASSUME NEW t \in ToSet(now) PROVE t \in Tile /\ inFlight'[t] > 0
    BY <1>6, <1>8, <1>9
  <2> QED BY <1>5, <2>1, <2>2
<1>11. ASSUME NEW t \in Tile
       PROVE  CountIn(todo', t) + inFlight'[t] = CountIn(tiles, t) + flying[t]
  <2>1. CountIn(now, t) + CountIn(todo', t) = CountIn(tiles, t)
    BY <1>4, <1>5
  <2>2. flying[t] \in Nat
    OBVIOUS
  <2> QED BY <1>6, <1>8, <2>1, <2>2
<1> QED BY <1>7, <1>10, <1>11

-----------------------------------------------------------------------------
(* Tasks and lists *)

\* The tasks of the queue are told apart by their type.
LEMMA TasksDiffer ==
    /\ List # Retry
    /\ \A t : List # Record(t) /\ List # Error(t) /\ Retry # Record(t) /\ Retry # Error(t)
    /\ \A t, u : Record(t) # Error(u)
    /\ \A t, u : (Record(t) = Record(u) <=> t = u) /\ (Error(t) = Error(u) <=> t = u)
<1>1. List.type = "list" /\ Retry.type = "retry"
  BY DEF List, Retry
<1>2. \A t : Record(t).type = "record" /\ Record(t).tile = t
  BY DEF Record
<1>3. \A t : Error(t).type = "error" /\ Error(t).tile = t
  BY DEF Error
<1> QED BY <1>1, <1>2, <1>3

\* A task is of the kind its type says, and an answer names a tile.
LEMMA TaskKinds ==
    ASSUME NEW k \in Task
    PROVE  /\ k.type = "list" => k = List
           /\ k.type = "retry" => k = Retry
           /\ k.type = "record" => k.tile \in Tile /\ k = Record(k.tile)
           /\ k.type = "error" => k.tile \in Tile /\ k = Error(k.tile)
<1>1. List.type = "list" /\ Retry.type = "retry"
  BY DEF List, Retry
<1>2. \A t : Record(t).type = "record" /\ Record(t).tile = t
  BY DEF Record
<1>3. \A t : Error(t).type = "error" /\ Error(t).tile = t
  BY DEF Error
<1>4. k = List \/ k = Retry \/ (\E t \in Tile : k = Record(t)) \/ (\E t \in Tile : k = Error(t))
  BY DEF Task
<1> QED BY <1>1, <1>2, <1>3, <1>4

\* A sequence of one element is its head, of none is empty.
LEMMA FewElements ==
    ASSUME NEW S, NEW s \in Seq(S)
    PROVE  /\ Len(s) = 0 => s = <<>>
           /\ Len(s) = 1 => s = <<Head(s)>> /\ Head(s) \in S
<1>1. Len(s) = 0 => s = <<>>
  BY EmptySeq
<1>2. ASSUME Len(s) = 1 PROVE s = <<Head(s)>> /\ Head(s) \in S
  <2>1. s # <<>> /\ Head(s) = s[1]
    BY <1>2
  <2>2. Head(s) \in S
    BY <2>1, HeadTailProperties
  <2>3. <<Head(s)>> \in Seq(S) /\ Len(<<Head(s)>>) = 1
    BY <2>2
  <2>4. \A i \in 1..Len(s) : s[i] = <<Head(s)>>[i]
    BY <1>2, <2>1
  <2>5. s = <<Head(s)>>
    BY <1>2, <2>3, <2>4, SeqEqual
  <2> QED BY <2>2, <2>5
<1> QED BY <1>1, <1>2

\* Sequences of one and two elements are built by appending.
LEMMA TwoElements ==
    /\ \A x : Append(<<>>, x) = <<x>>
    /\ \A x, y : Append(Append(<<>>, x), y) = <<x, y>>
    /\ \A x, y : Append(<<x>>, y) = <<x, y>>
<1> SUFFICES ASSUME NEW x, NEW y
             PROVE  Append(<<>>, x) = <<x>> /\ Append(<<x>>, y) = <<x, y>>
  BY Zenon
<1> DEFINE S == {x, y}
<1>1. <<>> \in Seq(S) /\ <<x>> \in Seq(S) /\ <<x, y>> \in Seq(S)
  OBVIOUS
<1>2. Append(<<>>, x) = <<x>>
  BY <1>1, AppendProperties, SeqEqual
<1>3. Append(<<x>>, y) = <<x, y>>
  <2>1. Len(<<x>>) = 1 /\ <<x>>[1] = x /\ Len(<<x, y>>) = 2 /\ <<x, y>>[1] = x /\ <<x, y>>[2] = y
    OBVIOUS
  <2>2. /\ Append(<<x>>, y) \in Seq(S) /\ Len(Append(<<x>>, y)) = 2
        /\ Append(<<x>>, y)[1] = x /\ Append(<<x>>, y)[2] = y
    BY <1>1, <2>1, AppendProperties
  <2>3. \A i \in 1..2 : Append(<<x>>, y)[i] = <<x, y>>[i]
    BY <2>1, <2>2
  <2> QED BY <1>1, <2>1, <2>2, <2>3, SeqEqual
<1> QED BY <1>2, <1>3

\* There is at most one list on its way.
LEMMA ListsAreFew ==
    ASSUME Types, OneList
    PROVE  /\ lists = <<>> \/ \E s \in Seq(Tile) : lists = <<s>>
           /\ CountIn(queue, List) \in Nat /\ Len(lists) \in Nat
<1>1. CountIn(queue, List) \in Nat /\ Len(lists) \in Nat
  BY AtFinite, LenProperties DEF Types
<1>2. Len(lists) <= 1
  BY <1>1 DEF OneList
<1>3. lists \in Seq(Seq(Tile))
  BY DEF Types
<1>4. Len(lists) = 0 => lists = <<>>
  BY <1>3, FewElements
<1>5. Len(lists) = 1 => lists = <<Head(lists)>> /\ Head(lists) \in Seq(Tile)
  BY <1>3, FewElements
<1>6. Len(lists) = 0 \/ Len(lists) = 1
  BY <1>1, <1>2
<1>7. lists = <<>> \/ \E s \in Seq(Tile) : lists = <<s>>
  BY <1>4, <1>5, <1>6, Zenon
<1> QED BY <1>1, <1>7

\* How often a tile is in the places it can be.
LEMMA Parts ==
    ASSUME Types, OneList, NEW t \in Tile
    PROVE  /\ CountIn(FlattenSeq(lists), t) \in Nat /\ CountIn(todo, t) \in Nat
           /\ inFlight[t] \in Nat
           /\ CountIn(queue, Record(t)) \in Nat /\ CountIn(queue, Error(t)) \in Nat
<1>1. FlattenSeq(lists) \in Seq(Tile)
  <2>1. CASE lists = <<>>
    <3>1. <<>> \in Seq(Tile)
      BY EmptySeq
    <3>2. FlattenSeq(lists) = <<>>
      BY <2>1, FlattenNone, Zenon
    <3> QED BY <3>1, <3>2
  <2>2. ASSUME NEW s \in Seq(Tile), lists = <<s>> PROVE FlattenSeq(lists) \in Seq(Tile)
    <3>1. FlattenSeq(<<s>>) = s
      BY FlattenOne
    <3> QED BY <2>2, <3>1
  <2> QED BY <2>1, <2>2, ListsAreFew
<1> QED BY <1>1, AtFinite DEF Types

\* What the steps of the handlers add to the queue is a task for a list, or nothing.
LEMMA LedCounts ==
    ASSUME valid, NEW given \in Seq(Task), NEW saved, NEW batch \in BOOLEAN, NEW noMore,
           Led(given, saved, batch, noMore)
    PROVE  /\ \A x : x # List => CountIn(queue', x) = CountIn(given, x)
           /\ CountIn(queue', List) + (IF batch THEN 1 ELSE 0)
                = CountIn(given, List) + (IF batchRequested' THEN 1 ELSE 0)
<1>1. List \in Task
  BY DEF Task
<1>2. \A x : /\ CountIn(Append(given, List), x) = CountIn(given, x) + IF x = List THEN 1 ELSE 0
             /\ CountIn(given, x) \in Nat
  BY <1>1, CountAppend, AtFinite
<1>3. CASE queue' = given /\ batchRequested' = batch
  BY <1>2, <1>3
<1>4. CASE queue' = Append(given, List) /\ ~batch /\ ~noMore /\ batchRequested'
  <2>1. ASSUME NEW x, x # List PROVE CountIn(queue', x) = CountIn(given, x)
    BY <1>2, <1>4, <2>1
  <2>2. CountIn(queue', List) = CountIn(given, List) + 1
    BY <1>2, <1>4
  <2> QED BY <1>2, <1>4, <2>1, <2>2
<1> QED BY <1>3, <1>4 DEF Led

\* What has been handed out is not pending any more.
LEMMA InPlaceOnce ==
    ASSUME Types, Held, NEW t \in Tile, Places(t) > 0
    PROVE  row[t] = "downloading" /\ t \notin dropped /\ Places(t) = 1
BY DEF Held, InPlace

\* When every tile is counted as saved none is pending or in a list on its way.
LEMMA AllSaved ==
    Types /\ InPlace /\ OneList /\ SavedIsRecorded /\ NumTiles <= savedCount
        => Pending = {} /\ \A i \in DOMAIN lists : lists[i] = <<>>
<1> SUFFICES ASSUME Types, InPlace, OneList, SavedIsRecorded, NumTiles <= savedCount
             PROVE  Pending = {} /\ \A i \in DOMAIN lists : lists[i] = <<>>
  OBVIOUS
<1>1. IsFiniteSet(Tile) /\ Cardinality(Tile) = NumTiles /\ NumTiles \in Nat
  BY TilesAreNumbers, DownloadAssumption
<1>2. Saved \subseteq Tile
  BY DEF Saved
<1>3. /\ IsFiniteSet(Saved) /\ Cardinality(Saved) <= Cardinality(Tile)
      /\ Cardinality(Saved) = Cardinality(Tile) => Saved = Tile
  BY <1>1, <1>2, FS_Subset
<1>4. Cardinality(Saved) \in Nat
  BY <1>3, FS_CardinalityType
<1>5. Saved = Tile
  BY <1>1, <1>3, <1>4 DEF SavedIsRecorded
<1>6. ASSUME NEW t \in Tile PROVE row[t] # "pending" /\ CountIn(FlattenSeq(lists), t) = 0
  <2>1. row[t] = "none" \/ CountIn(queue, Record(t)) > 0
    BY <1>5 DEF Saved
  <2>2. /\ CountIn(FlattenSeq(lists), t) \in Nat /\ CountIn(todo, t) \in Nat
        /\ inFlight[t] \in Nat
        /\ CountIn(queue, Record(t)) \in Nat /\ CountIn(queue, Error(t)) \in Nat
    BY Parts
  <2>3. Places(t) = IF row[t] = "downloading" /\ t \notin dropped THEN 1 ELSE 0
    BY DEF InPlace
  <2>4. Places(t) = CountIn(FlattenSeq(lists), t) + CountIn(todo, t) + inFlight[t]
                      + CountIn(queue, Record(t)) + CountIn(queue, Error(t))
    BY DEF Places
  <2>5. Places(t) = 0 \/ (row[t] = "downloading" /\ Places(t) = 1)
    BY <2>3, Zenon
  <2> HIDE DEF Places
  <2>6. CASE row[t] = "none"
    BY <2>2, <2>4, <2>5, <2>6
  <2>7. CASE CountIn(queue, Record(t)) > 0
    BY <2>2, <2>4, <2>5, <2>7
  <2> QED BY <2>1, <2>6, <2>7
<1>7. ASSUME NEW s \in Seq(Tile), lists = <<s>> PROVE s = <<>>
  <2>1. FlattenSeq(<<s>>) = s
    BY FlattenOne
  <2>2. \A t \in Tile : CountIn(s, t) = 0
    BY <1>6, <1>7, <2>1
  <2>3. \A t \in Tile : CountIn(s, t) > 0 <=> \E i \in 1..Len(s) : s[i] = t
    BY CountedIsIn
  <2>4. ASSUME NEW i \in 1..Len(s) PROVE FALSE
    <3>1. s[i] \in Tile
      BY ElementOfSeq
    <3>2. CountIn(s, s[i]) > 0
      BY <2>3, <3>1
    <3> QED BY <2>2, <3>1, <3>2
  <2>5. Len(s) \in Nat
    BY LenProperties
  <2>6. Len(s) = 0
    BY <2>4, <2>5
  <2> QED BY <2>6, FewElements
<1>8. Pending = {}
  BY <1>6 DEF Pending
<1>9. \A i \in DOMAIN lists : lists[i] = <<>>
  <2>1. ASSUME NEW s \in Seq(Tile), lists = <<s>> PROVE \A i \in DOMAIN lists : lists[i] = <<>>
    BY <1>7, <2>1
  <2> QED BY <2>1, ListsAreFew
<1> QED BY <1>8, <1>9

-----------------------------------------------------------------------------
(* The steps keep the invariant *)

\* The set becomes complete when the download ends, with nothing more to fetch, or when
\* the last tile is saved.
LEMMA CompletesLast ==
    ASSUME (Types /\ InPlace /\ OneList /\ SavedIsRecorded)', Held,
           savedCount \in Nat, savedCount' \in Nat, totalCount \in Nat, NumTiles \in Nat,
           savedCount <= savedCount', Pending' = Pending,
           \A i \in DOMAIN lists' : i \in DOMAIN lists /\ lists'[i] = lists[i],
           totalCount' = totalCount
             \/ (totalCount' = savedCount' /\ Pending = {} /\ \A i \in DOMAIN lists' : lists[i] = <<>>)
    PROVE  TotalIsAll' /\ CompleteIsLast'
<1>1. Complete => Complete'
  BY DEF Complete
<1>2. totalCount = NumTiles \/ Complete
  BY DEF Held, TotalIsAll
<1>3. Complete => Pending = {} /\ \A i \in DOMAIN lists : lists[i] = <<>>
  BY DEF Held, CompleteIsLast
<1>4. totalCount' = savedCount' => Complete'
  BY DEF Complete
<1>5. TotalIsAll'
  BY <1>1, <1>2, <1>4 DEF TotalIsAll
<1>6. (NumTiles <= savedCount => Pending = {} /\ \A i \in DOMAIN lists : lists[i] = <<>>)'
  <2>1. (Types /\ InPlace /\ OneList /\ SavedIsRecorded /\ NumTiles <= savedCount
          => Pending = {} /\ \A i \in DOMAIN lists : lists[i] = <<>>)'
    BY AllSaved, PTL
  <2> QED BY <2>1
<1>7. CASE Complete
  BY <1>3, <1>5, <1>7 DEF CompleteIsLast
<1>8. CASE totalCount' = savedCount' /\ Pending = {} /\ \A i \in DOMAIN lists' : lists[i] = <<>>
  BY <1>5, <1>8 DEF CompleteIsLast
<1>9. CASE ~Complete /\ totalCount' = totalCount
  <2>1. totalCount' = NumTiles
    BY <1>2, <1>9
  <2>2. Complete' => NumTiles <= savedCount'
    BY <2>1 DEF Complete
  <2> QED BY <1>5, <1>6, <2>2 DEF CompleteIsLast
<1> QED BY <1>5, <1>7, <1>8, <1>9

\* An answer moves its tile from the network to the queue.
LEMMA AnswerTypes ==
    ASSUME Types, NEW t \in Tile, inFlight[t] > 0, NEW task \in Task, NEW errors \in Nat,
           PrepareDownload(Accept(queue, task), errors, savedCount', todo, Without(t), Land(t),
                           batchRequested, noMoreTiles),
           savedCount' \in Nat, UNCHANGED <<row, lists, history>>
    PROVE  /\ Types'
           /\ Accept(queue, task) \in Seq(Task)
           /\ Led(Accept(queue, task), savedCount', batchRequested, noMoreTiles)
           /\ \A u \in Tile : CountIn(todo', u) + inFlight'[u] = CountIn(todo, u) + Land(t)[u]
<1>1. /\ row' = row /\ dropped' = dropped /\ lists' = lists
      /\ overtaken' = overtaken /\ resumes' = resumes
  BY DEF history
<1>2. /\ queue \in Seq(Task) /\ todo \in Seq(Tile) /\ inFlight \in [Tile -> Nat]
      /\ replies \subseteq {u \in Tile : inFlight[u] > 0}
      /\ batchRequested \in BOOLEAN /\ noMoreTiles \in BOOLEAN
  BY DEF Types
<1>3. Accept(queue, task) \in Seq(Task)
  BY <1>2, Accepted
<1>4. Land(t) \in [Tile -> Nat]
  BY <1>2 DEF Land
<1>5. Without(t) \in SUBSET {u \in Tile : Land(t)[u] > 0}
  BY <1>2 DEF Without, Land
<1>6. Led(Accept(queue, task), savedCount', batchRequested, noMoreTiles)
  BY <1>2, <1>3, PrepareLeads
<1>7. /\ todo' \in Seq(Tile) /\ inFlight' \in [Tile -> Nat]
      /\ replies' \subseteq {u \in Tile : inFlight'[u] > 0}
      /\ \A u \in Tile : CountIn(todo', u) + inFlight'[u] = CountIn(todo, u) + Land(t)[u]
  BY <1>2, <1>4, <1>5, PrepareMoves
<1>8. Types'
  BY <1>1, <1>6, <1>7 DEF Types, Led
<1> QED BY <1>3, <1>6, <1>7, <1>8

\* A tile that was in flight is in the queue now, counted as saved if it was stored; the
\* download goes on, ends or asks for a list.
LEMMA AnswerKeeps ==
    ASSUME Types, Held, valid, NEW t \in Tile, inFlight[t] > 0, NEW errors \in Nat,
           NEW task \in {Record(t), Error(t)},
           PrepareDownload(Accept(queue, task), errors, savedCount', todo, Without(t), Land(t),
                           batchRequested, noMoreTiles),
           savedCount' = savedCount + (IF task = Record(t) THEN 1 ELSE 0),
           UNCHANGED <<row, lists, history>>
    PROVE  Held'
<1> DEFINE given == Accept(queue, task)
<1>1. /\ row' = row /\ dropped' = dropped /\ lists' = lists
  BY DEF history
<1>2. /\ queue \in Seq(Task) /\ inFlight \in [Tile -> Nat] /\ task \in Task
      /\ savedCount \in Nat /\ savedCount' \in Nat /\ totalCount \in Nat
      /\ batchRequested \in BOOLEAN /\ noMoreTiles \in BOOLEAN
  BY DEF Types, Task
<1>3. /\ Types' /\ given \in Seq(Task)
      /\ Led(given, savedCount', batchRequested, noMoreTiles)
      /\ \A u \in Tile : CountIn(todo', u) + inFlight'[u] = CountIn(todo, u) + Land(t)[u]
  BY <1>2, AnswerTypes
<1>4. \A x : CountIn(given, x) = CountIn(queue, x) + IF x = task THEN 1 ELSE 0
  <2>1. Accept(queue, task) = Append(queue, task)
    BY <1>2, Accepted
  <2> QED BY <1>2, <2>1, CountAppend
<1> HIDE DEF given
<1>5. /\ \A x : x # List => CountIn(queue', x) = CountIn(given, x)
      /\ CountIn(queue', List) + (IF batchRequested THEN 1 ELSE 0)
           = CountIn(given, List) + (IF batchRequested' THEN 1 ELSE 0)
  BY <1>2, <1>3, LedCounts
<1>6. \A x : x # List => CountIn(queue', x) = CountIn(queue, x) + IF x = task THEN 1 ELSE 0
  BY <1>4, <1>5
<1>7. OneList /\ Len(lists) \in Nat /\ CountIn(queue, List) \in Nat
  BY ListsAreFew DEF Held
<1>8. OneList'
  <2>1. task # List
    BY TasksDiffer
  <2>2. CountIn(given, List) = CountIn(queue, List)
    BY <1>4, <1>7, <2>1
  <2>3. CountIn(queue', List) \in Nat
    BY <1>3, AtFinite DEF Led
  <2>4. batchRequested' \in BOOLEAN
    BY <1>3 DEF Led
  <2> QED BY <1>1, <1>2, <1>5, <1>7, <2>2, <2>3, <2>4 DEF OneList
<1>9. ASSUME NEW u \in Tile
      PROVE  /\ Places(u)' = Places(u)
             /\ CountIn(queue', Record(u))
                  = CountIn(queue, Record(u)) + IF Record(u) = task THEN 1 ELSE 0
  <2>1. /\ CountIn(FlattenSeq(lists), u) \in Nat /\ CountIn(todo, u) \in Nat
        /\ inFlight[u] \in Nat
        /\ CountIn(queue, Record(u)) \in Nat /\ CountIn(queue, Error(u)) \in Nat
    BY <1>7, Parts
  <2>2. /\ CountIn(queue', Record(u)) = CountIn(queue, Record(u)) + IF Record(u) = task THEN 1 ELSE 0
        /\ CountIn(queue', Error(u)) = CountIn(queue, Error(u)) + IF Error(u) = task THEN 1 ELSE 0
    BY <1>6, TasksDiffer
  <2>3. CountIn(todo', u) \in Nat /\ inFlight'[u] \in Nat
    BY <1>3, AtFinite DEF Types
  <2>4. CountIn(todo', u) + inFlight'[u] = CountIn(todo, u) + Land(t)[u]
    BY <1>3
  <2>5. CASE u = t
    <3>1. Land(t)[u] = inFlight[u] - 1
      BY <1>2, <2>5 DEF Land
    <3>2. (Record(u) = task /\ Error(u) # task) \/ (Record(u) # task /\ Error(u) = task)
      BY <2>5, TasksDiffer
    <3> QED BY <1>1, <2>1, <2>2, <2>3, <2>4, <3>1, <3>2 DEF Places
  <2>6. CASE u # t
    <3>1. Land(t)[u] = inFlight[u]
      BY <1>2, <2>6 DEF Land
    <3>2. Record(u) # task /\ Error(u) # task
      BY <2>6, TasksDiffer
    <3> QED BY <1>1, <2>1, <2>2, <2>3, <2>4, <3>1, <3>2 DEF Places
  <2> QED BY <2>5, <2>6
<1>10. InPlace'
  BY <1>1, <1>9 DEF Held, InPlace
<1>11. RetryAlone'
  <2>1. CountIn(queue', Retry) = CountIn(queue, Retry)
    <3>1. Retry # List /\ Retry # task
      BY TasksDiffer
    <3>2. CountIn(queue, Retry) \in Nat
      BY <1>2, AtFinite
    <3> QED BY <1>6, <3>1, <3>2
  <2>2. ~ (inFlight[t] = 0)
    OBVIOUS
  <2>3. ~ (CountIn(queue, Retry) > 0)
    BY <2>2 DEF Held, RetryAlone
  <2> QED BY <2>1, <2>3 DEF RetryAlone
<1>12. Pending' = Pending
  BY <1>1 DEF Pending
<1>13. ShortIsLast'
  <2>1. noMoreTiles' => noMoreTiles /\ batchRequested' = batchRequested
    BY <1>3 DEF Led
  <2> QED BY <1>1, <1>12, <2>1 DEF Held, ShortIsLast, IsShort
<1>14. SavedIsRecorded'
  <2>1. CASE task = Record(t)
    <3>1. t \notin Saved
      <4>1. Places(t) = IF row[t] = "downloading" /\ t \notin dropped THEN 1 ELSE 0
        BY DEF Held, InPlace
      <4>2. /\ CountIn(FlattenSeq(lists), t) \in Nat /\ CountIn(todo, t) \in Nat
            /\ inFlight[t] \in Nat
            /\ CountIn(queue, Record(t)) \in Nat /\ CountIn(queue, Error(t)) \in Nat
        BY <1>7, Parts
      <4>3. row[t] = "downloading" /\ CountIn(queue, Record(t)) = 0
        BY <4>1, <4>2 DEF Places
      <4> QED BY <4>3 DEF Saved
    <3>2. \A u \in Tile : CountIn(queue', Record(u)) > 0
                             <=> u = t \/ CountIn(queue, Record(u)) > 0
      <4>1. \A u \in Tile : CountIn(queue, Record(u)) \in Nat
        BY <1>2, AtFinite
      <4> QED BY <1>9, <2>1, <4>1, TasksDiffer
    <3>3. Saved' = Saved \cup {t}
      BY <1>1, <3>2 DEF Saved
    <3>4. IsFiniteSet(Saved)
      BY TilesAreNumbers, FS_Subset DEF Saved
    <3>5. Cardinality(Saved') = Cardinality(Saved) + 1
      BY <3>1, <3>3, <3>4, FS_AddElement
    <3> QED BY <2>1, <3>5 DEF Held, SavedIsRecorded
  <2>2. CASE task = Error(t)
    <3>1. \A u \in Tile : CountIn(queue', Record(u)) = CountIn(queue, Record(u))
      <4>1. \A u \in Tile : CountIn(queue, Record(u)) \in Nat
        BY <1>2, AtFinite
      <4> QED BY <1>9, <2>2, <4>1, TasksDiffer
    <3>2. Saved' = Saved
      BY <1>1, <3>1 DEF Saved
    <3>3. savedCount' = savedCount
      BY <1>2, <2>2, TasksDiffer
    <3> QED BY <3>2, <3>3 DEF Held, SavedIsRecorded
  <2> QED BY <2>1, <2>2
<1>15. TotalIsAll' /\ CompleteIsLast'
  <2>1. totalCount' = totalCount \/ (totalCount' = savedCount' /\ noMoreTiles)
    BY <1>3 DEF Led
  <2>2. noMoreTiles => Pending = {} /\ Len(lists) = 0
    BY <1>7 DEF Held, ShortIsLast, OneList
  <2>3. Len(lists) = 0 => DOMAIN lists = {}
    BY LenProperties DEF Types
  <2>4. savedCount <= savedCount' /\ NumTiles \in Nat
    BY <1>2, DownloadAssumption
  <2>5. totalCount' = totalCount
          \/ (totalCount' = savedCount' /\ Pending = {} /\ \A i \in DOMAIN lists' : lists[i] = <<>>)
    BY <1>1, <2>1, <2>2, <2>3
  <2>6. (Types /\ InPlace /\ OneList /\ SavedIsRecorded)'
    BY <1>3, <1>8, <1>10, <1>14
  <2> QED BY <1>1, <1>2, <1>12, <2>4, <2>5, <2>6, CompletesLast
<1>16. DroppedAreTaken'
  BY <1>1 DEF Held, DroppedAreTaken
<1> QED BY <1>8, <1>10, <1>11, <1>13, <1>14, <1>15, <1>16 DEF Held

\* A list moves its tiles to the tiles to download.
LEMMA ListMoves ==
    ASSUME Types, TileListFetched
    PROVE  /\ Types' /\ Head(lists) \in Seq(Tile)
           /\ Led(queue, savedCount, FALSE, noMoreTiles \/ IsShort(Head(lists)))
           /\ \A u \in Tile : CountIn(todo', u) + inFlight'[u]
                                = CountIn(todo, u) + CountIn(Head(lists), u) + inFlight[u]
<1> DEFINE tiles == Head(lists)
           noMore == noMoreTiles \/ IsShort(tiles)
<1>1. /\ queue \in Seq(Task) /\ todo \in Seq(Tile) /\ inFlight \in [Tile -> Nat]
      /\ replies \in SUBSET {u \in Tile : inFlight[u] > 0} /\ lists \in Seq(Seq(Tile))
      /\ batchRequested \in BOOLEAN /\ noMoreTiles \in BOOLEAN
      /\ errorCount \in Nat /\ savedCount \in Nat
  BY DEF Types
<1>2. /\ row' = row /\ dropped' = dropped /\ savedCount' = savedCount
      /\ overtaken' = overtaken /\ resumes' = resumes /\ lists # <<>> /\ lists' = Tail(lists)
  BY DEF TileListFetched, history
<1>3. tiles \in Seq(Tile) /\ lists' \in Seq(Seq(Tile))
  BY <1>1, <1>2, HeadTailProperties
<1>4. noMore \in BOOLEAN /\ (noMoreTiles => noMore)
  BY <1>1 DEF IsShort
<1>5. CASE tiles = <<>>
  <2>1. /\ DoneWithDownload(queue, errorCount, savedCount, FALSE, noMore)
        /\ inFlight' = inFlight /\ todo' = todo /\ replies' = replies
    BY <1>5 DEF TileListFetched, BatchAnswered, net
  <2>2. noMore
    <3>1. Len(tiles) = 0 /\ Batch \in Nat \ {0}
      BY <1>5, DownloadAssumption
    <3> QED BY <3>1 DEF IsShort
  <2> HIDE DEF noMore
  <2>3. Led(queue, savedCount, FALSE, noMore)
    BY <1>1, <1>4, <2>1, <2>2, DoneLeads
  <2>4. \A u \in Tile : CountIn(todo, u) \in Nat /\ CountIn(tiles, u) = 0 /\ inFlight[u] \in Nat
    BY <1>1, <1>5, AtFinite, CountEmpty
  <2>5. \A u \in Tile : CountIn(todo', u) + inFlight'[u]
                          = CountIn(todo, u) + CountIn(tiles, u) + inFlight[u]
    BY <2>1, <2>4
  <2>6. Types'
    BY <1>1, <1>2, <1>3, <2>1, <2>3 DEF Types, Led
  <2> QED BY <1>3, <2>3, <2>5, <2>6 DEF noMore
<1>6. CASE tiles # <<>>
  <2>1. PrepareDownload(queue, errorCount, savedCount, todo \o tiles, replies, inFlight, FALSE,
                        noMore)
    BY <1>6 DEF TileListFetched, BatchAnswered
  <2> HIDE DEF noMore
  <2>2. todo \o tiles \in Seq(Tile)
    BY <1>1, <1>3, ConcatProperties
  <2>3. Led(queue, savedCount, FALSE, noMore)
    BY <1>1, <1>4, <2>1, PrepareLeads
  <2>4. /\ todo' \in Seq(Tile) /\ inFlight' \in [Tile -> Nat]
        /\ replies' \subseteq {u \in Tile : inFlight'[u] > 0}
        /\ \A u \in Tile :
             CountIn(todo', u) + inFlight'[u] = CountIn(todo \o tiles, u) + inFlight[u]
    BY <1>1, <2>1, <2>2, PrepareMoves
  <2>5. \A u : CountIn(todo \o tiles, u) = CountIn(todo, u) + CountIn(tiles, u)
    BY <1>1, <1>3, CountConcat
  <2>6. \A u \in Tile : CountIn(todo', u) + inFlight'[u]
                          = CountIn(todo, u) + CountIn(tiles, u) + inFlight[u]
    BY <2>4, <2>5
  <2>7. Types'
    BY <1>1, <1>2, <1>3, <2>3, <2>4 DEF Types, Led
  <2> QED BY <1>3, <2>3, <2>6, <2>7 DEF noMore
<1> QED BY <1>5, <1>6

\* The tiles of the only list are to be downloaded now; a short one ends the asking.
LEMMA ListKeeps ==
    ASSUME Types, Held, valid, TileListFetched
    PROVE  Held'
<1> DEFINE tiles == Head(lists)
           noMore == noMoreTiles \/ IsShort(tiles)
<1>1. /\ Types' /\ tiles \in Seq(Tile) /\ Led(queue, savedCount, FALSE, noMore)
      /\ \A u \in Tile : CountIn(todo', u) + inFlight'[u]
                           = CountIn(todo, u) + CountIn(tiles, u) + inFlight[u]
  BY ListMoves
<1>2. /\ row' = row /\ dropped' = dropped /\ savedCount' = savedCount
      /\ lists # <<>> /\ lists' = Tail(lists)
  BY DEF TileListFetched, history
<1>3. /\ queue \in Seq(Task) /\ savedCount \in Nat /\ totalCount \in Nat
      /\ noMoreTiles \in BOOLEAN /\ batchRequested \in BOOLEAN
  BY DEF Types
<1>4. OneList /\ Len(lists) \in Nat /\ CountIn(queue, List) \in Nat
  BY ListsAreFew DEF Held
<1>5. PICK s \in Seq(Tile) : lists = <<s>>
  BY <1>2, <1>4, ListsAreFew
<1>6. tiles = s /\ lists' = <<>> /\ lists[1] = s /\ 1 \in DOMAIN lists /\ Len(lists) = 1
  BY <1>2, <1>5
<1>7. CountIn(queue, List) = 0 /\ batchRequested
  BY <1>3, <1>4, <1>6 DEF OneList
<1>8. /\ \A x : x # List => CountIn(queue', x) = CountIn(queue, x)
      /\ CountIn(queue', List) = IF batchRequested' THEN 1 ELSE 0
  <2>1. /\ \A x : x # List => CountIn(queue', x) = CountIn(queue, x)
        /\ CountIn(queue', List) + (IF FALSE THEN 1 ELSE 0)
             = CountIn(queue, List) + (IF batchRequested' THEN 1 ELSE 0)
    <3> HIDE DEF noMore
    <3> QED BY <1>1, <1>3, LedCounts
  <2>2. CountIn(queue', List) \in Nat
    BY <1>1, AtFinite DEF Types
  <2> QED BY <1>7, <2>1, <2>2
<1>9. OneList'
  <2>1. Len(lists') = 0
    BY <1>6
  <2>2. CountIn(queue', List) \in Nat
    BY <1>1, AtFinite DEF Types
  <2> QED BY <1>8, <2>1, <2>2 DEF OneList
<1>10. ASSUME NEW u \in Tile
       PROVE  Places(u)' = Places(u) /\ CountIn(queue', Record(u)) = CountIn(queue, Record(u))
  <2>1. /\ CountIn(FlattenSeq(lists), u) \in Nat /\ CountIn(todo, u) \in Nat
        /\ inFlight[u] \in Nat
        /\ CountIn(queue, Record(u)) \in Nat /\ CountIn(queue, Error(u)) \in Nat
    BY <1>4, Parts
  <2>2. /\ CountIn(queue', Record(u)) = CountIn(queue, Record(u))
        /\ CountIn(queue', Error(u)) = CountIn(queue, Error(u))
    BY <1>8, TasksDiffer
  <2>3. CountIn(todo', u) \in Nat /\ inFlight'[u] \in Nat
    BY <1>1, AtFinite DEF Types
  <2>4. FlattenSeq(lists) = tiles
    <3>1. FlattenSeq(<<s>>) = s
      BY FlattenOne
    <3> QED BY <1>5, <1>6, <3>1
  <2>5. CountIn(FlattenSeq(lists'), u) = 0
    BY <1>6, FlattenNone, CountEmpty
  <2>6. CountIn(todo', u) + inFlight'[u] = CountIn(todo, u) + CountIn(tiles, u) + inFlight[u]
    BY <1>1
  <2> HIDE DEF tiles
  <2> QED BY <2>1, <2>2, <2>3, <2>4, <2>5, <2>6 DEF Places
<1>11. InPlace'
  BY <1>2, <1>10 DEF Held, InPlace
<1>12. RetryAlone'
  <2>1. CountIn(queue', Retry) = CountIn(queue, Retry)
    BY <1>8, TasksDiffer
  <2>2. ~ (CountIn(queue, Retry) > 0)
    BY <1>2 DEF Held, RetryAlone
  <2> QED BY <2>1, <2>2 DEF RetryAlone
<1>13. Pending' = Pending
  BY <1>2 DEF Pending
<1>14. noMore => Pending = {}
  BY <1>6 DEF Held, ShortIsLast
<1>15. ShortIsLast'
  <2>1. noMoreTiles' => noMore /\ ~batchRequested'
    BY <1>1 DEF Led
  <2>2. DOMAIN lists' = {}
    BY <1>6
  <2> QED BY <1>13, <1>14, <2>1, <2>2 DEF ShortIsLast
<1>16. SavedIsRecorded'
  <2>1. Saved' = Saved
    BY <1>2, <1>10 DEF Saved
  <2> QED BY <1>2, <2>1 DEF Held, SavedIsRecorded
<1>17. TotalIsAll' /\ CompleteIsLast'
  <2>1. totalCount' = totalCount \/ (totalCount' = savedCount' /\ noMore)
    BY <1>1, <1>2 DEF Led
  <2>2. DOMAIN lists' = {}
    BY <1>6
  <2>3. savedCount <= savedCount' /\ savedCount' \in Nat /\ NumTiles \in Nat
    BY <1>2, <1>3, DownloadAssumption
  <2>4. totalCount' = totalCount
          \/ (totalCount' = savedCount' /\ Pending = {} /\ \A i \in DOMAIN lists' : lists[i] = <<>>)
    BY <1>14, <2>1, <2>2
  <2>5. (Types /\ InPlace /\ OneList /\ SavedIsRecorded)'
    BY <1>1, <1>9, <1>11, <1>16
  <2>6. \A i \in DOMAIN lists' : i \in DOMAIN lists /\ lists'[i] = lists[i]
    BY <2>2
  <2> QED BY <1>3, <1>13, <2>3, <2>4, <2>5, <2>6, CompletesLast
<1>18. DroppedAreTaken'
  BY <1>2 DEF Held, DroppedAreTaken
<1> QED BY <1>9, <1>11, <1>12, <1>15, <1>16, <1>17, <1>18 DEF Held

\* An answer that is thrown away takes its tile out of the network; nothing else changes.
LEMMA DropTypes ==
    ASSUME Types, NEW t \in Tile, ReplyDropped(t)
    PROVE  /\ Types' /\ inFlight' = Land(t) /\ replies' = Without(t)
           /\ dropped' = dropped \cup {t} /\ inFlight[t] > 0
           /\ row' = row /\ queue' = queue /\ lists' = lists /\ todo' = todo
           /\ downloading' = downloading /\ noMoreTiles' = noMoreTiles
           /\ batchRequested' = batchRequested
           /\ savedCount' = savedCount /\ totalCount' = totalCount /\ overtaken' = overtaken
           /\ Land(t)[t] = inFlight[t] - 1
           /\ \A u \in Tile : u # t => Land(t)[u] = inFlight[u]
<1>1. /\ inFlight \in [Tile -> Nat] /\ replies \subseteq {u \in Tile : inFlight[u] > 0}
      /\ dropped \subseteq Tile
  BY DEF Types
<1>2. /\ inFlight' = Land(t) /\ replies' = Without(t) /\ dropped' = dropped \cup {t}
      /\ inFlight[t] > 0
      /\ row' = row /\ queue' = queue /\ lists' = lists /\ todo' = todo
      /\ downloading' = downloading /\ cancelPending' = cancelPending
      /\ noMoreTiles' = noMoreTiles /\ batchRequested' = batchRequested
      /\ errorCount' = errorCount /\ savedCount' = savedCount /\ totalCount' = totalCount
      /\ resumes' = resumes /\ overtaken' = overtaken
  BY DEF ReplyDropped, flags, counts
<1>3. /\ Land(t) \in [Tile -> Nat] /\ Land(t)[t] = inFlight[t] - 1
      /\ \A u \in Tile : u # t => Land(t)[u] = inFlight[u]
  BY <1>1, <1>2 DEF Land
<1>4. Without(t) \subseteq {u \in Tile : Land(t)[u] > 0}
  BY <1>1, <1>3 DEF Without
<1>5. Types'
  BY <1>1, <1>2, <1>3, <1>4 DEF Types
<1> QED BY <1>2, <1>3, <1>5

\* A tile whose answer is thrown away is in no place and is remembered as such.
LEMMA DropKeeps ==
    ASSUME Types, Held, NEW t \in Tile, ReplyDropped(t)
    PROVE  Held'
<1>1. /\ Types' /\ inFlight' = Land(t) /\ dropped' = dropped \cup {t} /\ inFlight[t] > 0
      /\ row' = row /\ queue' = queue /\ lists' = lists /\ todo' = todo
      /\ downloading' = downloading /\ noMoreTiles' = noMoreTiles
      /\ batchRequested' = batchRequested
      /\ savedCount' = savedCount /\ totalCount' = totalCount
      /\ Land(t)[t] = inFlight[t] - 1
      /\ \A u \in Tile : u # t => Land(t)[u] = inFlight[u]
  BY DropTypes
<1>2. OneList /\ OneList'
  BY <1>1 DEF Held, OneList
<1>3. ASSUME NEW u \in Tile
      PROVE  Places(u)' = IF u = t THEN Places(u) - 1 ELSE Places(u)
  <2>1. /\ CountIn(FlattenSeq(lists), u) \in Nat /\ CountIn(todo, u) \in Nat
        /\ inFlight[u] \in Nat
        /\ CountIn(queue, Record(u)) \in Nat /\ CountIn(queue, Error(u)) \in Nat
    BY <1>2, Parts
  <2>2. inFlight'[u] = IF u = t THEN inFlight[u] - 1 ELSE inFlight[u]
    BY <1>1
  <2>3. CASE u = t
    BY <1>1, <2>1, <2>2, <2>3 DEF Places
  <2>4. CASE u # t
    BY <1>1, <2>1, <2>2, <2>4 DEF Places
  <2> QED BY <2>3, <2>4
<1>4. row[t] = "downloading" /\ t \notin dropped /\ Places(t) = 1
  <2>1. /\ CountIn(FlattenSeq(lists), t) \in Nat /\ CountIn(todo, t) \in Nat
        /\ inFlight[t] \in Nat
        /\ CountIn(queue, Record(t)) \in Nat /\ CountIn(queue, Error(t)) \in Nat
    BY <1>2, Parts
  <2>2. Places(t) > 0
    BY <1>1, <2>1 DEF Places
  <2> QED BY <2>2, InPlaceOnce
<1>5. InPlace'
  <2>1. ASSUME NEW u \in Tile
        PROVE  Places(u)' = IF row[u] = "downloading" /\ u \notin dropped \cup {t} THEN 1 ELSE 0
    <3>1. Places(u) = IF row[u] = "downloading" /\ u \notin dropped THEN 1 ELSE 0
      BY DEF Held, InPlace
    <3> QED BY <1>3, <1>4, <3>1
  <2> QED BY <1>1, <2>1 DEF InPlace
<1>6. RetryAlone'
  <2>1. ~ (inFlight[t] = 0)
    BY <1>1
  <2>2. ~ (CountIn(queue, Retry) > 0)
    BY <2>1 DEF Held, RetryAlone
  <2> QED BY <1>1, <2>2 DEF RetryAlone
<1>7. ShortIsLast'
  BY <1>1 DEF Held, ShortIsLast, Pending, IsShort
<1>8. SavedIsRecorded'
  BY <1>1 DEF Held, SavedIsRecorded, Saved
<1>9. TotalIsAll' /\ CompleteIsLast'
  BY <1>1 DEF Held, TotalIsAll, CompleteIsLast, Complete, Pending
<1>10. DroppedAreTaken'
  BY <1>1, <1>4 DEF Held, DroppedAreTaken
<1> QED BY <1>2, <1>5, <1>6, <1>7, <1>8, <1>9, <1>10 DEF Held

\* The flag that a download is to be cancelled is all a cancel changes.
LEMMA CancelKeeps ==
    ASSUME Types, CancelDownloadTask
    PROVE  Types' /\ (Held => Held')
<1>1. /\ cancelPending' = TRUE /\ inFlight' = inFlight /\ replies' = replies
      /\ row' = row /\ queue' = queue /\ lists' = lists /\ todo' = todo
      /\ downloading' = downloading /\ dropped' = dropped
      /\ noMoreTiles' = noMoreTiles /\ batchRequested' = batchRequested
      /\ errorCount' = errorCount /\ savedCount' = savedCount /\ totalCount' = totalCount
      /\ resumes' = resumes /\ overtaken' = overtaken
  BY DEF CancelDownloadTask, net, counts, history
<1>2. Types'
  BY <1>1 DEF Types
<1>3. Held => Held'
  BY <1>1 DEF Held, InPlace, Places, OneList, RetryAlone, ShortIsLast, SavedIsRecorded, Saved,
              TotalIsAll, CompleteIsLast, Complete, Pending, DroppedAreTaken, IsShort
<1> QED BY <1>1, <1>2, <1>3

\* A resume that finds nothing of the set under way puts its two tasks into the queue.
LEMMA ResumeTypes ==
    ASSUME Types, ResumeDownloadTask
    PROVE  /\ Types' /\ downloading' = TRUE /\ batchRequested' = TRUE /\ ~noMoreTiles'
           /\ valid => queue' = Append(Append(queue, Retry), List)
           /\ row' = row /\ lists' = lists /\ inFlight' = inFlight
           /\ todo' = todo /\ savedCount' = savedCount /\ totalCount' = totalCount
           /\ dropped' = dropped /\ ~Complete /\ ~downloading
           /\ overtaken' = (overtaken \/ ~(Still /\ todo = <<>>))
<1>1. /\ ~downloading /\ ~Complete /\ resumes < MaxResumes /\ resumes' = resumes + 1
      /\ overtaken' = (overtaken \/ ~(Still /\ todo = <<>>))
      /\ CreateDownloadTask(FALSE, Accept(queue, Retry), errorCount, batchRequested)
      /\ row' = row /\ lists' = lists /\ inFlight' = inFlight
      /\ todo' = todo /\ replies' = replies
      /\ savedCount' = savedCount /\ totalCount' = totalCount /\ dropped' = dropped
  BY DEF ResumeDownloadTask, net
<1>2. /\ cancelPending' = FALSE /\ downloading' = TRUE /\ batchRequested' = TRUE
      /\ queue' = Accept(Accept(queue, Retry), List)
      /\ errorCount' = (IF downloading THEN errorCount ELSE 0)
      /\ noMoreTiles' = (downloading /\ noMoreTiles)
  BY <1>1 DEF CreateDownloadTask
<1>3. Retry \in Task /\ List \in Task /\ queue \in Seq(Task)
  BY DEF Task, Types
<1>4. /\ Accept(Accept(queue, Retry), List) \in Seq(Task)
      /\ valid => Accept(Accept(queue, Retry), List) = Append(Append(queue, Retry), List)
  <2>1. /\ Accept(queue, Retry) \in Seq(Task)
        /\ valid => Accept(queue, Retry) = Append(queue, Retry)
    BY <1>3, Accepted
  <2> HIDE DEF Accept
  <2> QED BY <1>3, <2>1, Accepted
<1>5. errorCount' = 0 /\ noMoreTiles' = FALSE
  BY <1>1, <1>2
<1>6. resumes' \in 0..MaxResumes /\ overtaken' \in BOOLEAN
  BY <1>1, DownloadAssumption DEF Types
<1>7. /\ replies' \subseteq {t \in Tile : inFlight'[t] > 0}
      /\ inFlight' \in [Tile -> Nat] /\ todo' \in Seq(Tile) /\ lists' \in Seq(Seq(Tile))
      /\ queue' \in Seq(Task) /\ cancelPending' \in BOOLEAN /\ downloading' \in BOOLEAN
      /\ batchRequested' \in BOOLEAN /\ noMoreTiles' \in BOOLEAN /\ errorCount' \in Nat
  <2>1. replies' \subseteq {t \in Tile : inFlight'[t] > 0}
    BY <1>1 DEF Types
  <2>2. inFlight' \in [Tile -> Nat] /\ todo' \in Seq(Tile) /\ lists' \in Seq(Seq(Tile))
    BY <1>1 DEF Types
  <2>3. queue' \in Seq(Task)
    BY <1>2, <1>4, Zenon
  <2>4. /\ cancelPending' \in BOOLEAN /\ downloading' \in BOOLEAN
        /\ batchRequested' \in BOOLEAN
    BY <1>2, Zenon
  <2>5. noMoreTiles' \in BOOLEAN /\ errorCount' \in Nat
    BY <1>5
  <2> QED BY <2>1, <2>2, <2>3, <2>4, <2>5
<1>8. /\ row' \in [Tile -> {"pending", "downloading", "error", "none"}]
      /\ dropped' \subseteq Tile
      /\ savedCount' \in Nat /\ totalCount' \in Nat
  BY <1>1 DEF Types
<1>9. Types'
  BY ONLY <1>6, <1>7, <1>8 DEF Types
<1> QED BY <1>1, <1>2, <1>4, <1>5, <1>9

\* After a resume that finds nothing under way the update of the rows and the task for a
\* list are all there is.
LEMMA ResumeKeeps ==
    ASSUME Types, Held, valid, Still, todo = <<>>, ResumeDownloadTask
    PROVE  Held'
<1>1. /\ Types' /\ downloading' = TRUE /\ batchRequested' = TRUE /\ ~noMoreTiles'
      /\ queue' = Append(Append(queue, Retry), List)
      /\ row' = row /\ lists' = lists /\ inFlight' = inFlight
      /\ todo' = todo /\ savedCount' = savedCount /\ totalCount' = totalCount
      /\ dropped' = dropped /\ ~Complete
  BY ResumeTypes
<1>2. queue = <<>> /\ lists = <<>> /\ \A t \in Tile : inFlight[t] = 0
  BY DEF Still
<1>3. queue' = <<Retry, List>>
  BY <1>1, <1>2, TwoElements, Zenon
<1>4. \A x : CountIn(queue', x) = (IF x = Retry THEN 1 ELSE 0) + (IF x = List THEN 1 ELSE 0)
  <2>1. <<Retry>> \in Seq(Task) /\ List \in Task
    BY DEF Task
  <2>2. \A x : CountIn(Append(<<Retry>>, List), x) = CountIn(<<Retry>>, x) + IF x = List THEN 1 ELSE 0
    BY <2>1, CountAppend
  <2>3. \A x : CountIn(<<Retry>>, x) = IF x = Retry THEN 1 ELSE 0
    BY CountOne
  <2>4. queue' = Append(<<Retry>>, List)
    BY <1>3, TwoElements, Zenon
  <2> QED BY <2>2, <2>3, <2>4
<1>5. \A x : CountIn(queue, x) = 0
  BY <1>2, CountEmpty
<1>6. \A u \in Tile : /\ CountIn(queue', Record(u)) = 0
                      /\ CountIn(queue', Error(u)) = 0
  BY <1>4, TasksDiffer
<1>7. InPlace'
  <2>1. ASSUME NEW u \in Tile PROVE Places(u)' = Places(u)
    BY <1>1, <1>5, <1>6 DEF Places
  <2> QED BY <1>1, <2>1 DEF Held, InPlace
<1>8. OneList'
  <2>1. CountIn(queue', List) = 1
    BY <1>4, TasksDiffer
  <2>2. Len(lists') = 0
    BY <1>1, <1>2
  <2> QED BY <1>1, <2>1, <2>2 DEF OneList
<1>9. RetryAlone'
  BY <1>1, <1>2, <1>3 DEF RetryAlone, Complete
<1>10. ShortIsLast'
  <2>1. DOMAIN lists' = {}
    BY <1>1, <1>2
  <2> QED BY <1>1, <2>1 DEF ShortIsLast
<1>11. SavedIsRecorded'
  <2>1. Saved' = Saved
    BY <1>1, <1>5, <1>6 DEF Saved
  <2> QED BY <1>1, <2>1 DEF Held, SavedIsRecorded
<1>12. TotalIsAll' /\ CompleteIsLast'
  BY <1>1 DEF Held, TotalIsAll, CompleteIsLast, Complete
<1>13. DroppedAreTaken'
  BY <1>1 DEF Held, DroppedAreTaken
<1> QED BY <1>7, <1>8, <1>9, <1>10, <1>11, <1>12, <1>13 DEF Held

\* The worker takes the first task of the queue and leaves the object alone.
LEMMA Runs ==
    ASSUME Types, RunTask
    PROVE  /\ queue # <<>> /\ queue \in Seq(Task) /\ queue' \in Seq(Task)
           /\ \A x : CountIn(queue, x) = CountIn(queue', x) + IF x = Head(queue) THEN 1 ELSE 0
           /\ \A x : CountIn(queue, x) \in Nat /\ CountIn(queue', x) \in Nat
           /\ queue' = Tail(queue)
           /\ \/ /\ Head(queue) = List /\ row' = Marked
                 /\ \E tiles \in InOrder(Fetched) : lists' = Append(lists, tiles)
                 /\ dropped' = dropped
              \/ /\ Head(queue) = Retry /\ row' = SetRows(Tile, "pending")
                 /\ lists' = lists /\ dropped' = {}
              \/ \E t \in Tile :
                   /\ Head(queue) = Record(t) /\ row' = [row EXCEPT ![t] = "none"]
                   /\ lists' = lists /\ dropped' = dropped
              \/ \E t \in Tile :
                   /\ Head(queue) = Error(t) /\ row' = SetRows({t}, "error")
                   /\ lists' = lists /\ dropped' = dropped
              \/ ~valid /\ row' = row /\ lists' = lists /\ dropped' = dropped
<1> DEFINE k == Head(queue)
<1>1. queue \in Seq(Task) /\ queue # <<>> /\ queue' = Tail(queue)
  BY DEF RunTask, Types
<1>2. k \in Task /\ queue' \in Seq(Task)
  BY <1>1, HeadTailProperties
<1>3. \A x : CountIn(queue, x) = CountIn(queue', x) + IF x = k THEN 1 ELSE 0
  BY <1>1, CountTail
<1>4. \A x : CountIn(queue, x) \in Nat /\ CountIn(queue', x) \in Nat
  BY <1>1, <1>2, AtFinite
<1>5. CASE /\ k.type = "list" /\ row' = Marked /\ dropped' = dropped
           /\ \E tiles \in InOrder(Fetched) : lists' = Append(lists, tiles)
  <2>1. k = List
    BY <1>2, <1>5, TaskKinds, Zenon
  <2> QED BY <1>1, <1>2, <1>3, <1>4, <1>5, <2>1, Zenon
<1>6. CASE /\ k.type = "retry" /\ row' = SetRows(Tile, "pending") /\ dropped' = {}
           /\ lists' = lists
  <2>1. k = Retry
    BY <1>2, <1>6, TaskKinds, Zenon
  <2> QED BY <1>1, <1>2, <1>3, <1>4, <1>6, <2>1, Zenon
<1>7. CASE /\ k.type = "record" /\ row' = [row EXCEPT ![k.tile] = "none"]
           /\ lists' = lists /\ dropped' = dropped
  <2>1. k.tile \in Tile /\ k = Record(k.tile)
    BY <1>2, <1>7, TaskKinds, Zenon
  <2> QED BY <1>1, <1>2, <1>3, <1>4, <1>7, <2>1, Zenon
<1>8. CASE /\ k.type = "error" /\ row' = SetRows({k.tile}, "error")
           /\ lists' = lists /\ dropped' = dropped
  <2>1. k.tile \in Tile /\ k = Error(k.tile)
    BY <1>2, <1>8, TaskKinds, Zenon
  <2> QED BY <1>1, <1>2, <1>3, <1>4, <1>8, <2>1, Zenon
<1>9. CASE ~valid /\ row' = row /\ lists' = lists /\ dropped' = dropped
  BY <1>1, <1>2, <1>3, <1>4, <1>9, Zenon
<1>10. Execute(k) \/ (~valid /\ Fails(k))
  BY DEF RunTask
<1> QED BY <1>5, <1>6, <1>7, <1>8, <1>9, <1>10 DEF Execute, Fails

\* What a task leaves alone.
LEMMA RunLeaves ==
    ASSUME RunTask
    PROVE  /\ inFlight' = inFlight /\ todo' = todo /\ replies' = replies
           /\ downloading' = downloading /\ cancelPending' = cancelPending
           /\ noMoreTiles' = noMoreTiles /\ batchRequested' = batchRequested
           /\ errorCount' = errorCount /\ savedCount' = savedCount /\ totalCount' = totalCount
           /\ resumes' = resumes /\ overtaken' = overtaken /\ Complete' = Complete
BY DEF RunTask, net, flags, counts, Complete

\* The rows of a set of tiles change unless they are gone.
LEMMA RowsSet ==
    ASSUME Types, NEW ts \in SUBSET Tile, NEW st \in {"pending", "downloading", "error"}
    PROVE  /\ SetRows(ts, st) \in [Tile -> {"pending", "downloading", "error", "none"}]
           /\ \A u \in Tile : SetRows(ts, st)[u] = IF u \in ts /\ row[u] # "none" THEN st ELSE row[u]
<1>1. row \in [Tile -> {"pending", "downloading", "error", "none"}]
  BY DEF Types
<1> QED BY <1>1 DEF SetRows

\* The tasks keep the types.
LEMMA RunTypes ==
    ASSUME Types, RunTask
    PROVE  Types'
<1> DEFINE RowsOf == [Tile -> {"pending", "downloading", "error", "none"}]
<1>1. row \in RowsOf /\ dropped \subseteq Tile /\ lists \in Seq(Seq(Tile))
  BY DEF Types
<1>2. \A t \in Tile : [row EXCEPT ![t] = "none"] \in RowsOf /\ SetRows({t}, "error") \in RowsOf
  <2>1. \A t \in Tile : [row EXCEPT ![t] = "none"] \in RowsOf
    BY <1>1
  <2>2. \A t \in Tile : SetRows({t}, "error") \in RowsOf
    BY RowsSet
  <2> QED BY <2>1, <2>2
<1>3. SetRows(Tile, "pending") \in RowsOf
  BY RowsSet
<1>4. Marked \in RowsOf
  BY RowsSet, ShortHasAll DEF Marked
<1>5. \A tiles \in InOrder(Fetched) : Append(lists, tiles) \in Seq(Seq(Tile))
  <2>1. ASSUME NEW tiles \in InOrder(Fetched) PROVE Append(lists, tiles) \in Seq(Seq(Tile))
    <3>1. Fetched \in SUBSET Tile
      BY ShortHasAll
    <3>2. tiles \in Seq(Tile)
      BY <3>1, OrderedOnce
    <3> QED BY <1>1, <3>2, AppendProperties
  <2> QED BY <2>1
<1> HIDE DEF RowsOf
<1>6. row' \in RowsOf /\ dropped' \subseteq Tile /\ lists' \in Seq(Seq(Tile))
  <2>1. CASE /\ row' = Marked /\ dropped' = dropped
             /\ \E tiles \in InOrder(Fetched) : lists' = Append(lists, tiles)
    BY <1>1, <1>4, <1>5, <2>1
  <2>2. CASE row' = SetRows(Tile, "pending") /\ lists' = lists /\ dropped' = {}
    BY <1>1, <1>3, <2>2
  <2>3. ASSUME NEW t \in Tile, row' = [row EXCEPT ![t] = "none"] \/ row' = SetRows({t}, "error"),
               lists' = lists, dropped' = dropped
        PROVE  /\ row' \in RowsOf /\ dropped' \subseteq Tile
               /\ lists' \in Seq(Seq(Tile))
    BY <1>1, <1>2, <2>3
  <2>4. CASE row' = row /\ lists' = lists /\ dropped' = dropped
    BY <1>1, <2>4
  <2> QED BY <2>1, <2>2, <2>3, <2>4, Runs, Zenon
<1>7. queue' \in Seq(Task)
  BY Runs
<1> QED BY <1>6, <1>7, RunLeaves DEF Types, RowsOf

\* A list hands out the pending tiles it has, and it is the only one.
LEMMA RunListKeeps ==
    ASSUME Types, Held, RunTask, Head(queue) = List, row' = Marked, dropped' = dropped,
           NEW tiles \in InOrder(Fetched), lists' = Append(lists, tiles)
    PROVE  Held'
<1>1. /\ Types' /\ inFlight' = inFlight /\ todo' = todo
      /\ noMoreTiles' = noMoreTiles /\ batchRequested' = batchRequested
      /\ savedCount' = savedCount /\ totalCount' = totalCount /\ Complete' = Complete
  BY RunTypes, RunLeaves
<1>2. /\ \A x : CountIn(queue, x) = CountIn(queue', x) + IF x = List THEN 1 ELSE 0
      /\ \A x : CountIn(queue, x) \in Nat /\ CountIn(queue', x) \in Nat
  BY Runs
<1>3. \A x : x # List => CountIn(queue', x) = CountIn(queue, x)
  BY <1>2
<1>4. /\ Fetched \subseteq Pending /\ Pending \subseteq Tile /\ Cardinality(Fetched) \in Nat
      /\ Cardinality(Fetched) < Batch => Fetched = Pending
  BY ShortHasAll
<1>5. /\ tiles \in Seq(Tile) /\ Len(tiles) = Cardinality(Fetched)
      /\ \A t \in Tile : CountIn(tiles, t) = IF t \in Fetched THEN 1 ELSE 0
  BY <1>4, OrderedOnce
<1>6. OneList /\ Len(lists) \in Nat /\ (lists = <<>> \/ \E s \in Seq(Tile) : lists = <<s>>)
  BY ListsAreFew DEF Held
<1>7. CountIn(queue, List) = 1 /\ CountIn(queue', List) = 0 /\ Len(lists) = 0 /\ batchRequested
  <2>1. CountIn(queue, List) = CountIn(queue', List) + 1
    BY <1>2
  <2>2. batchRequested \in BOOLEAN
    BY DEF Types
  <2> QED BY <1>2, <1>6, <2>1, <2>2 DEF OneList
<1>8. lists = <<>>
  BY <1>6, <1>7
<1>9. lists' = <<tiles>>
  BY <1>8, TwoElements
<1>10. OneList'
  <2>1. Len(lists') = 1
    BY <1>9
  <2> QED BY <1>1, <1>7, <2>1 DEF OneList
<1>11. \A u \in Tile : row'[u] = IF u \in Fetched THEN "downloading" ELSE row[u]
  <2>1. \A u \in Tile : row'[u] = IF u \in Fetched /\ row[u] # "none" THEN "downloading" ELSE row[u]
    BY <1>4, RowsSet DEF Marked
  <2>2. \A u \in Fetched : row[u] = "pending"
    BY <1>4 DEF Pending
  <2> QED BY <2>1, <2>2
<1>12. ASSUME NEW u \in Tile
       PROVE  /\ Places(u)' = Places(u) + IF u \in Fetched THEN 1 ELSE 0
              /\ CountIn(queue', Record(u)) = CountIn(queue, Record(u))
              /\ Places(u) \in Nat
  <2>1. /\ CountIn(FlattenSeq(lists), u) \in Nat /\ CountIn(todo, u) \in Nat
        /\ inFlight[u] \in Nat
        /\ CountIn(queue, Record(u)) \in Nat /\ CountIn(queue, Error(u)) \in Nat
    BY <1>6, Parts
  <2>2. /\ CountIn(queue', Record(u)) = CountIn(queue, Record(u))
        /\ CountIn(queue', Error(u)) = CountIn(queue, Error(u))
    BY <1>3, TasksDiffer
  <2>3. CountIn(FlattenSeq(lists), u) = 0
    BY <1>8, FlattenNone, CountEmpty
  <2>4. FlattenSeq(lists') = tiles
    BY <1>9, FlattenOne
  <2>5. CountIn(FlattenSeq(lists'), u) = IF u \in Fetched THEN 1 ELSE 0
    BY <1>5, <2>4
  <2>6. Places(u) = CountIn(FlattenSeq(lists), u) + CountIn(todo, u) + inFlight[u]
                      + CountIn(queue, Record(u)) + CountIn(queue, Error(u))
    BY DEF Places
  <2>7. Places(u)' = CountIn(FlattenSeq(lists'), u) + CountIn(todo, u) + inFlight[u]
                       + CountIn(queue, Record(u)) + CountIn(queue, Error(u))
    BY <1>1, <2>2 DEF Places
  <2> QED BY ONLY <2>1, <2>2, <2>3, <2>5, <2>6, <2>7
<1>13. InPlace'
  <2>1. ASSUME NEW u \in Tile
        PROVE  Places(u)' = IF row'[u] = "downloading" /\ u \notin dropped THEN 1 ELSE 0
    <3>1. Places(u) = IF row[u] = "downloading" /\ u \notin dropped THEN 1 ELSE 0
      BY DEF Held, InPlace
    <3>2. CASE u \in Fetched
      <4>1. row[u] = "pending" /\ u \notin dropped
        BY <1>4, <3>2 DEF Pending, Held, DroppedAreTaken
      <4> QED BY <1>11, <1>12, <3>1, <3>2, <4>1
    <3>3. CASE u \notin Fetched
      <4>1. Places(u)' = Places(u)
        BY <1>12, <3>3
      <4> QED BY <1>11, <3>1, <3>3, <4>1
    <3> QED BY <3>2, <3>3
  <2> QED BY <2>1 DEF InPlace
<1>14. RetryAlone'
  <2>1. CountIn(queue', Retry) = CountIn(queue, Retry)
    BY <1>3, TasksDiffer
  <2>2. CountIn(queue, Retry) > 0 => queue = <<Retry, List>>
    BY DEF Held, RetryAlone
  <2>3. queue # <<Retry, List>>
    BY TasksDiffer
  <2> QED BY <2>1, <2>2, <2>3 DEF RetryAlone
<1>15. Pending' = Pending \ Fetched
  BY <1>11 DEF Pending
<1>16. ShortIsLast'
  <2>1. ~noMoreTiles'
    BY <1>1, <1>7 DEF Held, ShortIsLast
  <2>2. \A i \in DOMAIN lists' : lists'[i] = tiles
    BY <1>9
  <2>3. IsShort(tiles) => Fetched = Pending
    BY <1>4, <1>5 DEF IsShort
  <2>4. IsShort(tiles) => Pending' = {}
    BY <1>15, <2>3
  <2> QED BY <2>1, <2>2, <2>4 DEF ShortIsLast, IsShort
<1>17. SavedIsRecorded'
  <2>1. \A u \in Tile : row'[u] = "none" <=> row[u] = "none"
    BY <1>4, <1>11 DEF Pending
  <2>2. Saved' = Saved
    BY <1>12, <2>1 DEF Saved
  <2> QED BY <1>1, <2>2 DEF Held, SavedIsRecorded
<1>18. CompleteIsLast'
  <2>1. ASSUME Complete PROVE Pending' = {} /\ \A i \in DOMAIN lists' : lists'[i] = <<>>
    <3>1. Fetched = {} /\ Pending' = {}
      BY <1>4, <1>15, <2>1 DEF Held, CompleteIsLast
    <3>2. tiles = <<>>
      BY <1>5, <3>1, FS_EmptySet, FewElements
    <3> QED BY <1>9, <3>1, <3>2
  <2> QED BY <1>1, <2>1 DEF CompleteIsLast
<1>19. TotalIsAll'
  BY <1>1 DEF Held, TotalIsAll
<1>20. DroppedAreTaken'
  <2>1. dropped \subseteq Tile
    BY DEF Types
  <2> QED BY <1>11, <2>1 DEF Held, DroppedAreTaken
<1> QED BY <1>10, <1>13, <1>14, <1>16, <1>17, <1>18, <1>19, <1>20 DEF Held

\* The update of all rows makes what is not stored pending, with nothing of it under way.
LEMMA RunRetryKeeps ==
    ASSUME Types, Held, RunTask, Head(queue) = Retry, row' = SetRows(Tile, "pending"),
           dropped' = {}, lists' = lists
    PROVE  Held'
<1>1. /\ Types' /\ inFlight' = inFlight /\ todo' = todo
      /\ noMoreTiles' = noMoreTiles /\ batchRequested' = batchRequested
      /\ savedCount' = savedCount /\ totalCount' = totalCount /\ Complete' = Complete
  BY RunTypes, RunLeaves
<1>2. /\ \A x : CountIn(queue, x) = CountIn(queue', x) + IF x = Retry THEN 1 ELSE 0
      /\ \A x : CountIn(queue, x) \in Nat /\ CountIn(queue', x) \in Nat
      /\ queue' = Tail(queue)
  BY Runs
<1>3. CountIn(queue, Retry) > 0
  <2>1. CountIn(queue, Retry) = CountIn(queue', Retry) + 1
    BY <1>2
  <2> QED BY <1>2, <2>1
<1>4. /\ queue = <<Retry, List>> /\ lists = <<>> /\ todo = <<>>
      /\ \A t \in Tile : inFlight[t] = 0
      /\ ~noMoreTiles /\ ~Complete
  BY <1>3 DEF Held, RetryAlone
<1>5. queue' = <<List>>
  <2>1. \A x, y : Tail(<<x, y>>) = <<y>>
    OBVIOUS
  <2> QED BY <1>2, <1>4, <2>1, Zenon
<1>6. \A x : CountIn(queue', x) = IF x = List THEN 1 ELSE 0
  BY <1>5, CountOne
<1>7. OneList'
  <2>1. CountIn(queue, List) = CountIn(queue', List)
    BY <1>2, TasksDiffer
  <2> QED BY <1>1, <2>1 DEF Held, OneList
<1>8. \A u \in Tile : row'[u] = IF row[u] # "none" THEN "pending" ELSE row[u]
  <2>1. \A u \in Tile : row'[u] = IF u \in Tile /\ row[u] # "none" THEN "pending" ELSE row[u]
    BY RowsSet
  <2> QED BY <2>1
<1>9. ASSUME NEW u \in Tile
      PROVE  /\ Places(u)' = 0
             /\ CountIn(queue', Record(u)) = CountIn(queue, Record(u))
  <2>1. CountIn(queue', Record(u)) = 0 /\ CountIn(queue', Error(u)) = 0
    BY <1>6, TasksDiffer
  <2>2. CountIn(queue', Record(u)) = CountIn(queue, Record(u))
    BY <1>2, TasksDiffer
  <2>3. FlattenSeq(lists') = <<>> /\ todo' = <<>> /\ inFlight'[u] = 0
    BY <1>1, <1>4, FlattenNone, Zenon
  <2>4. CountIn(FlattenSeq(lists'), u) = 0 /\ CountIn(todo', u) = 0
    BY <2>3, CountEmpty, Zenon
  <2>5. Places(u)' = 0
    BY <2>1, <2>3, <2>4 DEF Places
  <2> QED BY <2>2, <2>5
<1>10. InPlace'
  <2>1. \A u \in Tile : row'[u] # "downloading"
    BY <1>8
  <2> QED BY <1>9, <2>1 DEF InPlace
<1>11. RetryAlone'
  <2>1. CountIn(queue', Retry) = 0
    BY <1>6, TasksDiffer
  <2> QED BY <2>1 DEF RetryAlone
<1>12. ShortIsLast'
  <2>1. DOMAIN lists' = {}
    BY <1>4
  <2> QED BY <1>1, <1>4, <2>1 DEF ShortIsLast
<1>13. SavedIsRecorded'
  <2>1. \A u \in Tile : row'[u] = "none" <=> row[u] = "none"
    BY <1>8
  <2>2. Saved' = Saved
    BY <1>9, <2>1 DEF Saved
  <2> QED BY <1>1, <2>2 DEF Held, SavedIsRecorded
<1>14. TotalIsAll' /\ CompleteIsLast'
  BY <1>1, <1>4 DEF Held, TotalIsAll, CompleteIsLast
<1>15. DroppedAreTaken'
  BY DEF DroppedAreTaken
<1> QED BY <1>7, <1>10, <1>11, <1>12, <1>13, <1>14, <1>15 DEF Held

\* The record of an answer takes its tile out of the last place it was in.
LEMMA RunAnswerKeeps ==
    ASSUME Types, Held, RunTask, NEW t \in Tile, NEW task \in {Record(t), Error(t)},
           Head(queue) = task, dropped' = dropped, lists' = lists,
           NEW st \in {"none", "error"}, st = "none" <=> task = Record(t),
           row[t] # "none" => row' = [row EXCEPT ![t] = st]
    PROVE  Held'
<1>1. /\ Types' /\ inFlight' = inFlight /\ todo' = todo
      /\ noMoreTiles' = noMoreTiles /\ batchRequested' = batchRequested
      /\ savedCount' = savedCount /\ totalCount' = totalCount /\ Complete' = Complete
  BY RunTypes, RunLeaves
<1>2. /\ \A x : CountIn(queue, x) = CountIn(queue', x) + IF x = task THEN 1 ELSE 0
      /\ \A x : CountIn(queue, x) \in Nat /\ CountIn(queue', x) \in Nat
  BY Runs
<1>3. OneList
  BY DEF Held
<1>4. /\ List # task /\ Retry # task
      /\ (Record(t) = task /\ Error(t) # task) \/ (Record(t) # task /\ Error(t) = task)
      /\ \A u \in Tile : u # t => Record(u) # task /\ Error(u) # task
  BY TasksDiffer
<1>5. ASSUME NEW u \in Tile
      PROVE  /\ Places(u) = Places(u)' + IF u = t THEN 1 ELSE 0
             /\ Places(u) \in Nat /\ Places(u)' \in Nat
             /\ CountIn(queue, Record(u)) + CountIn(queue, Error(u)) <= Places(u)
  <2>1. /\ CountIn(FlattenSeq(lists), u) \in Nat /\ CountIn(todo, u) \in Nat
        /\ inFlight[u] \in Nat
        /\ CountIn(queue, Record(u)) \in Nat /\ CountIn(queue, Error(u)) \in Nat
        /\ CountIn(queue', Record(u)) \in Nat /\ CountIn(queue', Error(u)) \in Nat
    BY <1>2, <1>3, Parts
  <2>2. /\ CountIn(queue, Record(u)) = CountIn(queue', Record(u)) + IF Record(u) = task THEN 1 ELSE 0
        /\ CountIn(queue, Error(u)) = CountIn(queue', Error(u)) + IF Error(u) = task THEN 1 ELSE 0
    BY <1>2
  <2>3. CountIn(queue, Record(u)) + CountIn(queue, Error(u))
          = CountIn(queue', Record(u)) + CountIn(queue', Error(u)) + IF u = t THEN 1 ELSE 0
    <3>1. CASE u = t
      BY <1>4, <2>1, <2>2, <3>1
    <3>2. CASE u # t
      BY <1>4, <2>1, <2>2, <3>2
    <3> QED BY <3>1, <3>2
  <2>4. Places(u) = CountIn(FlattenSeq(lists), u) + CountIn(todo, u) + inFlight[u]
                      + CountIn(queue, Record(u)) + CountIn(queue, Error(u))
    BY DEF Places
  <2>5. Places(u)' = CountIn(FlattenSeq(lists), u) + CountIn(todo, u) + inFlight[u]
                       + CountIn(queue', Record(u)) + CountIn(queue', Error(u))
    BY <1>1 DEF Places
  <2> QED BY ONLY <2>1, <2>3, <2>4, <2>5
<1>6. row[t] = "downloading" /\ t \notin dropped /\ Places(t) = 1
  <2>1. Places(t) > 0
    BY <1>5
  <2> QED BY <2>1, InPlaceOnce
<1>7. row' = [row EXCEPT ![t] = st] /\ row \in [Tile -> {"pending", "downloading", "error", "none"}]
  BY <1>6 DEF Types
<1>8. /\ row'[t] = st /\ st # "downloading" /\ st # "pending"
      /\ \A u \in Tile : u # t => row'[u] = row[u]
  BY <1>7
<1>9. InPlace'
  <2>1. ASSUME NEW u \in Tile
        PROVE  Places(u)' = IF row'[u] = "downloading" /\ u \notin dropped THEN 1 ELSE 0
    <3>1. Places(u) = IF row[u] = "downloading" /\ u \notin dropped THEN 1 ELSE 0
      BY DEF Held, InPlace
    <3>2. CASE u = t
      BY <1>5, <1>6, <1>8, <3>2
    <3>3. CASE u # t
      <4>1. Places(u)' = Places(u)
        BY <1>5, <3>3
      <4> QED BY <1>8, <3>1, <3>3, <4>1
    <3> QED BY <3>2, <3>3
  <2> QED BY <2>1 DEF InPlace
<1>10. OneList'
  <2>1. CountIn(queue, List) = CountIn(queue', List)
    BY <1>2, <1>4
  <2> QED BY <1>1, <1>3, <2>1 DEF OneList
<1>11. RetryAlone'
  <2>1. CountIn(queue, Retry) = CountIn(queue', Retry)
    BY <1>2, <1>4
  <2>2. CountIn(queue, Retry) > 0 => queue = <<Retry, List>>
    BY DEF Held, RetryAlone
  <2>3. queue # <<Retry, List>>
    BY <1>4
  <2> QED BY <2>1, <2>2, <2>3 DEF RetryAlone
<1>12. Pending' = Pending
  BY <1>6, <1>8 DEF Pending
<1>13. ShortIsLast'
  BY <1>1, <1>12 DEF Held, ShortIsLast, IsShort
<1>14. SavedIsRecorded'
  <2>1. ASSUME NEW u \in Tile, u # t
        PROVE  CountIn(queue', Record(u)) = CountIn(queue, Record(u))
    BY <1>2, <1>4, <2>1
  <2>2. t \in Saved <=> t \in Saved'
    <3>1. CountIn(queue, Record(t)) + CountIn(queue, Error(t)) <= 1
      BY <1>5, <1>6
    <3>2. CASE task = Record(t)
      <4>1. CountIn(queue, Record(t)) > 0 /\ row'[t] = "none"
        BY <1>2, <1>8, <3>2
      <4> QED BY <4>1 DEF Saved
    <3>3. CASE task = Error(t)
      <4>1. row'[t] = "error" /\ row[t] = "downloading"
        BY <1>4, <1>6, <1>8, <3>3
      <4>2. CountIn(queue', Record(t)) = CountIn(queue, Record(t))
        BY <1>2, <1>4, <3>3
      <4> QED BY <4>1, <4>2 DEF Saved
    <3> QED BY <3>2, <3>3
  <2>3. \A u \in Tile : u # t => (u \in Saved <=> u \in Saved')
    BY <1>8, <2>1 DEF Saved
  <2>4. Saved \subseteq Tile /\ Saved' \subseteq Tile
    BY DEF Saved
  <2>5. Saved' = Saved
    BY <2>2, <2>3, <2>4
  <2>6. savedCount = Cardinality(Saved)
    BY DEF Held, SavedIsRecorded
  <2> QED BY ONLY <1>1, <2>5, <2>6 DEF SavedIsRecorded
<1>15. TotalIsAll' /\ CompleteIsLast'
  BY <1>1, <1>12 DEF Held, TotalIsAll, CompleteIsLast
<1>16. DroppedAreTaken'
  BY <1>6, <1>8 DEF Held, DroppedAreTaken, Types
<1> QED BY <1>9, <1>10, <1>11, <1>13, <1>14, <1>15, <1>16 DEF Held

\* Each task the worker can run keeps the invariant.
LEMMA RunKeeps ==
    ASSUME Types, Held, valid, RunTask
    PROVE  Held'
<1>1. CASE /\ Head(queue) = List /\ row' = Marked /\ dropped' = dropped
           /\ \E tiles \in InOrder(Fetched) : lists' = Append(lists, tiles)
  BY <1>1, RunListKeeps
<1>2. CASE /\ Head(queue) = Retry /\ row' = SetRows(Tile, "pending")
           /\ lists' = lists /\ dropped' = {}
  BY <1>2, RunRetryKeeps
<1>3. ASSUME NEW t \in Tile, Head(queue) = Record(t), row' = [row EXCEPT ![t] = "none"],
             lists' = lists, dropped' = dropped
      PROVE  Held'
  BY <1>3, RunAnswerKeeps
<1>4. ASSUME NEW t \in Tile, Head(queue) = Error(t), row' = SetRows({t}, "error"),
             lists' = lists, dropped' = dropped
      PROVE  Held'
  <2>1. Error(t) \in {Record(t), Error(t)} /\ Error(t) # Record(t) /\ "error" # "none"
    BY TasksDiffer
  <2>2. row[t] # "none" => row' = [row EXCEPT ![t] = "error"]
    BY <1>4 DEF Types, SetRows
  <2> QED BY <1>4, <2>1, <2>2, RunAnswerKeeps
<1> QED BY <1>1, <1>2, <1>3, <1>4, Runs

\* The invariant holds when the download is created.
LEMMA InitKeeps == Init => IInv
<1> SUFFICES ASSUME Init PROVE IInv
  OBVIOUS
<1>1. PICK missing \in 0..NumTiles :
        /\ row = [t \in Tile |-> IF t <= missing THEN "pending" ELSE "none"]
        /\ savedCount = NumTiles - missing
  BY DEF Init
<1>2. /\ queue = <<List>> /\ lists = <<>> /\ inFlight = [t \in Tile |-> 0]
      /\ todo = <<>> /\ replies = {} /\ downloading = TRUE /\ cancelPending = FALSE
      /\ noMoreTiles = FALSE /\ batchRequested = TRUE /\ errorCount = 0
      /\ totalCount = NumTiles /\ resumes = 0 /\ overtaken = FALSE /\ dropped = {}
  BY DEF Init
<1>3. NumTiles \in Nat /\ missing \in Nat /\ missing <= NumTiles /\ MaxResumes \in Nat
  BY DownloadAssumption
<1>4. savedCount \in Nat
  BY <1>1, <1>3
<1>5. queue \in Seq(Task) /\ lists \in Seq(Seq(Tile)) /\ todo \in Seq(Tile)
  <2>1. List \in Task
    BY DEF Task
  <2> QED BY <1>2, <2>1, EmptySeq
<1>6. row \in [Tile -> {"pending", "downloading", "error", "none"}]
  BY <1>1
<1>7. Types
  <2>1. inFlight \in [Tile -> Nat] /\ replies \subseteq {t \in Tile : inFlight[t] > 0}
    BY <1>2
  <2>2. dropped \subseteq Tile /\ resumes \in 0..MaxResumes /\ errorCount \in Nat
    BY <1>2, <1>3
  <2>3. /\ downloading \in BOOLEAN /\ cancelPending \in BOOLEAN /\ noMoreTiles \in BOOLEAN
        /\ batchRequested \in BOOLEAN /\ overtaken \in BOOLEAN
    BY <1>2, Zenon
  <2>4. totalCount \in Nat
    BY <1>2, <1>3
  <2> QED BY ONLY <1>4, <1>5, <1>6, <2>1, <2>2, <2>3, <2>4 DEF Types
<1>8. \A x : CountIn(queue, x) = IF x = List THEN 1 ELSE 0
  BY <1>2, CountOne
<1>9. \A u \in Tile : CountIn(queue, Record(u)) = 0 /\ CountIn(queue, Error(u)) = 0
  BY <1>8, TasksDiffer
<1>10. \A u \in Tile : row[u] \in {"pending", "none"}
  BY <1>1
<1>11. InPlace
  <2>1. ASSUME NEW u \in Tile PROVE Places(u) = 0
    <3>1. FlattenSeq(lists) = <<>> /\ inFlight[u] = 0
      BY <1>2, FlattenNone
    <3>2. CountIn(FlattenSeq(lists), u) = 0 /\ CountIn(todo, u) = 0
      BY <1>2, <3>1, CountEmpty, Zenon
    <3> QED BY <1>9, <3>1, <3>2 DEF Places
  <2> QED BY <1>10, <2>1 DEF InPlace
<1>12. OneList
  <2>1. Len(lists) = 0
    BY <1>2
  <2> QED BY <1>2, <1>8, <2>1 DEF OneList
<1>13. RetryAlone
  <2>1. CountIn(queue, Retry) = 0
    BY <1>8, TasksDiffer
  <2> QED BY <2>1 DEF RetryAlone
<1>14. ShortIsLast
  BY <1>2 DEF ShortIsLast
<1>15. SavedIsRecorded
  <2>1. Saved = (missing + 1)..NumTiles
    <3>1. ASSUME NEW u \in Tile PROVE u \in Saved <=> u \in (missing + 1)..NumTiles
      <4>1. u \in Saved <=> row[u] = "none"
        BY <1>9 DEF Saved
      <4>2. u \in Nat /\ u <= NumTiles
        BY <1>3 DEF Tile
      <4> QED BY <1>1, <1>3, <4>1, <4>2
    <3>2. Saved \subseteq Tile /\ (missing + 1)..NumTiles \subseteq Tile
      BY <1>3 DEF Saved, Tile
    <3> QED BY <3>1, <3>2
  <2>2. Cardinality((missing + 1)..NumTiles) = NumTiles - missing
    <3>1. missing + 1 \in Int /\ NumTiles \in Int
      BY <1>3
    <3>2. Cardinality((missing + 1)..NumTiles)
            = IF missing + 1 > NumTiles THEN 0 ELSE NumTiles - (missing + 1) + 1
      BY <3>1, FS_Interval
    <3> QED BY <1>3, <3>2
  <2> QED BY <1>1, <2>1, <2>2 DEF SavedIsRecorded
<1>16. TotalIsAll
  BY <1>2 DEF TotalIsAll
<1>17. CompleteIsLast
  <2>1. ASSUME Complete PROVE Pending = {}
    <3>1. missing = 0
      BY <1>1, <1>2, <1>3, <2>1 DEF Complete
    <3>2. \A u \in Tile : row[u] = "none"
      BY <1>1, <3>1 DEF Tile
    <3> QED BY <3>2 DEF Pending
  <2>2. DOMAIN lists = {}
    BY <1>2
  <2> QED BY <2>1, <2>2 DEF CompleteIsLast
<1>18. DroppedAreTaken
  BY <1>2 DEF DroppedAreTaken
<1>19. FlagTypes
  BY DEF Init, FlagTypes
<1> QED BY <1>7, <1>19, <1>11, <1>12, <1>13, <1>14, <1>15, <1>16, <1>17, <1>18 DEF IInv, Held

\* A step that changes nothing but what the worker is like, for the better or the worse.
LEMMA SameKeeps ==
    ASSUME Types, UNCHANGED <<row, queue, lists, net, flags, counts, history>>
    PROVE  Types' /\ (Held => Held') /\ overtaken' = overtaken
<1>1. /\ inFlight' = inFlight /\ replies' = replies /\ cancelPending' = cancelPending
      /\ row' = row /\ queue' = queue /\ lists' = lists /\ todo' = todo
      /\ downloading' = downloading /\ dropped' = dropped
      /\ noMoreTiles' = noMoreTiles /\ batchRequested' = batchRequested
      /\ errorCount' = errorCount /\ savedCount' = savedCount /\ totalCount' = totalCount
      /\ resumes' = resumes /\ overtaken' = overtaken
  BY DEF net, flags, counts, history
<1>2. Types'
  BY <1>1 DEF Types
<1>3. Held => Held'
  BY <1>1 DEF Held, InPlace, Places, OneList, RetryAlone, ShortIsLast, SavedIsRecorded, Saved,
              TotalIsAll, CompleteIsLast, Complete, Pending, DroppedAreTaken, IsShort
<1> QED BY <1>1, <1>2, <1>3

\* The database does not come back, and the other variables of the worker stay flags.
LEMMA FlagsKeep ==
    ASSUME FlagTypes, [Next]_vars
    PROVE  FlagTypes' /\ (valid' => valid)
<1> USE DEF FlagTypes
<1>1. CASE RunTask
  <2>1. UNCHANGED <<valid, stranded>>
    BY <1>1 DEF RunTask, worker
  <2>2. unheard' \in BOOLEAN
    <3>1. unheard' = unheard \/ unheard' = (unheard \/ Head(queue) = List)
      BY <1>1 DEF RunTask, Fails
    <3>2. (unheard \/ Head(queue) = List) \in BOOLEAN
      BY Zenon
    <3> QED BY <3>1, <3>2
  <2> QED BY <2>1, <2>2
<1>2. ASSUME Strands, valid' = valid,
             unheard' = unheard \/ unheard' = (unheard \/ ~valid)
      PROVE  FlagTypes' /\ (valid' => valid)
  <2>1. stranded' \in BOOLEAN
    BY <1>2 DEF Strands
  <2>2. unheard' \in BOOLEAN
    <3>1. (unheard \/ ~valid) \in BOOLEAN
      BY Zenon
    <3> QED BY <1>2, <3>1
  <2> QED BY <1>2, <2>1, <2>2
<1>3. ASSUME NEW cancel, NEW given, NEW errors, NEW batch,
             CreateDownloadTask(cancel, given, errors, batch)
      PROVE  unheard' = unheard \/ unheard' = (unheard \/ ~valid)
  BY <1>3 DEF CreateDownloadTask
<1>4. ASSUME NEW given, NEW errors, NEW saved, NEW tiles, NEW keys, NEW flying, NEW batch,
             NEW noMore, PrepareDownload(given, errors, saved, tiles, keys, flying, batch, noMore)
      PROVE  unheard' = unheard \/ unheard' = (unheard \/ ~valid)
  <2>1. CASE DoneWithDownload(given, errors, saved, batch, noMore)
    BY <2>1 DEF DoneWithDownload
  <2>2. CASE CreateDownloadTask(cancelPending, given, errors, batch)
    BY <1>3, <2>2
  <2>3. CASE GoOn(given, errors, batch, noMore)
    BY <2>3 DEF GoOn
  <2> QED BY <1>4, <2>1, <2>2, <2>3 DEF PrepareDownload
<1>5. CASE TileListFetched
  <2>1. Strands /\ valid' = valid
    BY <1>5 DEF TileListFetched
  <2>2. unheard' = unheard \/ unheard' = (unheard \/ ~valid)
    <3>1. CASE Head(lists) = <<>>
      BY <1>5, <3>1 DEF TileListFetched, DoneWithDownload
    <3>2. CASE Head(lists) # <<>>
      BY <1>4, <1>5, <3>2 DEF TileListFetched
    <3> QED BY <3>1, <3>2
  <2> QED BY <1>2, <2>1, <2>2
<1>6. CASE \E t \in Tile : ReplyFinished(t) \/ ReplyError(t)
  <2>1. PICK t \in Tile : ReplyFinished(t) \/ ReplyError(t)
    BY <1>6
  <2>2. Strands /\ valid' = valid
    BY <2>1 DEF ReplyFinished, ReplyError
  <2>3. unheard' = unheard \/ unheard' = (unheard \/ ~valid)
    BY <1>4, <2>1 DEF ReplyFinished, ReplyError
  <2> QED BY <1>2, <2>2, <2>3
<1>7. CASE ResumeDownloadTask
  <2>1. Strands /\ valid' = valid
    BY <1>7 DEF ResumeDownloadTask
  <2>2. unheard' = unheard \/ unheard' = (unheard \/ ~valid)
    BY <1>3, <1>7 DEF ResumeDownloadTask
  <2> QED BY <1>2, <2>1, <2>2
<1>8. CASE \E t \in Tile : ReplyDropped(t)
  BY <1>8 DEF ReplyDropped, worker
<1>9. CASE CancelDownloadTask
  BY <1>9 DEF CancelDownloadTask, worker
<1>10. CASE Wake
  BY <1>10 DEF Wake
<1>11. CASE Outage
  BY <1>11 DEF Outage
<1>12. CASE UNCHANGED vars
  BY <1>12 DEF vars, worker
<1> QED BY <1>1, <1>5, <1>6, <1>7, <1>8, <1>9, <1>10, <1>11, <1>12 DEF Next, Idle

\* Every step keeps the invariant.
LEMMA StepKeeps == IInv /\ [Next]_vars => IInv'
<1> SUFFICES ASSUME IInv, [Next]_vars PROVE IInv'
  OBVIOUS
<1>1. Types /\ FlagTypes /\ (Sound => Held)
  BY DEF IInv
<1>2. FlagTypes' /\ (valid' => valid)
  BY <1>1, FlagsKeep
<1> SUFFICES Types' /\ (valid /\ ~overtaken' => Held')
  BY <1>2 DEF IInv, Sound
<1>3. CASE RunTask
  <2>1. overtaken' = overtaken /\ Types'
    BY <1>1, <1>3, RunLeaves, RunTypes
  <2>2. valid /\ Held => Held'
    BY <1>1, <1>3, RunKeeps
  <2> QED BY <1>1, <2>1, <2>2 DEF Sound
<1>4. CASE TileListFetched
  <2>1. overtaken' = overtaken
    BY <1>4 DEF TileListFetched, history
  <2>2. Types' /\ (valid /\ Held => Held')
    BY <1>1, <1>4, ListMoves, ListKeeps
  <2> QED BY <1>1, <2>1, <2>2 DEF Sound
<1>5. ASSUME NEW t \in Tile, ReplyFinished(t) PROVE Types' /\ (valid /\ ~overtaken' => Held')
  <2>1. /\ inFlight[t] > 0 /\ savedCount' = savedCount + 1 /\ UNCHANGED <<row, lists, history>>
        /\ PrepareDownload(Accept(queue, Record(t)), errorCount, savedCount', todo,
                           Without(t), Land(t), batchRequested, noMoreTiles)
    BY <1>5 DEF ReplyFinished
  <2>2. errorCount \in Nat /\ savedCount \in Nat /\ savedCount' \in Nat
    BY <1>1, <2>1 DEF Types
  <2>3. Record(t) \in Task
    BY DEF Task
  <2>4. Types'
    BY <1>1, <2>1, <2>2, <2>3, AnswerTypes
  <2>5. savedCount' = savedCount + (IF Record(t) = Record(t) THEN 1 ELSE 0)
    BY <2>1
  <2>6. valid /\ Held => Held'
    BY <1>1, <2>1, <2>2, <2>5, AnswerKeeps
  <2>7. overtaken' = overtaken
    BY <2>1 DEF history
  <2> QED BY <1>1, <2>4, <2>6, <2>7 DEF Sound
<1>6. ASSUME NEW t \in Tile, ReplyError(t) PROVE Types' /\ (valid /\ ~overtaken' => Held')
  <2>1. /\ inFlight[t] > 0 /\ savedCount' = savedCount /\ UNCHANGED <<row, lists, history>>
        /\ PrepareDownload(Accept(queue, Error(t)), errorCount + 1, savedCount, todo,
                           Without(t), Land(t), batchRequested, noMoreTiles)
    BY <1>6 DEF ReplyError
  <2>2. errorCount + 1 \in Nat /\ savedCount \in Nat /\ savedCount' \in Nat
    BY <1>1, <2>1 DEF Types
  <2>3. PrepareDownload(Accept(queue, Error(t)), errorCount + 1, savedCount', todo,
                        Without(t), Land(t), batchRequested, noMoreTiles)
    BY <2>1
  <2>4. Error(t) \in Task
    BY DEF Task
  <2>5. Types'
    BY <1>1, <2>1, <2>2, <2>3, <2>4, AnswerTypes
  <2>6. savedCount' = savedCount + (IF Error(t) = Record(t) THEN 1 ELSE 0)
    BY <2>1, <2>2, TasksDiffer
  <2>7. valid /\ Held => Held'
    BY <1>1, <2>1, <2>2, <2>3, <2>6, AnswerKeeps
  <2>8. overtaken' = overtaken
    BY <2>1 DEF history
  <2> QED BY <1>1, <2>5, <2>7, <2>8 DEF Sound
<1>7. ASSUME NEW t \in Tile, ReplyDropped(t) PROVE Types' /\ (valid /\ ~overtaken' => Held')
  <2>1. Types' /\ overtaken' = overtaken
    BY <1>1, <1>7, DropTypes
  <2>2. Held => Held'
    BY <1>1, <1>7, DropKeeps
  <2> QED BY <1>1, <2>1, <2>2 DEF Sound
<1>8. CASE CancelDownloadTask
  <2>1. overtaken' = overtaken
    BY <1>8 DEF CancelDownloadTask, history
  <2>2. Types' /\ (Held => Held')
    BY <1>1, <1>8, CancelKeeps
  <2> QED BY <1>1, <2>1, <2>2 DEF Sound
<1>9. CASE ResumeDownloadTask
  <2>1. Types' /\ overtaken' = (overtaken \/ ~(Still /\ todo = <<>>))
    BY <1>1, <1>9, ResumeTypes
  <2>2. valid /\ ~overtaken' => Held'
    BY <1>1, <1>9, <2>1, ResumeKeeps DEF Sound
  <2> QED BY <2>1, <2>2
<1>10. CASE Wake \/ Outage \/ UNCHANGED vars
  <2>1. UNCHANGED <<row, queue, lists, net, flags, counts, history>>
    BY <1>10 DEF Wake, Outage, vars
  <2>2. Types' /\ (Held => Held') /\ overtaken' = overtaken
    BY <1>1, <2>1, SameKeeps
  <2> QED BY <1>1, <2>2 DEF Sound
<1> QED BY <1>3, <1>4, <1>5, <1>6, <1>7, <1>8, <1>9, <1>10 DEF Next, Idle

-----------------------------------------------------------------------------
(* The theorems *)

\* Every reachable state satisfies the inductive invariant.
LEMMA Consistent == Spec => []IInv
<1>1. Init => IInv
  BY InitKeeps
<1>2. IInv /\ [Next]_vars => IInv'
  BY StepKeeps
<1> QED BY <1>1, <1>2, PTL DEF Spec

\* What a sequence holds are its elements.
LEMMA ElementsOf ==
    ASSUME NEW S, NEW s \in Seq(S)
    PROVE  ToSet(s) \subseteq S
<1>1. ASSUME NEW i \in DOMAIN s PROVE s[i] \in S
  BY LenProperties, ElementOfSeq
<1> QED BY <1>1 DEF ToSet

\* While the worker has its database, a tile that TilesDownload says is being downloaded
\* is in one place between the worker's list and its own recording, unless its answer was
\* thrown away, and no other tile is in any, whatever the answers, the batches, stranded
\* tasks and the resumes that find nothing under way: no tile is requested twice and none
\* is lost.
THEOREM NoTileIsLost == Spec => []Inv
<1>1. IInv => Inv
  <2> SUFFICES ASSUME IInv PROVE Inv
    OBVIOUS
  <2>1. Types
    BY DEF IInv
  <2>2. ToSet(queue) \subseteq Task /\ ToSet(todo) \subseteq Tile
    BY <2>1, ElementsOf DEF Types
  <2>3. \A i \in DOMAIN lists : ToSet(lists[i]) \subseteq Tile
    <3>1. ASSUME NEW i \in DOMAIN lists PROVE ToSet(lists[i]) \subseteq Tile
      <4>1. lists \in Seq(Seq(Tile))
        BY <2>1 DEF Types
      <4>2. lists[i] \in Seq(Tile)
        BY <4>1, LenProperties, ElementOfSeq
      <4> QED BY <4>2, ElementsOf
    <3> QED BY <3>1
  <2>4. {downloading, cancelPending, noMoreTiles, batchRequested, overtaken} \subseteq BOOLEAN
    <3>1. /\ downloading \in BOOLEAN /\ cancelPending \in BOOLEAN /\ noMoreTiles \in BOOLEAN
          /\ batchRequested \in BOOLEAN /\ overtaken \in BOOLEAN
      BY <2>1 DEF Types
    <3> QED BY <3>1, Zenon
  <2>7. {valid, stranded, unheard} \subseteq BOOLEAN
    BY Zenon DEF IInv, FlagTypes
  <2>5. TypeOK
    BY <2>1, <2>2, <2>3, <2>4, <2>7 DEF Types, TypeOK
  <2>6. OnePlace
    BY DEF IInv, Held, InPlace, OnePlace
  <2> QED BY <2>5, <2>6 DEF Inv
<1> QED BY <1>1, Consistent, PTL

\* While the worker has its database, a set is shown as complete, by the end of a download
\* without errors or by the count of the tiles saved, only when the worker has handed out
\* every tile and no list with tiles is on its way.
THEOREM CompleteSetIsHandedOut == Spec => [](valid => CompleteIsTaken)
<1>1. IInv => (valid => CompleteIsTaken)
  BY DEF IInv, Sound, Held, CompleteIsLast, CompleteIsTaken
<1> QED BY <1>1, Consistent, PTL

\* While the worker has its database, the count of saved tiles that the user sees is that
\* of the tiles that are recorded or whose record is in the queue of the worker: none is
\* counted twice.
THEOREM SavedTilesAreCounted == Spec => [](Sound => SavedIsRecorded)
<1>1. IInv => (Sound => SavedIsRecorded)
  BY DEF IInv, Held
<1> QED BY <1>1, Consistent, PTL
-----------------------------------------------------------------------------
(* The database of TileSetManager *)

\* A name, of what names are made of: what the user writes and numbers
Words == Int \cup {"Default Tile Set"} \cup UNION {ToSet(name) : name \in Names}
TName == Seq(Words)
TRow == [name : TName, isDefault : BOOLEAN]

\* A database: its tables, with ids that are bounded, rows of SetTiles for sets that are
\* there or for the one the worker takes for the default one, and names that are UNIQUE
Made(d) == d = [tiles |-> d.tiles, sets |-> d.sets, listed |-> d.listed]
Base(d) ==
    /\ Made(d) /\ d.tiles \subseteq Hash
    /\ \E n \in Nat : DOMAIN d.sets \subseteq 1..n
    /\ \A s \in DOMAIN d.sets : d.sets[s] \in TRow
    /\ d.listed \subseteq d.tiles \X (DOMAIN d.sets \cup {1})
    /\ \A s, t \in DOMAIN d.sets : d.sets[s].name = d.sets[t].name => s = t

\* Of more values than a finite set has one is not in it.
LEMMA Unused ==
    ASSUME NEW n \in Nat, NEW S, IsFiniteSet(S), Cardinality(S) <= n,
           NEW T, NEW f \in [1..(n + 1) -> T],
           \A i, j \in 1..(n + 1) : f[i] = f[j] => i = j
    PROVE  \E k \in 1..(n + 1) : f[k] \notin S
<1>1. SUFFICES ASSUME \A k \in 1..(n + 1) : f[k] \in S PROVE FALSE
  OBVIOUS
<1>2. f \in [1..(n + 1) -> S]
  BY <1>1
<1>3. IsFiniteSet(1..(n + 1)) /\ Cardinality(1..(n + 1)) = n + 1
  <2>1. 1 \in Int /\ n + 1 \in Int /\ ~(1 > n + 1) /\ (n + 1) - 1 + 1 = n + 1
    OBVIOUS
  <2> QED BY <2>1, FS_Interval
<1>4. Cardinality(S) < Cardinality(1..(n + 1))
  BY <1>3, FS_CardinalityType
<1>5. \E i, j \in 1..(n + 1) : i # j /\ f[i] = f[j]
  BY <1>2, <1>3, <1>4, FS_PigeonHole
<1> QED BY <1>5

\* A set of numbers has a least one, and a bounded one a greatest.
LEMMA LeastIs == ASSUME NEW S \in SUBSET Nat, S # {} PROVE Min(S) \in S /\ \A y \in S : Min(S) <= y
<1>1. \E x \in S : \A y \in S : x =< y
  BY LeastOf
<1> QED BY <1>1 DEF Min

\* The greatest of a bounded set is one of them.
LEMMA GreatestIs ==
    ASSUME NEW n \in Nat, NEW S, S \subseteq 1..n, S # {}
    PROVE  Max(S) \in S /\ \A y \in S : y <= Max(S)
<1> DEFINE T == {n - x : x \in S}
<1>1. T \in SUBSET Nat /\ T # {}
  <2>1. \A x \in S : n - x \in Nat
    OBVIOUS
  <2> QED BY <2>1
<1>2. PICK m \in T : \A y \in T : m <= y
  BY <1>1, LeastOf
<1>3. PICK x \in S : m = n - x
  OBVIOUS
<1>4. \A y \in S : x >= y
  <2>1. ASSUME NEW y \in S PROVE x >= y
    <3>1. n - y \in T
      OBVIOUS
    <3>2. n - x <= n - y /\ x \in 1..n /\ y \in 1..n
      BY <1>2, <1>3, <3>1
    <3> QED BY <3>2
  <2> QED BY <2>1
<1>5. Max(S) \in S /\ \A y \in S : Max(S) >= y
  BY <1>3, <1>4 DEF Max
<1>6. \A a, b \in 1..n : a >= b => b <= a
  OBVIOUS
<1> QED BY <1>5, <1>6

\* A new id is new, and the ids stay bounded.
LEMMA NewIDIs ==
    ASSUME NEW d, NEW n \in Nat, DOMAIN d.sets \subseteq 1..n
    PROVE  /\ NewID(d) \in Nat \ {0} /\ NewID(d) \notin DOMAIN d.sets
           /\ \A s \in DOMAIN d.sets : s < NewID(d) /\ s \in Nat \ {0}
           /\ NewID(d) # 1 \/ DOMAIN d.sets = {}
<1>1. CASE DOMAIN d.sets = {}
  BY <1>1 DEF NewID
<1>2. CASE DOMAIN d.sets # {}
  <2>1. /\ Max(DOMAIN d.sets) \in DOMAIN d.sets
        /\ \A s \in DOMAIN d.sets : s <= Max(DOMAIN d.sets)
    BY <1>2, GreatestIs
  <2>2. NewID(d) = Max(DOMAIN d.sets) + 1
    BY <1>2 DEF NewID
  <2>3. \A a, b \in 1..n : a <= b => a < b + 1
    OBVIOUS
  <2>4. \A s \in DOMAIN d.sets : s < NewID(d) /\ s \in Nat \ {0}
    BY <2>1, <2>2, <2>3
  <2>5. Max(DOMAIN d.sets) \in 1..n
    BY <2>1
  <2>6. \A a \in 1..n : a + 1 \in Nat \ {0} /\ a + 1 # 1 /\ ~(a + 1 < a + 1)
    OBVIOUS
  <2> QED BY <2>2, <2>4, <2>5, <2>6
<1> QED BY <1>1, <1>2

\* What an insertion makes.
LEMMA InsertIs ==
    ASSUME NEW d, Made(d), NEW name, NEW isDefault
    PROVE  LET f == Insert(d, name, isDefault)
           IN  /\ f.tiles = d.tiles /\ f.listed = d.listed
               /\ DOMAIN f.sets = DOMAIN d.sets \cup {NewID(d)}
               /\ f.sets[NewID(d)] = [name |-> name, isDefault |-> isDefault]
               /\ \A s \in DOMAIN d.sets : s # NewID(d) => f.sets[s] = d.sets[s]
<1> DEFINE new == [s \in DOMAIN d.sets \cup {NewID(d)} |->
                     IF s = NewID(d) THEN [name |-> name, isDefault |-> isDefault] ELSE d.sets[s]]
<1>1. Insert(d, name, isDefault) = [d EXCEPT !.sets = new]
  BY DEF Insert
<1>2. /\ DOMAIN new = DOMAIN d.sets \cup {NewID(d)}
      /\ new[NewID(d)] = [name |-> name, isDefault |-> isDefault]
      /\ \A s \in DOMAIN d.sets : s # NewID(d) => new[s] = d.sets[s]
  OBVIOUS
<1> HIDE DEF new
<1>3. [d EXCEPT !.sets = new] = [tiles |-> d.tiles, sets |-> new, listed |-> d.listed]
  BY DEF Made
<1> QED BY <1>1, <1>2, <1>3 DEF Made

\* An insertion adds a set and leaves the others alone.
LEMMA InsertAdds ==
    ASSUME NEW d, Made(d), NewID(d) \notin DOMAIN d.sets
    PROVE  \A name, isDefault :
              /\ DOMAIN Insert(d, name, isDefault).sets = DOMAIN d.sets \cup {NewID(d)}
              /\ \A s \in DOMAIN d.sets : Insert(d, name, isDefault).sets[s] = d.sets[s]
BY DEF Insert, Made

\* And the tiles.
LEMMA InsertLeaves ==
    ASSUME NEW d, Made(d)
    PROVE  \A name, isDefault : /\ Insert(d, name, isDefault).tiles = d.tiles
                               /\ Insert(d, name, isDefault).listed = d.listed
BY DEF Insert, Made

\* It is made of the same parts.
LEMMA InsertMade == ASSUME NEW d, Made(d), NEW name, NEW isDefault PROVE Made(Insert(d, name, isDefault))
<1> DEFINE new == [s \in DOMAIN d.sets \cup {NewID(d)} |->
                     IF s = NewID(d) THEN [name |-> name, isDefault |-> isDefault] ELSE d.sets[s]]
<1>1. Insert(d, name, isDefault) = [d EXCEPT !.sets = new]
  BY DEF Insert
<1> HIDE DEF new
<1> QED BY <1>1 DEF Made

\* A database with another table of rows of SetTiles and other tiles.
LEMMA WithTiles ==
    ASSUME NEW d, Made(d), NEW H, NEW L
    PROVE  LET f == [d EXCEPT !.tiles = @ \cup H, !.listed = @ \cup L]
           IN  f.tiles = d.tiles \cup H /\ f.sets = d.sets /\ f.listed = d.listed \cup L
<1> DEFINE g == [d EXCEPT !.tiles = d.tiles \cup H]
<1>1. g = [tiles |-> d.tiles \cup H, sets |-> d.sets, listed |-> d.listed]
  BY DEF Made
<1> HIDE DEF g
<1>2. [g EXCEPT !.listed = d.listed \cup L]
        = [tiles |-> d.tiles \cup H, sets |-> d.sets, listed |-> d.listed \cup L]
  BY <1>1
<1> QED BY <1>2 DEF Made, g

\* It is made of the same parts.
LEMMA WithTilesMade ==
    ASSUME NEW d, Made(d), NEW H, NEW L
    PROVE  Made([d EXCEPT !.tiles = @ \cup H, !.listed = @ \cup L])
<1> DEFINE g == [d EXCEPT !.tiles = d.tiles \cup H]
<1>1. g = [tiles |-> d.tiles \cup H, sets |-> d.sets, listed |-> d.listed]
  BY DEF Made
<1> HIDE DEF g
<1>2. [g EXCEPT !.listed = d.listed \cup L]
        = [tiles |-> d.tiles \cup H, sets |-> d.sets, listed |-> d.listed \cup L]
  BY <1>1
<1> QED BY <1>2 DEF Made, g

\* Bounds grow.
LEMMA BoundGrows ==
    ASSUME NEW n \in Nat, NEW S, S \subseteq 1..n, NEW x \in Nat \ {0}
    PROVE  \E m \in Nat : S \cup {x} \subseteq 1..m
<1>1. S \cup {x} \subseteq 1..(n + x) /\ n + x \in Nat
  OBVIOUS
<1> QED BY <1>1

\* An insertion under a name that is not in use leaves a database.
LEMMA InsertKeeps ==
    ASSUME NEW d, Base(d), NEW name \in TName, name \notin InUse(d), NEW isDefault \in BOOLEAN
    PROVE  Base(Insert(d, name, isDefault))
<1> DEFINE f == Insert(d, name, isDefault)
<1>1. PICK n \in Nat : DOMAIN d.sets \subseteq 1..n
  BY DEF Base
<1>2. /\ NewID(d) \in Nat \ {0} /\ NewID(d) \notin DOMAIN d.sets
  BY <1>1, NewIDIs
<1>3. /\ Made(f) /\ f.tiles = d.tiles /\ f.listed = d.listed
      /\ DOMAIN f.sets = DOMAIN d.sets \cup {NewID(d)}
      /\ f.sets[NewID(d)] = [name |-> name, isDefault |-> isDefault]
      /\ \A s \in DOMAIN d.sets : f.sets[s] = d.sets[s]
  BY <1>2, InsertIs, InsertMade DEF Base
<1> HIDE DEF f
<1>4. \E m \in Nat : DOMAIN f.sets \subseteq 1..m
  <2>1. \E m \in Nat : DOMAIN d.sets \cup {NewID(d)} \subseteq 1..m
    <3>1. \A S : S \subseteq 1..n => \E m \in Nat : S \cup {NewID(d)} \subseteq 1..m
      BY <1>2, BoundGrows
    <3> QED BY <1>1, <3>1
  <2> QED BY <1>3, <2>1
<1>5. \A s \in DOMAIN f.sets : f.sets[s] \in TRow
  BY <1>3 DEF Base, TRow
<1>6. \A s, t \in DOMAIN f.sets : f.sets[s].name = f.sets[t].name => s = t
  <2>1. \A s \in DOMAIN d.sets : d.sets[s].name # name
    BY DEF InUse
  <2>2. f.sets[NewID(d)].name = name
    BY <1>3
  <2> QED BY <1>3, <2>1, <2>2 DEF Base
<1>7. f.listed \subseteq f.tiles \X (DOMAIN f.sets \cup {1})
  BY <1>3 DEF Base
<1>8. f.tiles \subseteq Hash
  BY <1>3 DEF Base
<1> QED BY <1>3, <1>4, <1>5, <1>6, <1>7, <1>8 DEF Base, f

\* The completed tables are a database with the same tiles.
LEMMA DefaultKeeps ==
    ASSUME NEW d, Base(d)
    PROVE  /\ Base(WithDefault(d)) /\ WithDefault(d).tiles = d.tiles
           /\ WithDefault(d).listed = d.listed
<1>1. DefaultName \in TName
  <2>1. "Default Tile Set" \in Words
    BY DEF Words
  <2>2. \A x \in Words : <<x>> \in Seq(Words)
    OBVIOUS
  <2> QED BY <2>1, <2>2, Zenon DEF DefaultName, TName
<1>2. Made(d)
  BY DEF Base
<1>3. CASE DefaultName \in InUse(d)
  BY <1>3 DEF WithDefault
<1>4. CASE DefaultName \notin InUse(d)
  <2>1. WithDefault(d) = Insert(d, DefaultName, TRUE)
    BY <1>4 DEF WithDefault
  <2>2. Base(Insert(d, DefaultName, TRUE))
    BY <1>1, <1>4, InsertKeeps, TRUE \in BOOLEAN
  <2>3. /\ Insert(d, DefaultName, TRUE).tiles = d.tiles
        /\ Insert(d, DefaultName, TRUE).listed = d.listed
    BY <1>2, InsertLeaves, Zenon
  <2> QED BY <2>1, <2>2, <2>3
<1> QED BY <1>3, <1>4

\* What the user writes is a name, and so is a name with a number behind it.
LEMMA NamesAre ==
    /\ \A name \in Names : name \in TName
    /\ \A name \in TName, k \in Int : Append(name, k) \in TName
<1>1. ASSUME NEW S, NEW name \in Names, name \in Seq(S) PROVE name \in TName
  <2>1. \A i \in 1..Len(name) : name[i] \in ToSet(name)
    BY <1>1 DEF ToSet
  <2>2. \A i \in 1..Len(name) : name[i] \in Words
    BY <2>1 DEF Words
  <2>3. name \in [1..Len(name) -> Words] /\ Len(name) \in Nat
    BY <1>1, <2>2
  <2> QED BY <2>3 DEF TName
<1>2. \A name \in Names : name \in Seq(STRING)
  BY ManagerAssumption, Zenon
<1>3. \A name \in Names : name \in TName
  BY <1>1, <1>2, Zenon
<1>4. Int \subseteq Words
  BY DEF Words
<1>5. \A name \in TName, k \in Int : Append(name, k) \in TName
  BY <1>4 DEF TName
<1> QED BY <1>3, <1>5

\* The empty database is one, and so is the one of a new file.
LEMMA EmptyBase == Base(Empty) /\ Base(WithDefault(Empty))
<1>1. DOMAIN Empty.sets = {}
  BY DEF Empty
<1>2. Made(Empty) /\ Empty.tiles = {} /\ Empty.listed = {}
  BY DEF Empty, Made
<1>3. Base(Empty)
  <2>1. 0 \in Nat
    OBVIOUS
  <2> QED BY <1>1, <1>2, <2>1 DEF Base
<1> QED BY <1>3, DefaultKeeps

\* What a deletion leaves.
LEMMA DeletedIs ==
    ASSUME NEW d, NEW s
    PROVE  /\ DOMAIN Deleted(d, s).sets = DOMAIN d.sets \ {s}
           /\ \A t \in DOMAIN d.sets \ {s} : Deleted(d, s).sets[t] = d.sets[t]
           /\ Deleted(d, s).tiles = d.tiles \ UniqueTo(d, s)
           /\ Deleted(d, s).listed = {p \in d.listed : p[2] # s}
BY DEF Deleted, Restrict

\* A deletion leaves a database.
LEMMA DeletedKeeps == ASSUME NEW d, Base(d), NEW s PROVE Base(Deleted(d, s))
<1> DEFINE f == Deleted(d, s)
<1>1. /\ f.tiles = d.tiles \ UniqueTo(d, s) /\ f.listed = {p \in d.listed : p[2] # s}
      /\ DOMAIN f.sets = DOMAIN d.sets \ {s}
      /\ \A t \in DOMAIN d.sets \ {s} : f.sets[t] = d.sets[t]
  BY DeletedIs
<1>0. Made(f)
  BY DEF Deleted, Made
<1> HIDE DEF f
<1>2. f.listed \subseteq f.tiles \X (DOMAIN f.sets \cup {1})
  <2>1. SUFFICES ASSUME NEW p \in d.listed, p[2] # s
                 PROVE  p \in f.tiles \X (DOMAIN f.sets \cup {1})
    BY <1>1
  <2>2. p \in d.tiles \X (DOMAIN d.sets \cup {1})
    BY DEF Base
  <2>3. p[1] \in d.tiles /\ p[2] \in DOMAIN d.sets \cup {1} /\ p = <<p[1], p[2]>>
    BY <2>2
  <2>4. p[1] \notin UniqueTo(d, s)
    <3>1. SUFFICES ASSUME p[1] \in UniqueTo(d, s) PROVE FALSE
      OBVIOUS
    <3>2. {q \in d.listed : q[1] = p[1]} = {<<p[1], s>>}
      BY <3>1 DEF UniqueTo
    <3>3. p = <<p[1], s>>
      BY <3>2
    <3> QED BY <2>1, <3>3
  <2>5. p[1] \in f.tiles /\ p[2] \in DOMAIN f.sets \cup {1}
    BY <1>1, <2>1, <2>3, <2>4
  <2> QED BY <2>3, <2>5
<1>3. \E n \in Nat : DOMAIN f.sets \subseteq 1..n
  BY <1>1 DEF Base
<1>4. f.tiles \subseteq Hash
  BY <1>1 DEF Base
<1>5. \A t \in DOMAIN f.sets : f.sets[t] \in TRow
  BY <1>1 DEF Base
<1>6. \A a, b \in DOMAIN f.sets : f.sets[a].name = f.sets[b].name => a = b
  BY <1>1 DEF Base
<1>7. Base(f)
  BY <1>0, <1>1, <1>2, <1>3, <1>4, <1>5, <1>6 DEF Base
<1> QED BY <1>7 DEF f


\* Numbers behind a name make different names.
LEMMA NumbersDiffer ==
    \A name \in TName : \A i, j \in Int : Append(name, i) = Append(name, j) => i = j
<1> SUFFICES ASSUME NEW name \in TName, NEW i \in Int, NEW j \in Int,
                    Append(name, i) = Append(name, j)
             PROVE  i = j
  OBVIOUS
<1>1. i \in Words /\ j \in Words /\ name \in Seq(Words)
  BY DEF Words, TName
<1>2. Append(name, i)[Len(name) + 1] = i /\ Append(name, j)[Len(name) + 1] = j
  BY <1>1, AppendProperties
<1> QED BY <1>2

\* The name that is looked for is found: not in use, and a name.
LEMMA FreeNameIs ==
    ASSUME NEW d, Base(d), NEW name \in TName
    PROVE  FreeName(d, name) \in TName /\ FreeName(d, name) \notin InUse(d)
<1> DEFINE D == DOMAIN d.sets
           n == Cardinality(D)
           free == {k \in 1..(n + 1) : Append(name, k) \notin InUse(d)}
<1>1. IsFiniteSet(D) /\ n \in Nat
  <2>1. PICK m \in Nat : D \subseteq 1..m
    BY DEF Base
  <2>2. IsFiniteSet(1..m)
    BY FS_Interval
  <2>3. IsFiniteSet(D)
    BY <2>1, <2>2, FS_Subset
  <2> QED BY <2>3, FS_CardinalityType
<1>2. IsFiniteSet(InUse(d)) /\ Cardinality(InUse(d)) <= n
  <2> DEFINE f == [s \in D |-> d.sets[s].name]
  <2>1. f \in Surjection(D, InUse(d))
    BY DEF InUse, Surjection
  <2> HIDE DEF f
  <2> QED BY <1>1, <2>1, FS_Surjection
<1>3. \E k \in 1..(n + 1) : Append(name, k) \notin InUse(d)
  <2> DEFINE f == [k \in 1..(n + 1) |-> Append(name, k)]
  <2>1. f \in [1..(n + 1) -> {Append(name, k) : k \in 1..(n + 1)}]
    OBVIOUS
  <2>2. \A i, j \in 1..(n + 1) : f[i] = f[j] => i = j
    BY NumbersDiffer, <1>1
  <2>3. \A k \in 1..(n + 1) : f[k] = Append(name, k)
    OBVIOUS
  <2> HIDE DEF f, n
  <2>4. \E k \in 1..(n + 1) : f[k] \notin InUse(d)
    BY <1>1, <1>2, <2>1, <2>2, Unused
  <2> QED BY <2>3, <2>4
<1>4. free # {} /\ free \in SUBSET Nat
  BY <1>1, <1>3
<1>5. Min(free) \in free
  BY <1>4, LeastIs
<1>6. FreeName(d, name) = IF name \notin InUse(d) THEN name ELSE Append(name, Min(free))
  BY DEF FreeName
<1>7. Append(name, Min(free)) \notin InUse(d) /\ Append(name, Min(free)) \in TName
  BY <1>5, NamesAre
<1> QED BY <1>6, <1>7

\* What f has of d, and of the tiles H that came
Grown(d, f, H) ==
    /\ d.tiles \cup H \subseteq f.tiles /\ d.listed \subseteq f.listed
    /\ \A s \in DOMAIN d.sets : s \in DOMAIN f.sets /\ f.sets[s] = d.sets[s]
    /\ \A h \in f.tiles \ d.tiles : \E s \in DOMAIN f.sets : <<h, s>> \in f.listed

\* Growing goes on.
LEMMA GrownOn ==
    ASSUME NEW d, NEW f, NEW g, NEW H, NEW K, Grown(d, f, H), Grown(f, g, K)
    PROVE  Grown(d, g, H \cup K)
<1>1. d.tiles \cup (H \cup K) \subseteq g.tiles /\ d.listed \subseteq g.listed
  BY DEF Grown
<1>2. \A s \in DOMAIN d.sets : s \in DOMAIN g.sets /\ g.sets[s] = d.sets[s]
  BY DEF Grown
<1>3. ASSUME NEW h \in g.tiles \ d.tiles PROVE \E s \in DOMAIN g.sets : <<h, s>> \in g.listed
  <2>1. CASE h \in f.tiles
    <3>1. PICK s \in DOMAIN f.sets : <<h, s>> \in f.listed
      BY <1>3, <2>1 DEF Grown
    <3> QED BY <3>1 DEF Grown
  <2>2. CASE h \notin f.tiles
    BY <1>3, <2>2 DEF Grown
  <2> QED BY <2>1, <2>2
<1> QED BY <1>1, <1>2, <1>3 DEF Grown

\* Tiles that are listed for a set that is there, or for the one that is taken for the
\* default one, leave a database.
LEMMA TilesKeep ==
    ASSUME NEW d, Base(d), NEW H \in SUBSET Hash, NEW s \in DOMAIN d.sets \cup {1}
    PROVE  Base([d EXCEPT !.tiles = @ \cup H, !.listed = @ \cup (H \X {s})])
<1> DEFINE f == [d EXCEPT !.tiles = @ \cup H, !.listed = @ \cup (H \X {s})]
<1>1. Made(d)
  BY DEF Base
<1>2. /\ f.tiles = d.tiles \cup H /\ f.sets = d.sets
      /\ f.listed = d.listed \cup (H \X {s})
  BY <1>1, WithTiles
<1>0. Made(f)
  BY <1>1, WithTilesMade
<1> HIDE DEF f
<1>3. f.listed \subseteq f.tiles \X (DOMAIN f.sets \cup {1})
  BY <1>2 DEF Base
<1>4. f.tiles \subseteq Hash
  BY <1>2 DEF Base
<1>5. Base(f)
  BY <1>0, <1>2, <1>3, <1>4 DEF Base
<1> QED BY <1>5 DEF f

\* The tiles that a set of the file brings are tiles of the file.
LEMMA FoundAreTiles == \A s : FoundTiles(s) \subseteq file.tiles
BY DEF FoundTiles, UniqueTo

\* The import of one set leaves a database, which has grown by the tiles of the set.
LEMMA MergeKeeps ==
    ASSUME NEW d, Base(d), Base(file), NEW s \in DOMAIN file.sets
    PROVE  /\ Base(MergeSet(d, s))
           /\ 1 \in DOMAIN d.sets => Grown(d, MergeSet(d, s), FoundTiles(s))
<1> DEFINE name == FreeName(d, file.sets[s].name)
           isDefault == file.sets[s].isDefault
           into == IF isDefault THEN d ELSE Insert(d, name, FALSE)
           id == IF isDefault THEN 1 ELSE NewID(d)
           saved == FoundTiles(s) \ d.tiles
           more == [into EXCEPT !.tiles = @ \cup saved, !.listed = @ \cup (saved \X {id})]
<1>1. MergeSet(d, s) = IF saved = {} /\ ~isDefault THEN Deleted(into, id) ELSE more
  BY DEF MergeSet, DropsSet
<1>2. file.sets[s].name \in TName /\ isDefault \in BOOLEAN
  BY DEF Base, TRow
<1>3. name \in TName /\ name \notin InUse(d)
  BY <1>2, FreeNameIs
<1>4. PICK n \in Nat : DOMAIN d.sets \subseteq 1..n
  BY DEF Base
<1>5. /\ NewID(d) \notin DOMAIN d.sets /\ NewID(d) \in Nat \ {0}
      /\ 1 \in DOMAIN d.sets => NewID(d) # 1
  BY <1>4, NewIDIs
<1>6. Made(d)
  BY DEF Base
<1>7. ASSUME ~isDefault
      PROVE  /\ Base(into) /\ into.tiles = d.tiles /\ into.listed = d.listed
             /\ DOMAIN into.sets = DOMAIN d.sets \cup {NewID(d)}
             /\ \A t \in DOMAIN d.sets : into.sets[t] = d.sets[t]
  <2>1. into = Insert(d, name, FALSE)
    BY <1>7
  <2>2. Base(Insert(d, name, FALSE))
    BY <1>3, InsertKeeps
  <2>3. /\ DOMAIN Insert(d, name, FALSE).sets = DOMAIN d.sets \cup {NewID(d)}
        /\ \A t \in DOMAIN d.sets : Insert(d, name, FALSE).sets[t] = d.sets[t]
    <3>1. NewID(d) \notin DOMAIN d.sets
      BY <1>5
    <3>2. \A nm, b :
              /\ DOMAIN Insert(d, nm, b).sets = DOMAIN d.sets \cup {NewID(d)}
              /\ \A t \in DOMAIN d.sets : Insert(d, nm, b).sets[t] = d.sets[t]
      BY <1>6, <3>1, InsertAdds
    <3> QED BY <3>2, Zenon
  <2>4. /\ Insert(d, name, FALSE).tiles = d.tiles /\ Insert(d, name, FALSE).listed = d.listed
    BY <1>6, InsertLeaves, Zenon
  <2> QED BY <2>1, <2>2, <2>3, <2>4, Zenon
<1>8. ASSUME isDefault PROVE into = d /\ id = 1
  BY <1>8
<1>9. saved \in SUBSET Hash
  BY FoundAreTiles DEF Base
<1>10. id \in DOMAIN into.sets \cup {1} /\ Base(into)
  BY <1>2, <1>7, <1>8
<1>11. /\ Base(more) /\ more.tiles = into.tiles \cup saved /\ more.sets = into.sets
       /\ more.listed = into.listed \cup (saved \X {id})
  <2> HIDE DEF into, id, saved
  <2>1. Made(into)
    BY <1>10 DEF Base
  <2>2. /\ more.tiles = into.tiles \cup saved /\ more.sets = into.sets
        /\ more.listed = into.listed \cup (saved \X {id})
    BY <2>1, WithTiles
  <2>3. Base(more)
    BY <1>9, <1>10, TilesKeep
  <2> QED BY <2>2, <2>3
<1>12. Base(Deleted(into, id))
  <2> HIDE DEF into, id
  <2> QED BY <1>10, DeletedKeeps
<1>13. Base(MergeSet(d, s))
  <2> HIDE DEF into, id, saved, more
  <2> QED BY <1>1, <1>11, <1>12
<1>14. ASSUME 1 \in DOMAIN d.sets, saved = {}, ~isDefault
       PROVE  Grown(d, MergeSet(d, s), FoundTiles(s))
  <2> DEFINE f == Deleted(into, id)
  <2>1. id = NewID(d)
    BY <1>14
  <2>2. /\ DOMAIN f.sets = DOMAIN into.sets \ {id}
        /\ \A t \in DOMAIN into.sets \ {id} : f.sets[t] = into.sets[t]
        /\ f.tiles = into.tiles \ UniqueTo(into, id)
        /\ f.listed = {p \in into.listed : p[2] # id}
    <3> HIDE DEF into, id
    <3> QED BY DeletedIs
  <2>3. MergeSet(d, s) = f
    BY <1>1, <1>14
  <2> HIDE DEF f, into, id, saved
  <2>4. \A p \in d.listed : p[2] # id /\ p[1] \in d.tiles
    <3>1. \A p \in d.listed : p[2] \in DOMAIN d.sets \cup {1} /\ p[1] \in d.tiles
      BY DEF Base
    <3> QED BY <1>5, <1>14, <2>1, <3>1
  <2>5. UniqueTo(into, id) = {}
    <3>1. SUFFICES ASSUME NEW h \in UniqueTo(into, id) PROVE FALSE
      OBVIOUS
    <3>2. {p \in into.listed : p[1] = h} = {<<h, id>>}
      BY <3>1 DEF UniqueTo
    <3>3. <<h, id>> \in d.listed
      BY <1>7, <1>14, <3>2
    <3> QED BY <2>4, <3>3
  <2>6. f.tiles = d.tiles /\ f.listed = d.listed /\ DOMAIN f.sets = DOMAIN d.sets
    BY <1>5, <1>7, <1>14, <2>1, <2>2, <2>4, <2>5
  <2>7. \A t \in DOMAIN d.sets : f.sets[t] = d.sets[t]
    BY <1>5, <1>7, <1>14, <2>1, <2>2
  <2>8. FoundTiles(s) \subseteq d.tiles
    BY <1>14 DEF saved
  <2> QED BY <2>3, <2>6, <2>7, <2>8 DEF Grown
<1>15. ASSUME 1 \in DOMAIN d.sets, ~(saved = {} /\ ~isDefault)
       PROVE  Grown(d, MergeSet(d, s), FoundTiles(s))
  <2>1. MergeSet(d, s) = more
    BY <1>1, <1>15
  <2>2. /\ into.tiles = d.tiles /\ into.listed = d.listed /\ id \in DOMAIN into.sets
        /\ \A t \in DOMAIN d.sets : t \in DOMAIN into.sets /\ into.sets[t] = d.sets[t]
    BY <1>2, <1>7, <1>8, <1>15
  <2> HIDE DEF more, into, id
  <2>3. /\ more.tiles = d.tiles \cup saved /\ more.listed = d.listed \cup (saved \X {id})
        /\ id \in DOMAIN more.sets
        /\ \A t \in DOMAIN d.sets : t \in DOMAIN more.sets /\ more.sets[t] = d.sets[t]
    BY <1>11, <2>2
  <2>4. \A h \in more.tiles \ d.tiles : <<h, id>> \in more.listed
    BY <2>3
  <2>5. d.tiles \cup FoundTiles(s) \subseteq more.tiles
    BY <2>3
  <2> QED BY <2>1, <2>3, <2>4, <2>5 DEF Grown
<1> QED BY <1>13, <1>14, <1>15


\* A sequence of all members of a set, each once
Enumerates(ids, S) ==
    /\ ids \in Seq(S)
    /\ \A i, j \in 1..Len(ids) : ids[i] = ids[j] => i = j
    /\ \A s \in S : \E i \in 1..Len(ids) : ids[i] = s

\* The rows of a table of sets are all of them, each once.
LEMMA RowsAre ==
    ASSUME NEW sets, NEW n \in Nat, DOMAIN sets \subseteq 1..n, NEW ids \in Rows(sets)
    PROVE  Enumerates(ids, DOMAIN sets)
<1> DEFINE m == Cardinality(DOMAIN sets)
<1>1. IsFiniteSet(DOMAIN sets) /\ m \in Nat
  <2>1. IsFiniteSet(1..n)
    BY FS_Interval
  <2>2. IsFiniteSet(DOMAIN sets)
    BY <2>1, FS_Subset
  <2> QED BY <2>2, FS_CardinalityType
<1>2. ids \in [1..m -> DOMAIN sets] /\ \A i, j \in 1..m : i < j => Before(sets, ids[i], ids[j])
  BY DEF Rows
<1>3. IsFiniteSet(1..m) /\ Cardinality(1..m) = m
  BY <1>1, FS_Interval
<1> HIDE DEF m
<1>4. ids \in Seq(DOMAIN sets) /\ Len(ids) = m
  BY <1>1, <1>2
<1>5. \A s \in DOMAIN sets : ~Before(sets, s, s)
  BY DEF Before
<1>6. \A i, j \in 1..m : ids[i] = ids[j] => i = j
  <2>1. SUFFICES ASSUME NEW i \in 1..m, NEW j \in 1..m, ids[i] = ids[j], i # j PROVE FALSE
    OBVIOUS
  <2>2. i < j \/ j < i
    BY <1>1, <2>1
  <2>3. Before(sets, ids[i], ids[i])
    BY <1>2, <2>1, <2>2
  <2> QED BY <1>2, <1>5, <2>3
<1>7. ids \in Injection(1..m, DOMAIN sets)
  BY <1>2, <1>6 DEF Injection, IsInjective
<1>8. ids \in Surjection(1..m, DOMAIN sets)
  BY <1>1, <1>3, <1>7, FS_Injection DEF m
<1>9. \A s \in DOMAIN sets : \E i \in 1..m : ids[i] = s
  BY <1>8 DEF Surjection
<1> QED BY <1>4, <1>6, <1>9 DEF Enumerates

\* ... of a database.
LEMMA RowsOfBase ==
    ASSUME NEW d, Base(d), NEW ids \in Rows(d.sets)
    PROVE  Enumerates(ids, DOMAIN d.sets)
<1>1. PICK n \in Nat : DOMAIN d.sets \subseteq 1..n
  BY DEF Base
<1> QED BY <1>1, RowsAre

\* The databases of an import, after each number of sets
Imported(ids) ==
    CHOOSE d : d = [i \in 0..Len(ids) |-> IF i = 0 THEN tables ELSE MergeSet(d[i - 1], ids[i])]

\* They are as the definition of Merged says.
LEMMA MergedSteps ==
    ASSUME NEW S, NEW ids \in Seq(S)
    PROVE  /\ Imported(ids)[0] = tables /\ Merged(ids) = Imported(ids)[Len(ids)]
           /\ \A i \in 1..Len(ids) : Imported(ids)[i] = MergeSet(Imported(ids)[i - 1], ids[i])
<1> DEFINE n == Len(ids)
           Def(f, m) == \A i \in 0..m : f[i] = IF i = 0 THEN tables ELSE MergeSet(f[i - 1], ids[i])
           Bad == {m \in 0..n : ~ \E f : Def(f, m)}
<1>1. n \in Nat
  BY LenProperties
<1>2. Bad = {}
  <2>1. SUFFICES ASSUME Bad # {} PROVE FALSE
    OBVIOUS
  <2>2. Bad \subseteq Nat
    BY <1>1
  <2> HIDE DEF Bad
  <2>3. PICK m \in Bad : \A k \in Bad : m <= k
    BY <2>1, <2>2, LeastOf
  <2>4. m \in 0..n /\ ~ \E f : Def(f, m)
    BY <2>3 DEF Bad
  <2>5. m # 0
    <3>1. Def([i \in 0..0 |-> tables], 0)
      OBVIOUS
    <3> QED BY <2>4, <3>1
  <2>6. m - 1 \in 0..n /\ m \in Nat /\ m - 1 \notin Bad
    BY <1>1, <2>3, <2>4, <2>5
  <2>7. PICK f : Def(f, m - 1)
    BY <2>6 DEF Bad
  <2> DEFINE g == [i \in 0..m |-> IF i < m THEN f[i] ELSE MergeSet(f[m - 1], ids[m])]
  <2>8. ASSUME NEW i \in 0..m
        PROVE  g[i] = IF i = 0 THEN tables ELSE MergeSet(g[i - 1], ids[i])
    <3>1. CASE i < m
      <4>1. i \in 0..(m - 1) /\ (i # 0 => i - 1 \in 0..m /\ i - 1 < m)
        BY <2>6, <3>1
      <4>2. g[i] = f[i] /\ (i # 0 => g[i - 1] = f[i - 1])
        BY <3>1, <4>1
      <4> QED BY <2>7, <4>1, <4>2
    <3>2. CASE i = m
      <4>1. m - 1 \in 0..m /\ m - 1 < m /\ m \in 0..m /\ ~(m < m)
        BY <2>5, <2>6
      <4>2. g[m - 1] = f[m - 1] /\ g[m] = MergeSet(f[m - 1], ids[m])
        BY <4>1
      <4> QED BY <2>5, <3>2, <4>2
    <3> QED BY <2>6, <3>1, <3>2
  <2>9. Def(g, m)
    BY <2>8
  <2> QED BY <2>4, <2>9
<1>3. PICK f : Def(f, n)
  <2> HIDE DEF Def
  <2>1. n \in 0..n
    BY <1>1
  <2> QED BY <1>2, <2>1
<1> DEFINE Eq(h) == h = [i \in 0..Len(ids) |-> IF i = 0 THEN tables ELSE MergeSet(h[i - 1], ids[i])]
           g == [i \in 0..n |-> f[i]]
<1>4. Eq(g)
  <2>1. \A i \in 0..n : i # 0 => i - 1 \in 0..n
    BY <1>1
  <2>2. \A i \in 0..n : g[i] = IF i = 0 THEN tables ELSE MergeSet(g[i - 1], ids[i])
    BY <1>3, <2>1
  <2> QED BY <2>2
<1>5. Eq(CHOOSE h : Eq(h))
  BY <1>4, Zenon
<1>6. Imported(ids) = CHOOSE h : Eq(h)
  BY DEF Imported
<1>7. Imported(ids) = [i \in 0..Len(ids) |->
                         IF i = 0 THEN tables ELSE MergeSet(Imported(ids)[i - 1], ids[i])]
  BY <1>5, <1>6, Zenon
<1>8. Merged(ids) = Imported(ids)[Len(ids)]
  BY DEF Merged, Imported
<1>9. 0 \in 0..n /\ \A i \in 1..n : i \in 0..n /\ i # 0
  BY <1>1
<1>10. /\ Imported(ids)[0] = tables
       /\ \A i \in 1..Len(ids) : Imported(ids)[i] = MergeSet(Imported(ids)[i - 1], ids[i])
  <2> HIDE DEF Eq, g
  <2> DEFINE M == Imported(ids)
  <2>1. M = [i \in 0..Len(ids) |-> IF i = 0 THEN tables ELSE MergeSet(M[i - 1], ids[i])]
    BY <1>7
  <2> HIDE DEF M
  <2>2. \A i \in 0..Len(ids) : M[i] = IF i = 0 THEN tables ELSE MergeSet(M[i - 1], ids[i])
    BY <2>1
  <2>3. M[0] = tables /\ \A i \in 1..Len(ids) : M[i] = MergeSet(M[i - 1], ids[i])
    BY <1>9, <2>2
  <2> QED BY <2>3 DEF M
<1> QED BY <1>8, <1>10

\* An import leaves a database, which has grown by the tiles of all the sets.
LEMMA MergedKeeps ==
    ASSUME Base(tables), Base(file), NEW ids \in Seq(DOMAIN file.sets)
    PROVE  /\ Base(Merged(ids))
           /\ 1 \in DOMAIN tables.sets =>
                Grown(tables, Merged(ids), UNION {FoundTiles(ids[j]) : j \in 1..Len(ids)})
<1> DEFINE n == Len(ids)
           M == Imported(ids)
           All(i) == UNION {FoundTiles(ids[j]) : j \in 1..i}
           Good(i) == Base(M[i]) /\ (1 \in DOMAIN tables.sets => Grown(tables, M[i], All(i)))
           Bad == {i \in 0..n : ~Good(i)}
<1>1. n \in Nat /\ \A i \in 1..n : ids[i] \in DOMAIN file.sets
  BY LenProperties, ElementOfSeq
<1>2. M[0] = tables /\ Merged(ids) = M[n] /\ \A i \in 1..n : M[i] = MergeSet(M[i - 1], ids[i])
  BY MergedSteps
<1> HIDE DEF M
<1>3. Bad = {}
  <2>1. SUFFICES ASSUME Bad # {} PROVE FALSE
    OBVIOUS
  <2>2. Bad \subseteq Nat
    BY <1>1
  <2> HIDE DEF Bad
  <2>3. PICK m \in Bad : \A k \in Bad : m <= k
    BY <2>1, <2>2, LeastOf
  <2>4. m \in 0..n /\ ~Good(m)
    BY <2>3 DEF Bad
  <2>5. m # 0
    <3>1. Grown(tables, tables, {}) /\ All(0) = {}
      BY DEF Grown
    <3>2. Good(0)
      BY <1>2, <3>1
    <3> QED BY <2>4, <3>2
  <2>6. m - 1 \in 0..n /\ m \in 1..n /\ m - 1 \notin Bad
    BY <1>1, <2>2, <2>3, <2>4, <2>5
  <2>7. Good(m - 1)
    BY <2>6 DEF Bad
  <2>8. /\ Base(M[m - 1]) /\ M[m] = MergeSet(M[m - 1], ids[m]) /\ ids[m] \in DOMAIN file.sets
    BY <1>1, <1>2, <2>6, <2>7
  <2>9. /\ Base(M[m])
        /\ 1 \in DOMAIN M[m - 1].sets => Grown(M[m - 1], M[m], FoundTiles(ids[m]))
    BY <2>8, MergeKeeps
  <2>10. All(m) = All(m - 1) \cup FoundTiles(ids[m])
    <3>1. \A j : j \in 1..m <=> j \in 1..(m - 1) \/ j = m
      BY <1>1, <2>6
    <3> QED BY <3>1
  <2>11. ASSUME 1 \in DOMAIN tables.sets PROVE Grown(tables, M[m], All(m))
    <3> HIDE DEF All
    <3>1. Grown(tables, M[m - 1], All(m - 1))
      BY <2>7, <2>11
    <3>2. 1 \in DOMAIN M[m - 1].sets
      BY <2>11, <3>1 DEF Grown
    <3>3. Grown(M[m - 1], M[m], FoundTiles(ids[m]))
      BY <2>9, <3>2
    <3> QED BY <2>10, <3>1, <3>3, GrownOn
  <2> QED BY <2>4, <2>9, <2>11
<1>4. Good(n)
  <2> HIDE DEF Good
  <2>1. n \in 0..n
    BY <1>1
  <2> QED BY <1>3, <2>1
<1> QED BY <1>2, <1>4


-----------------------------------------------------------------------------
(* The types of TileSetManager *)

SetIds == 1..MaxSets
Objs == Nat \ {0}
TObject == [id : SetIds, name : TName, isDefault : BOOLEAN, deleting : BOOLEAN]
TTask ==
    [kind : {"fetch", "reset"}] \cup [kind : {"create"}, name : TName]
    \cup [kind : {"delete"}, id : SetIds] \cup [kind : {"rename"}, id : SetIds, name : TName]
    \cup [kind : {"export"}, sets : Seq(Objs)] \cup [kind : {"import"}, replace : BOOLEAN]
TSignal ==
    [kind : {"fetched", "saved"}, set : TObject] \cup [kind : {"deleted"}, id : SetIds]
    \cup [kind : {"reset", "completed"}]

\* What is stored, what is in memory and what is on its way
DataTypes ==
    /\ Base(tables) /\ DOMAIN tables.sets \subseteq SetIds
    /\ Base(file) /\ file.listed \subseteq file.tiles \X DOMAIN file.sets /\ FileIsPartition
ObjectTypes(objs) ==
    /\ IsFiniteSet(DOMAIN objs) /\ DOMAIN objs \subseteq Objs
    /\ \A o \in DOMAIN objs : objs[o] \in TObject
WayTypes ==
    /\ tasks \in Seq(TTask) /\ signals \in Seq(TSignal) /\ exporting \in Seq(Objs)
    /\ list \in Seq(Objs) /\ ObjectTypes(objects)
    /\ action \in {"none", "importing", "exporting", "done"}

\* The objects of the list are there, each in one place
ListIsThere ==
    /\ \A i \in 1..Len(list) : list[i] \in DOMAIN objects
    /\ \A i, j \in 1..Len(list) : list[i] = list[j] => i = j

\* What the kind of a task or a signal says of its other parts.
LEMMA TasksAre ==
    \A t \in TTask :
        /\ t.kind \in {"fetch", "reset", "create", "delete", "rename", "export", "import"}
        /\ t.kind = "create" => t.name \in TName
        /\ t.kind = "delete" => t.id \in SetIds
        /\ t.kind = "rename" => t.id \in SetIds /\ t.name \in TName
        /\ t.kind = "export" => t.sets \in Seq(Objs)
        /\ t.kind = "import" => t.replace \in BOOLEAN
BY DEF TTask

\* The tasks there are.
LEMMA TasksMade ==
    /\ [kind |-> "fetch"] \in TTask /\ [kind |-> "reset"] \in TTask
    /\ \A name \in TName : [kind |-> "create", name |-> name] \in TTask
    /\ \A s \in SetIds : [kind |-> "delete", id |-> s] \in TTask
    /\ \A s \in SetIds, name \in TName : [kind |-> "rename", id |-> s, name |-> name] \in TTask
    /\ \A q \in Seq(Objs) : [kind |-> "export", sets |-> q] \in TTask
    /\ \A replace \in BOOLEAN : [kind |-> "import", replace |-> replace] \in TTask
BY DEF TTask

\* What the kind of a signal says.
LEMMA SignalsAre ==
    \A x \in TSignal :
        /\ x.kind \in {"fetched", "saved", "deleted", "reset", "completed"}
        /\ x.kind \in {"fetched", "saved"} => x.set \in TObject
        /\ x.kind = "deleted" => x.id \in SetIds
BY DEF TSignal

\* The signals there are.
LEMMA SignalsMade ==
    /\ [kind |-> "reset"] \in TSignal /\ [kind |-> "completed"] \in TSignal
    /\ \A s \in SetIds : [kind |-> "deleted", id |-> s] \in TSignal
    /\ \A o \in TObject : /\ [kind |-> "fetched", set |-> o] \in TSignal
                          /\ [kind |-> "saved", set |-> o] \in TSignal
BY DEF TSignal

\* Objects of the list are objects.
LEMMA ListedAre ==
    ASSUME WayTypes, ListIsThere, NEW i \in DOMAIN list
    PROVE  /\ i \in 1..Len(list) /\ list[i] \in DOMAIN objects /\ list[i] \in Objs
           /\ Object(i) = objects[list[i]] /\ Object(i) \in TObject
<1>1. i \in 1..Len(list) /\ list[i] \in Objs
  BY LenProperties, ElementOfSeq DEF WayTypes
<1> QED BY <1>1 DEF WayTypes, ObjectTypes, ListIsThere, Object

\* An object made of a row is one.
LEMMA RowsMakeObjects ==
    ASSUME NEW d, Base(d), NEW s \in DOMAIN d.sets, s \in SetIds
    PROVE  SetObject(d, s) \in TObject /\ SetObject(d, s).id = s
<1>1. d.sets[s] \in TRow
  BY DEF Base
<1> QED BY <1>1 DEF SetObject, TObject, TRow

\* One more signal of what was done, one task less.
LEMMA OneDone ==
    ASSUME NEW kind, Dequeue(kind), tasks \in Seq(TTask)
    PROVE  /\ tasks # <<>> /\ tasks' = Tail(tasks) /\ tasks' \in Seq(TTask)
           /\ Len(tasks) \in Nat \ {0} /\ Len(tasks') = Len(tasks) - 1
           /\ \A i \in 1..Len(tasks') : tasks'[i] = tasks[i + 1]
           /\ Head(tasks) \in TTask /\ tasks[1] = Head(tasks) /\ Head(tasks).kind = kind
           /\ exporting = <<>>
<1>1. exporting = <<>> /\ tasks # <<>> /\ Head(tasks).kind = kind /\ tasks' = Tail(tasks)
  BY DEF Dequeue
<1>2. /\ Head(tasks) \in TTask /\ Tail(tasks) \in Seq(TTask) /\ Len(Tail(tasks)) = Len(tasks) - 1
      /\ \A i \in 1..Len(Tail(tasks)) : Tail(tasks)[i] = tasks[i + 1]
  BY <1>1, HeadTailProperties
<1>3. Len(tasks) \in Nat \ {0}
  BY <1>1, EmptySeq
<1>4. tasks[1] = Head(tasks)
  OBVIOUS
<1> QED BY <1>1, <1>2, <1>3, <1>4

\* One signal less.
LEMMA OneHandled ==
    ASSUME NEW kind, Signalled(kind), signals \in Seq(TSignal)
    PROVE  /\ signals # <<>> /\ signals' = Tail(signals) /\ signals' \in Seq(TSignal)
           /\ Len(signals) \in Nat \ {0} /\ Len(signals') = Len(signals) - 1
           /\ \A i \in 1..Len(signals') : signals'[i] = signals[i + 1]
           /\ Head(signals) \in TSignal /\ signals[1] = Head(signals) /\ Head(signals).kind = kind
<1>1. signals # <<>> /\ Head(signals).kind = kind /\ signals' = Tail(signals)
  BY DEF Signalled
<1>2. /\ Head(signals) \in TSignal /\ Tail(signals) \in Seq(TSignal)
      /\ Len(Tail(signals)) = Len(signals) - 1
      /\ \A i \in 1..Len(Tail(signals)) : Tail(signals)[i] = signals[i + 1]
  BY <1>1, HeadTailProperties
<1>3. Len(signals) \in Nat \ {0}
  BY <1>1, EmptySeq
<1>4. signals[1] = Head(signals)
  OBVIOUS
<1> QED BY <1>1, <1>2, <1>3, <1>4

\* What is pointed to is finite in number.
LEMMA PointedFinite ==
    ASSUME NEW q \in Seq(TTask), NEW e \in Seq(Objs)
    PROVE  IsFiniteSet(Pointed(q, e))
<1>1. \A s \in Seq(Objs) : IsFiniteSet(ToSet(s))
  <2> SUFFICES ASSUME NEW s \in Seq(Objs) PROVE IsFiniteSet(ToSet(s))
    OBVIOUS
  <2>1. Len(s) \in Nat /\ DOMAIN s = 1..Len(s) /\ s \in [1..Len(s) -> Objs]
    BY LenProperties
  <2>2. s \in Surjection(1..Len(s), ToSet(s))
    BY <2>1 DEF ToSet, Surjection
  <2>3. IsFiniteSet(1..Len(s))
    BY <2>1, FS_Interval
  <2> QED BY <2>2, <2>3, FS_Surjection
<1> DEFINE J == {j \in DOMAIN q : q[j].kind = "export"}
           f == [i \in J |-> ToSet(q[i].sets)]
           R == {ToSet(q[i].sets) : i \in J}
<1>2. IsFiniteSet(J)
  <2>1. Len(q) \in Nat /\ DOMAIN q = 1..Len(q)
    BY LenProperties
  <2>2. IsFiniteSet(1..Len(q))
    BY <2>1, FS_Interval
  <2>3. J \in SUBSET (1..Len(q))
    BY <2>1
  <2> QED BY <2>2, <2>3, FS_Subset
<1>3. IsFiniteSet(R)
  <2>1. f \in Surjection(J, R)
    BY DEF Surjection
  <2> HIDE DEF f, J, R
  <2> QED BY <1>2, <2>1, FS_Surjection
<1>4. \A T \in R : IsFiniteSet(T)
  <2>1. \A i \in J : q[i].sets \in Seq(Objs)
    <3>1. \A i \in DOMAIN q : q[i] \in TTask
      BY LenProperties, ElementOfSeq
    <3> QED BY <3>1, TasksAre
  <2> QED BY <1>1, <2>1
<1>5. IsFiniteSet(UNION R)
  BY <1>3, <1>4, FS_UNION
<1>6. IsFiniteSet(ToSet(e))
  BY <1>1
<1>7. Pointed(q, e) = ToSet(e) \cup UNION R
  BY DEF Pointed
<1> HIDE DEF R
<1> QED BY <1>5, <1>6, <1>7, FS_Union

\* A place that is looked for is found.
LEMMA FreshIs ==
    ASSUME NEW used, IsFiniteSet(used)
    PROVE  LET o == Min(1..(Cardinality(used) + 1) \ used) IN o \in Objs /\ o \notin used
<1> DEFINE n == Cardinality(used)
           free == 1..(n + 1) \ used
           f == [k \in 1..(n + 1) |-> k]
<1>1. n \in Nat
  BY FS_CardinalityType
<1>2. \E k \in 1..(n + 1) : f[k] \notin used
  <2>1. f \in [1..(n + 1) -> Nat] /\ \A i, j \in 1..(n + 1) : f[i] = f[j] => i = j
    BY <1>1
  <2>2. n <= n
    BY <1>1
  <2> HIDE DEF f
  <2> QED BY <1>1, <2>1, <2>2, Unused
<1>3. free # {} /\ free \in SUBSET Nat
  BY <1>1, <1>2
<1>4. Min(free) \in free
  BY <1>3, LeastIs
<1>5. Min(free) \in Objs /\ Min(free) \notin used
  BY <1>1, <1>4 DEF Objs
<1> QED BY <1>5


\* What the two threads do not touch keeps its types.
LEMMA DataSame == DataTypes /\ UNCHANGED <<tables, file>> => DataTypes'
BY DEF DataTypes, FileIsPartition, UniqueTo

\* All of it
LocalTypes == DataTypes /\ WayTypes /\ ListIsThere

\* One more task.
LEMMA OneTask ==
    ASSUME tasks \in Seq(TTask), NEW t \in TTask
    PROVE  /\ Enqueued(tasks, t) \in Seq(TTask) /\ Len(Enqueued(tasks, t)) = Len(tasks) + 1
           /\ \A i \in 1..Len(tasks) : Enqueued(tasks, t)[i] = tasks[i]
           /\ Enqueued(tasks, t)[Len(tasks) + 1] = t /\ Len(tasks) \in Nat
BY AppendProperties, LenProperties DEF Enqueued

\* A list that is asked for anew.
LEMMA LoadTypes ==
    ASSUME WayTypes, ListIsThere, NEW sigs, Load(sigs), UNCHANGED exporting,
           signals' \in Seq(TSignal), action' \in {"none", "importing", "exporting", "done"}
    PROVE  WayTypes' /\ ListIsThere'
<1>1. list' = <<>> /\ list' \in Seq(Objs) /\ Len(list') = 0
  BY EmptySeq DEF Load
<1>2. tasks' \in Seq(TTask)
  BY TasksMade, OneTask DEF Load, WayTypes
<1>3. ObjectTypes(objects')
  <2> DEFINE D == DOMAIN objects \cap Pointed(tasks, exporting)
  <2>1. DOMAIN objects' = D /\ \A o \in D : objects'[o] = objects[o]
    BY DEF Load, Restrict
  <2>2. D \in SUBSET (DOMAIN objects)
    OBVIOUS
  <2>3. IsFiniteSet(D)
    BY <2>2, FS_Subset DEF WayTypes, ObjectTypes
  <2> HIDE DEF D
  <2> QED BY <2>1, <2>2, <2>3 DEF WayTypes, ObjectTypes
<1>4. ListIsThere'
  BY <1>1 DEF ListIsThere
<1> QED BY <1>1, <1>2, <1>3, <1>4 DEF WayTypes

\* loadTileSets keeps the types.
LEMMA LoadTileSetsTypes == LocalTypes /\ LoadTileSets => LocalTypes'
<1> SUFFICES ASSUME LocalTypes, LoadTileSets PROVE LocalTypes'
  OBVIOUS
<1>1. Load(signals) /\ UNCHANGED <<tables, file, exporting, signals, action>>
  BY DEF LoadTileSets
<1>2. signals' \in Seq(TSignal) /\ action' \in {"none", "importing", "exporting", "done"}
  BY <1>1 DEF LocalTypes, WayTypes
<1>3. WayTypes' /\ ListIsThere'
  BY <1>1, <1>2, LoadTypes DEF LocalTypes
<1> QED BY <1>1, <1>3, DataSame DEF LocalTypes

\* So does _resetCompleted, ...
LEMMA HandleResetTypes == LocalTypes /\ HandleReset => LocalTypes'
<1> SUFFICES ASSUME LocalTypes, HandleReset PROVE LocalTypes'
  OBVIOUS
<1>1. /\ Load(Tail(signals)) /\ Signalled("reset")
      /\ UNCHANGED <<tables, file, exporting, action>>
  BY DEF HandleReset
<1>2. signals' \in Seq(TSignal) /\ action' \in {"none", "importing", "exporting", "done"}
  BY <1>1, OneHandled DEF LocalTypes, WayTypes
<1>3. WayTypes' /\ ListIsThere'
  BY <1>1, <1>2, LoadTypes DEF LocalTypes
<1> QED BY <1>1, <1>3, DataSame DEF LocalTypes

\* ... and _actionCompleted.
LEMMA HandleCompletedTypes == LocalTypes /\ HandleCompleted => LocalTypes'
<1> SUFFICES ASSUME LocalTypes, HandleCompleted PROVE LocalTypes'
  OBVIOUS
<1>1. /\ Signalled("completed") /\ action' = "done"
      /\ UNCHANGED <<tables, file, exporting>>
      /\ Load(Tail(signals)) \/ UNCHANGED <<objects, list, tasks>>
  BY DEF HandleCompleted
<1>2. signals' \in Seq(TSignal)
  BY <1>1, OneHandled DEF LocalTypes, WayTypes
<1>3. CASE Load(Tail(signals))
  <2>1. WayTypes' /\ ListIsThere'
    BY <1>1, <1>2, <1>3, LoadTypes DEF LocalTypes
  <2> QED BY <1>1, <2>1, DataSame DEF LocalTypes
<1>4. CASE UNCHANGED <<objects, list, tasks>>
  <2>1. WayTypes' /\ ListIsThere'
    BY <1>1, <1>2, <1>4 DEF LocalTypes, WayTypes, ListIsThere
  <2> QED BY <1>1, <2>1, DataSame DEF LocalTypes
<1> QED BY <1>1, <1>3, <1>4

\* The objects change, the list and where they are do not.
LEMMA ListSame ==
    ASSUME ListIsThere, UNCHANGED list, DOMAIN objects' = DOMAIN objects
    PROVE  ListIsThere'
BY DEF ListIsThere

\* The tasks of startDownload stand behind those that are there: at most one for the map
\* and at most one for its elevation.
LEMMA CreatesAre ==
    ASSUME tasks \in Seq(TTask), NEW name \in Names, NEW map \in BOOLEAN,
           NEW elevation \in BOOLEAN, StartDownload(name, map, elevation)
    PROVE  \E t, u \in TTask :
              /\ t.kind = "create" /\ u.kind = "create"
              /\ tasks' \in {tasks, Append(tasks, t), Append(tasks, u), Append(Append(tasks, t), u)}
<1> DEFINE t == [kind |-> "create", name |-> name]
           u == [kind |-> "create", name |-> Append(name, 0)]
<1>1. t \in TTask /\ u \in TTask /\ t.kind = "create" /\ u.kind = "create"
  <2>1. name \in TName /\ 0 \in Int
    BY NamesAre
  <2>2. Append(name, 0) \in TName
    BY <2>1, NamesAre
  <2> QED BY <2>1, <2>2, TasksMade
<1>2. tasks' = (tasks \o IF map THEN <<t>> ELSE <<>>) \o IF elevation THEN <<u>> ELSE <<>>
  BY DEF StartDownload
<1> HIDE DEF t, u
<1> DEFINE r == tasks \o IF map THEN <<t>> ELSE <<>>
<1>3. r \in {tasks, Append(tasks, t)}
  BY <1>1, AppendIsConcat, ConcatEmptySeq
<1>4. r \in Seq(TTask) /\ tasks' = r \o IF elevation THEN <<u>> ELSE <<>>
  BY <1>1, <1>2, <1>3, AppendProperties
<1> HIDE DEF r
<1>5. tasks' \in {r, Append(r, u)}
  BY <1>1, <1>4, AppendIsConcat, ConcatEmptySeq
<1> QED BY <1>1, <1>3, <1>5

\* At most two tasks more.
LEMMA StartDownloadTypes ==
    ASSUME LocalTypes, NEW name \in Names, NEW map \in BOOLEAN, NEW elevation \in BOOLEAN,
           StartDownload(name, map, elevation)
    PROVE  LocalTypes'
<1> DEFINE t == [kind |-> "create", name |-> name]
           u == [kind |-> "create", name |-> Append(name, 0)]
<1>1. t \in TTask /\ u \in TTask
  <2>1. name \in TName /\ 0 \in Int
    BY NamesAre
  <2>2. Append(name, 0) \in TName
    BY <2>1, NamesAre
  <2> QED BY <2>1, <2>2, TasksMade
<1>2. /\ UNCHANGED <<tables, file, objects, list, exporting, signals, action>>
      /\ tasks' = (tasks \o IF map THEN <<t>> ELSE <<>>) \o IF elevation THEN <<u>> ELSE <<>>
  BY DEF StartDownload
<1> HIDE DEF t, u
<1>3. <<t>> \in Seq(TTask) /\ <<u>> \in Seq(TTask) /\ <<>> \in Seq(TTask)
  BY <1>1
<1>4. tasks \o (IF map THEN <<t>> ELSE <<>>) \in Seq(TTask)
  BY <1>3, ConcatProperties DEF LocalTypes, WayTypes
<1>5. tasks' \in Seq(TTask)
  BY <1>2, <1>3, <1>4, ConcatProperties
<1>6. WayTypes' /\ ListIsThere'
  BY <1>2, <1>5 DEF LocalTypes, WayTypes, ListIsThere
<1> QED BY <1>2, <1>6, DataSame DEF LocalTypes

\* Marking objects leaves them where they are, with their ids.
LEMMA DeletingKeeps ==
    ASSUME ObjectTypes(objects), NEW objs
    PROVE  /\ ObjectTypes(Deleting(objs)) /\ DOMAIN Deleting(objs) = DOMAIN objects
           /\ \A o \in DOMAIN objects : Deleting(objs)[o].id = objects[o].id
<1>1. DOMAIN Deleting(objs) = DOMAIN objects
  BY DEF Deleting
<1>2. ASSUME NEW o \in DOMAIN objects
      PROVE  Deleting(objs)[o] \in TObject /\ Deleting(objs)[o].id = objects[o].id
  <2>1. objects[o] \in TObject
    BY DEF ObjectTypes
  <2>2. Deleting(objs)[o] = IF o \in objs THEN [objects[o] EXCEPT !.deleting = TRUE] ELSE objects[o]
    BY DEF Deleting
  <2>3. /\ [objects[o] EXCEPT !.deleting = TRUE] \in TObject
        /\ [objects[o] EXCEPT !.deleting = TRUE].id = objects[o].id
    BY <2>1 DEF TObject
  <2> QED BY <2>1, <2>2, <2>3
<1> QED BY <1>1, <1>2 DEF ObjectTypes

\* What a deletion that is asked for does to the objects and the tasks.
LEMMA DeletesAre ==
    ASSUME WayTypes, ListIsThere, NEW i \in DOMAIN list, DeleteTileSet(i)
    PROVE  /\ \E t \in TTask : tasks' = Enqueued(tasks, t) /\ t.kind \in {"reset", "delete"}
           /\ ObjectTypes(objects') /\ DOMAIN objects' = DOMAIN objects
           /\ \A o \in DOMAIN objects : objects'[o].id = objects[o].id
           /\ UNCHANGED <<tables, file, list, exporting, signals, action, crashed, doomed, muddled>>
<1>1. Object(i).id \in SetIds
  BY ListedAre DEF TObject
<1>2. ObjectTypes(objects)
  BY DEF WayTypes
<1>3. UNCHANGED <<tables, file, list, exporting, signals, action, crashed, doomed, muddled>>
  BY DEF DeleteTileSet
<1>4. \E t \in TTask : tasks' = Enqueued(tasks, t) /\ t.kind \in {"reset", "delete"}
  BY <1>1, TasksMade DEF DeleteTileSet
<1>5. \E objs : objects' = Deleting(objs)
  BY DEF DeleteTileSet
<1> QED BY <1>2, <1>3, <1>4, <1>5, DeletingKeeps

\* deleteTileSet keeps the types.
LEMMA DeleteTileSetTypes ==
    ASSUME LocalTypes, NEW i \in DOMAIN list, DeleteTileSet(i)
    PROVE  LocalTypes'
<1>1. PICK t \in TTask : tasks' = Enqueued(tasks, t)
  BY DeletesAre DEF LocalTypes
<1>2. /\ ObjectTypes(objects') /\ DOMAIN objects' = DOMAIN objects
      /\ UNCHANGED <<tables, file, list, exporting, signals, action>>
  BY DeletesAre DEF LocalTypes
<1>3. tasks' \in Seq(TTask)
  BY <1>1, OneTask DEF LocalTypes, WayTypes
<1>4. WayTypes'
  BY <1>2, <1>3 DEF LocalTypes, WayTypes
<1>5. ListIsThere'
  BY <1>2, ListSame DEF LocalTypes
<1> QED BY <1>2, <1>4, <1>5, DataSame DEF LocalTypes

\* A name the list does not have is found.
LEMMA NewNameIs ==
    ASSUME WayTypes, NEW name \in TName
    PROVE  NewName(name) \in TName
<1> DEFINE n == Len(list)
           S == {Object(i).name : i \in 1..n}
           free == {k \in 1..(n + 1) : ~FindName(Numbered(name, k))}
           f == [k \in 1..(n + 1) |-> Numbered(name, k)]
<1>1. n \in Nat /\ DOMAIN list = 1..n
  BY LenProperties DEF WayTypes
<1>2. IsFiniteSet(S) /\ Cardinality(S) <= n
  <2> DEFINE g == [i \in 1..n |-> Object(i).name]
  <2>1. g \in Surjection(1..n, S)
    BY DEF Surjection
  <2>2. IsFiniteSet(1..n) /\ Cardinality(1..n) = n
    <3> HIDE DEF n
    <3>1. n \in Int /\ 1 \in Int /\ (IF 1 > n THEN 0 ELSE n - 1 + 1) = n
      BY <1>1
    <3> QED BY <3>1, FS_Interval
  <2> HIDE DEF g, S, n
  <2> QED BY <2>1, <2>2, FS_Surjection
<1>3. \E k \in 1..(n + 1) : f[k] \notin S
  <2>1. f \in [1..(n + 1) -> {Numbered(name, k) : k \in 1..(n + 1)}]
    OBVIOUS
  <2>2. \A i, j \in 1..(n + 1) : f[i] = f[j] => i = j
    <3> SUFFICES ASSUME NEW i \in 1..(n + 1), NEW j \in 1..(n + 1), f[i] = f[j] PROVE i = j
      OBVIOUS
    <3>1. Append(name, -i) = Append(name, -j) /\ -i \in Int /\ -j \in Int
      BY <1>1 DEF Numbered
    <3>2. -i = -j
      BY <3>1, NumbersDiffer
    <3> QED BY <1>1, <3>2
  <2> HIDE DEF f, n, S
  <2> QED BY <1>1, <1>2, <2>1, <2>2, Unused
<1>4. free # {} /\ free \in SUBSET Nat
  <2>1. \A k \in 1..(n + 1) : Numbered(name, k) \notin S => ~FindName(Numbered(name, k))
    BY <1>1 DEF FindName
  <2>2. \A k \in 1..(n + 1) : f[k] = Numbered(name, k)
    OBVIOUS
  <2> HIDE DEF f, S
  <2> QED BY <1>1, <1>3, <2>1, <2>2
<1>5. Min(free) \in free
  BY <1>4, LeastIs
<1>6. -Min(free) \in Int
  BY <1>1, <1>5
<1>7. NewName(name) = IF ~FindName(name) THEN name ELSE Append(name, -Min(free))
  BY DEF NewName, Numbered
<1> QED BY <1>6, <1>7, NamesAre

\* What a renaming that is asked for does to the objects and the tasks.
LEMMA RenamesAre ==
    ASSUME WayTypes, ListIsThere, NEW i \in DOMAIN list, NEW name \in Names, RenameTileSet(i, name)
    PROVE  /\ \E t \in TTask : tasks' = Enqueued(tasks, t) /\ t.kind = "rename"
           /\ ObjectTypes(objects') /\ DOMAIN objects' = DOMAIN objects
           /\ \A o \in DOMAIN objects : objects'[o].id = objects[o].id
           /\ UNCHANGED <<tables, file, list, exporting, signals, action, crashed, doomed, muddled>>
<1>1. NewName(name) \in TName
  BY NamesAre, NewNameIs
<1>2. Object(i).id \in SetIds /\ list[i] \in DOMAIN objects
  BY ListedAre DEF TObject
<1>3. \E t \in TTask : tasks' = Enqueued(tasks, t) /\ t.kind = "rename"
  BY <1>1, <1>2, TasksMade DEF RenameTileSet
<1>4. /\ objects' = [objects EXCEPT ![list[i]].name = NewName(name)]
      /\ UNCHANGED <<tables, file, list, exporting, signals, action, crashed, doomed, muddled>>
  BY DEF RenameTileSet
<1>5. \A o \in DOMAIN objects : objects'[o] \in TObject /\ objects'[o].id = objects[o].id
  <2> SUFFICES ASSUME NEW o \in DOMAIN objects
               PROVE  objects'[o] \in TObject /\ objects'[o].id = objects[o].id
    OBVIOUS
  <2>1. objects[o] \in TObject
    BY DEF WayTypes, ObjectTypes
  <2>2. /\ [objects[o] EXCEPT !.name = NewName(name)] \in TObject
        /\ [objects[o] EXCEPT !.name = NewName(name)].id = objects[o].id
    BY <1>1, <2>1 DEF TObject
  <2>3. objects'[o] = IF o = list[i] THEN [objects[o] EXCEPT !.name = NewName(name)] ELSE objects[o]
    BY <1>4
  <2> QED BY <2>1, <2>2, <2>3
<1>6. DOMAIN objects' = DOMAIN objects
  BY <1>4
<1> QED BY <1>3, <1>4, <1>5, <1>6 DEF WayTypes, ObjectTypes

\* renameTileSet keeps the types.
LEMMA RenameTileSetTypes ==
    ASSUME LocalTypes, NEW i \in DOMAIN list, NEW name \in Names, RenameTileSet(i, name)
    PROVE  LocalTypes'
<1>1. PICK t \in TTask : tasks' = Enqueued(tasks, t)
  BY RenamesAre DEF LocalTypes
<1>2. /\ ObjectTypes(objects') /\ DOMAIN objects' = DOMAIN objects
      /\ UNCHANGED <<tables, file, list, exporting, signals, action>>
  BY RenamesAre DEF LocalTypes
<1>3. tasks' \in Seq(TTask)
  BY <1>1, OneTask DEF LocalTypes, WayTypes
<1>4. WayTypes'
  BY <1>2, <1>3 DEF LocalTypes, WayTypes
<1>5. ListIsThere'
  BY <1>2, ListSame DEF LocalTypes
<1> QED BY <1>2, <1>4, <1>5, DataSame DEF LocalTypes


\* The places of a finite set of numbers are counted without a gap.
LEMMA NthIs ==
    ASSUME NEW n \in Nat, NEW places \in SUBSET (1..n), NEW k \in 1..Cardinality(places)
    PROVE  Nth(places, k) \in places
<1> DEFINE m == Cardinality(places)
           upto(i) == {j \in places : j <= i}
           g == [i \in places |-> Cardinality(upto(i))]
<1>1. IsFiniteSet(places) /\ m \in Nat
  <2>1. IsFiniteSet(1..n)
    BY FS_Interval
  <2>2. IsFiniteSet(places)
    BY <2>1, FS_Subset
  <2> QED BY <2>2, FS_CardinalityType
<1>2. \A i \in places : /\ IsFiniteSet(upto(i)) /\ Cardinality(upto(i)) \in Nat
                        /\ Cardinality(upto(i)) <= m
  <2> SUFFICES ASSUME NEW i \in places
               PROVE  /\ IsFiniteSet(upto(i)) /\ Cardinality(upto(i)) \in Nat
                      /\ Cardinality(upto(i)) <= m
    OBVIOUS
  <2>1. upto(i) \in SUBSET places
    OBVIOUS
  <2> HIDE DEF upto
  <2> QED BY <1>1, <2>1, FS_Subset, FS_CardinalityType
<1>3. \A i \in places : g[i] \in 1..m
  <2> SUFFICES ASSUME NEW i \in places PROVE g[i] \in 1..m
    OBVIOUS
  <2>1. i \in upto(i)
    OBVIOUS
  <2>2. g[i] = Cardinality(upto(i))
    OBVIOUS
  <2> HIDE DEF upto, g, m
  <2>3. upto(i) # {}
    BY <2>1
  <2>4. Cardinality(upto(i)) # 0
    BY <1>2, <2>3, FS_EmptySet
  <2> QED BY <1>1, <1>2, <2>2, <2>4
<1>4. \A i, j \in places : i < j => g[i] # g[j]
  <2> SUFFICES ASSUME NEW i \in places, NEW j \in places, i < j, g[i] = g[j] PROVE FALSE
    OBVIOUS
  <2>1. upto(i) \in SUBSET upto(j)
    <3>1. ASSUME NEW p \in places, p <= i PROVE p <= j
      <4>1. p \in 1..n /\ i \in 1..n /\ j \in 1..n
        OBVIOUS
      <4> QED BY ONLY <3>1, <4>1, i < j, n \in Nat
    <3> QED BY <3>1
  <2>0. ~(j <= i) /\ j <= j
    <3>1. i \in 1..n /\ j \in 1..n
      OBVIOUS
    <3> QED BY ONLY <3>1, i < j, n \in Nat
  <2>2. j \in upto(j) /\ j \notin upto(i)
    BY <2>0, Zenon
  <2>3. Cardinality(upto(i)) = Cardinality(upto(j))
    BY Zenon
  <2> HIDE DEF upto, g
  <2>4. upto(j) = upto(i)
    BY <1>2, <2>1, <2>3, FS_Subset
  <2> QED BY <2>2, <2>4
<1>5. \A i, j \in places : g[i] = g[j] => i = j
  <2>1. \A i, j \in places : i < j \/ j < i \/ i = j
    OBVIOUS
  <2> HIDE DEF g
  <2> QED BY <1>4, <2>1
<1>6. g \in Injection(places, 1..m)
  <2>1. g \in [places -> 1..m]
    BY <1>3
  <2> HIDE DEF g
  <2> QED BY <1>5, <2>1 DEF Injection, IsInjective
<1>7. IsFiniteSet(1..m) /\ Cardinality(1..m) = m
  <2> HIDE DEF m
  <2>1. m \in Int /\ 1 \in Int /\ (IF 1 > m THEN 0 ELSE m - 1 + 1) = m
    BY <1>1
  <2> QED BY <2>1, FS_Interval
<1>8. g \in Surjection(places, 1..m)
  <2> HIDE DEF g
  <2> QED BY <1>6, <1>7, FS_Injection
<1>9. \E i \in places : g[i] = k
  <2> HIDE DEF g
  <2> QED BY <1>8 DEF Surjection
<1>10. \E i \in places : Cardinality(upto(i)) = k
  BY <1>9
<1> QED BY <1>10 DEF Nth

\* What is chosen of the list is in the selection and in the list.
LEMMA ChosenAre ==
    ASSUME WayTypes, NEW selected
    PROVE  /\ Chosen(selected) \in Seq(Objs)
           /\ \A k \in 1..Len(Chosen(selected)) :
                 /\ Chosen(selected)[k] \in selected
                 /\ \E i \in 1..Len(list) : Chosen(selected)[k] = list[i]
<1> DEFINE places == {i \in DOMAIN list : list[i] \in selected}
           m == Cardinality(places)
<1>1. Len(list) \in Nat /\ DOMAIN list = 1..Len(list)
  BY LenProperties DEF WayTypes
<1>2. places \in SUBSET (1..Len(list))
  BY <1>1
<1>3. m \in Nat
  <2>1. IsFiniteSet(1..Len(list))
    BY <1>1, FS_Interval
  <2> HIDE DEF places
  <2>2. IsFiniteSet(places)
    BY <1>2, <2>1, FS_Subset
  <2> QED BY <2>2, FS_CardinalityType
<1>4. \A k \in 1..m : Nth(places, k) \in places
  <2> HIDE DEF places
  <2> QED BY <1>1, <1>2, NthIs
<1>5. \A k \in 1..m : /\ list[Nth(places, k)] \in selected /\ list[Nth(places, k)] \in Objs
                      /\ Nth(places, k) \in 1..Len(list)
  <2>1. \A i \in places : list[i] \in selected /\ list[i] \in Objs /\ i \in 1..Len(list)
    BY <1>1, ElementOfSeq DEF WayTypes
  <2> HIDE DEF places, m
  <2> QED BY <1>4, <2>1
<1>6. Chosen(selected) = [k \in 1..m |-> list[Nth(places, k)]]
  BY DEF Chosen
<1> HIDE DEF places, m
<1>7. Chosen(selected) \in Seq(Objs) /\ Len(Chosen(selected)) = m
  BY <1>3, <1>5, <1>6
<1>8. \A k \in 1..m : Chosen(selected)[k] = list[Nth(places, k)]
  BY <1>6
<1> QED BY <1>5, <1>7, <1>8

\* exportSets keeps the types.
LEMMA ExportSetsTypes ==
    ASSUME LocalTypes, NEW selected, ExportSets(selected)
    PROVE  LocalTypes'
<1> DEFINE t == [kind |-> "export", sets |-> Chosen(selected)]
<1>1. Chosen(selected) \in Seq(Objs)
  BY ChosenAre DEF LocalTypes
<1>2. t \in TTask
  BY <1>1, TasksMade
<1>3. /\ UNCHANGED <<tables, file, objects, list, exporting, signals>>
      /\ tasks' = Enqueued(tasks, t) /\ action' = "exporting"
  BY DEF ExportSets
<1> HIDE DEF t
<1>4. tasks' \in Seq(TTask)
  BY <1>2, <1>3, OneTask DEF LocalTypes, WayTypes
<1>5. WayTypes' /\ ListIsThere'
  BY <1>3, <1>4 DEF LocalTypes, WayTypes, ListIsThere
<1> QED BY <1>3, <1>5, DataSame DEF LocalTypes

\* So does importSets, ...
LEMMA ImportSetsTypes ==
    ASSUME LocalTypes, NEW replace \in BOOLEAN, ImportSets(replace)
    PROVE  LocalTypes'
<1> DEFINE t == [kind |-> "import", replace |-> replace]
<1>1. t \in TTask
  BY TasksMade
<1>2. /\ UNCHANGED <<tables, file, objects, list, exporting, signals>>
      /\ tasks' = Enqueued(tasks, t) /\ action' = "importing"
  BY DEF ImportSets
<1> HIDE DEF t
<1>3. tasks' \in Seq(TTask)
  BY <1>1, <1>2, OneTask DEF LocalTypes, WayTypes
<1>4. WayTypes' /\ ListIsThere'
  BY <1>2, <1>3 DEF LocalTypes, WayTypes, ListIsThere
<1> QED BY <1>2, <1>4, DataSame DEF LocalTypes

\* ... and a request without a file.
LEMMA ResetActionTypes == LocalTypes /\ ResetAction => LocalTypes'
<1> SUFFICES ASSUME LocalTypes, ResetAction PROVE LocalTypes'
  OBVIOUS
<1>1. /\ UNCHANGED <<tables, file, objects, list, tasks, exporting, signals>> /\ action' = "none"
  BY DEF ResetAction
<1>2. WayTypes' /\ ListIsThere'
  BY <1>1 DEF LocalTypes, WayTypes, ListIsThere
<1> QED BY <1>1, <1>2, DataSame DEF LocalTypes

\* What the handler of a new set does: an object that was not there, at the end of the
\* list.
LEMMA NewObjectIs ==
    ASSUME WayTypes, ListIsThere, HandleNewObject
    PROVE  /\ Signalled("fetched") \/ Signalled("saved")
           /\ Head(signals).set \in TObject
           /\ \E o \in Objs :
                 /\ o \notin DOMAIN objects /\ o \notin Pointed(tasks, exporting)
                 /\ list' = Append(list, o)
                 /\ DOMAIN objects' = DOMAIN objects \cup {o}
                 /\ objects'[o] = Head(signals).set
                 /\ \A p \in DOMAIN objects : objects'[p] = objects[p]
           /\ UNCHANGED <<tables, file, tasks, exporting, action, crashed, doomed, muddled>>
<1> DEFINE used == DOMAIN objects \cup ToSet(list) \cup Pointed(tasks, exporting)
           o == Min(1..(Cardinality(used) + 1) \ used)
<1>1. Signalled("fetched") \/ Signalled("saved")
  BY DEF HandleNewObject
<1>2. Head(signals).set \in TObject
  BY <1>1, OneHandled, SignalsAre DEF WayTypes
<1>3. /\ list' = Append(list, o)
      /\ objects' = [p \in DOMAIN objects \cup {o} |-> IF p = o THEN Head(signals).set ELSE objects[p]]
      /\ UNCHANGED <<tables, file, tasks, exporting, action, crashed, doomed, muddled>>
  BY DEF HandleNewObject
<1>4. IsFiniteSet(used)
  <2>1. IsFiniteSet(DOMAIN objects) /\ IsFiniteSet(Pointed(tasks, exporting))
    BY PointedFinite DEF WayTypes, ObjectTypes
  <2>2. ToSet(list) \subseteq DOMAIN objects
    BY LenProperties DEF ToSet, ListIsThere, WayTypes
  <2>3. used = DOMAIN objects \cup Pointed(tasks, exporting)
    BY <2>2
  <2> QED BY <2>1, <2>3, FS_Union
<1>5. o \in Objs /\ o \notin used
  <2> HIDE DEF used
  <2> QED BY <1>4, FreshIs
<1> HIDE DEF o
<1>6. /\ DOMAIN objects' = DOMAIN objects \cup {o} /\ objects'[o] = Head(signals).set
      /\ \A p \in DOMAIN objects : objects'[p] = objects[p]
  BY <1>3, <1>5
<1> QED BY <1>1, <1>2, <1>3, <1>5, <1>6

\* _tileSetFetched and _tileSetSaved keep the types.
LEMMA HandleNewObjectTypes == LocalTypes /\ HandleNewObject => LocalTypes'
<1> SUFFICES ASSUME LocalTypes, HandleNewObject PROVE LocalTypes'
  OBVIOUS
<1>1. /\ Signalled("fetched") \/ Signalled("saved")
      /\ Head(signals).set \in TObject
      /\ UNCHANGED <<tables, file, tasks, exporting, action>>
  BY NewObjectIs DEF LocalTypes
<1>2. PICK o \in Objs :
         /\ o \notin DOMAIN objects /\ list' = Append(list, o)
         /\ DOMAIN objects' = DOMAIN objects \cup {o} /\ objects'[o] = Head(signals).set
         /\ \A p \in DOMAIN objects : objects'[p] = objects[p]
  BY NewObjectIs DEF LocalTypes
<1>3. signals' \in Seq(TSignal)
  BY <1>1, OneHandled DEF LocalTypes, WayTypes
<1>4. /\ list' \in Seq(Objs) /\ Len(list') = Len(list) + 1 /\ Len(list) \in Nat
      /\ \A i \in 1..Len(list) : list'[i] = list[i]
      /\ list'[Len(list) + 1] = o
  BY <1>2, AppendProperties, LenProperties DEF LocalTypes, WayTypes
<1>5. ObjectTypes(objects')
  <2>1. IsFiniteSet(DOMAIN objects \cup {o})
    BY FS_AddElement DEF LocalTypes, WayTypes, ObjectTypes
  <2> QED BY <1>1, <1>2, <2>1 DEF LocalTypes, WayTypes, ObjectTypes
<1>6. WayTypes'
  BY <1>1, <1>3, <1>4, <1>5 DEF LocalTypes, WayTypes
<1>7. ListIsThere'
  <2>1. \A i \in 1..Len(list') : i \in 1..Len(list) \/ i = Len(list) + 1
    BY <1>4
  <2>2. \A i \in 1..Len(list) : list[i] \in DOMAIN objects
    BY DEF LocalTypes, ListIsThere
  <2>3. \A i \in 1..Len(list') : list'[i] \in DOMAIN objects'
    BY <1>2, <1>4, <2>1, <2>2
  <2>4. \A i, j \in 1..Len(list') : list'[i] = list'[j] => i = j
    BY <1>2, <1>4, <2>1, <2>2 DEF LocalTypes, ListIsThere
  <2> QED BY <2>3, <2>4 DEF ListIsThere
<1> QED BY <1>1, <1>6, <1>7, DataSame DEF LocalTypes

\* What the removal of one place leaves of a list.
LEMMA RemovedIs ==
    ASSUME NEW S, NEW s \in Seq(S), NEW m \in 1..Len(s)
    PROVE  /\ RemoveAt(s, m) \in Seq(S) /\ Len(RemoveAt(s, m)) = Len(s) - 1
           /\ \A i \in 1..(Len(s) - 1) : RemoveAt(s, m)[i] = IF i < m THEN s[i] ELSE s[i + 1]
<1> DEFINE a == SubSeq(s, 1, m - 1)
           b == SubSeq(s, m + 1, Len(s))
<1>1. Len(s) \in Nat /\ \A i \in 1..Len(s) : s[i] \in S
  BY LenProperties, ElementOfSeq
<1>2. a \in Seq(S) /\ Len(a) = m - 1 /\ \A i \in 1..(m - 1) : a[i] = s[i]
  <2>1. /\ 1 \in Int /\ m - 1 \in Int /\ (IF 1 <= m - 1 THEN (m - 1) - 1 + 1 ELSE 0) = m - 1
        /\ (m - 1) - 1 + 1 = m - 1
        /\ \A i \in 1..(m - 1) : s[i] \in S /\ 1 + i - 1 = i
    BY <1>1
  <2> QED BY <2>1, SubSeqProperties
<1>3. b \in Seq(S) /\ Len(b) = Len(s) - m /\ \A i \in 1..(Len(s) - m) : b[i] = s[m + i]
  <2>1. /\ m + 1 \in Int /\ Len(s) \in Int
        /\ (IF m + 1 <= Len(s) THEN Len(s) - (m + 1) + 1 ELSE 0) = Len(s) - m
        /\ Len(s) - (m + 1) + 1 = Len(s) - m
        /\ \A i \in (m + 1)..Len(s) : s[i] \in S
        /\ \A i \in 1..(Len(s) - m) : (m + 1) + i - 1 = m + i
    BY <1>1
  <2>2. /\ b \in Seq(S) /\ Len(b) = IF m + 1 <= Len(s) THEN Len(s) - (m + 1) + 1 ELSE 0
        /\ \A i \in 1..(Len(s) - (m + 1) + 1) : b[i] = s[(m + 1) + i - 1]
    <3>1. m + 1 \in Int /\ Len(s) \in Int
      BY <2>1
    <3>2. \A i \in (m + 1)..Len(s) : s[i] \in S
      BY <2>1
    <3> QED BY ONLY <3>1, <3>2, SubSeqProperties DEF b
  <2> HIDE DEF b
  <2>3. \A i \in 1..(Len(s) - m) : b[i] = s[m + i]
    BY <2>1, <2>2
  <2> QED BY <2>1, <2>2, <2>3
<1>4. RemoveAt(s, m) = a \o b
  BY DEF RemoveAt
<1> HIDE DEF a, b
<1>5. /\ a \o b \in Seq(S) /\ Len(a \o b) = Len(a) + Len(b)
      /\ \A i \in 1..Len(a) + Len(b) : (a \o b)[i] = IF i <= Len(a) THEN a[i] ELSE b[i - Len(a)]
  BY <1>2, <1>3, ConcatProperties
<1>6. Len(a) + Len(b) = Len(s) - 1
  BY <1>1, <1>2, <1>3
<1>7. ASSUME NEW i \in 1..(Len(s) - 1)
      PROVE  (a \o b)[i] = IF i < m THEN s[i] ELSE s[i + 1]
  <2>1. CASE i < m
    BY <1>1, <1>2, <1>5, <1>6, <2>1
  <2>2. CASE ~(i < m)
    <3>1. /\ ~(i <= Len(a)) /\ i - Len(a) \in 1..(Len(s) - m) /\ m + (i - Len(a)) = i + 1
      BY <1>1, <1>2, <2>2
    <3> QED BY <1>3, <1>5, <1>6, <2>2, <3>1
  <2> QED BY <2>1, <2>2
<1> QED BY <1>4, <1>5, <1>6, <1>7

\* What the handler of a deletion does: the first object with the id goes, if there is one.
LEMMA DeletedIsGone ==
    ASSUME WayTypes, ListIsThere, HandleDeleted
    PROVE  /\ Signalled("deleted")
           /\ UNCHANGED <<tables, file, tasks, exporting, action, crashed, doomed, muddled>>
           /\ \/ /\ \A i \in 1..Len(list) : objects[list[i]].id # Head(signals).id
                 /\ UNCHANGED <<objects, list>>
              \/ \E m \in 1..Len(list) :
                    /\ objects[list[m]].id = Head(signals).id
                    /\ list' = RemoveAt(list, m)
                    /\ DOMAIN objects' = DOMAIN objects \ {list[m]}
                    /\ \A o \in DOMAIN objects' : objects'[o] = objects[o]
<1> DEFINE found == {i \in DOMAIN list : Object(i).id = Head(signals).id}
<1>1. /\ Signalled("deleted")
      /\ UNCHANGED <<tables, file, tasks, exporting, action, crashed, doomed, muddled>>
      /\ IF found = {} THEN UNCHANGED <<objects, list>>
         ELSE /\ list' = RemoveAt(list, Min(found))
              /\ objects' = Restrict(objects, DOMAIN objects \ {list[Min(found)]})
  BY DEF HandleDeleted
<1>2. Len(list) \in Nat /\ DOMAIN list = 1..Len(list)
  BY LenProperties DEF WayTypes
<1>3. CASE found = {}
  BY <1>1, <1>2, <1>3 DEF Object
<1>4. CASE found # {}
  <2>1. found \in SUBSET Nat
    BY <1>2
  <2>2. Min(found) \in found
    BY <1>4, <2>1, LeastIs
  <2>3. /\ Min(found) \in 1..Len(list) /\ objects[list[Min(found)]].id = Head(signals).id
    BY <1>2, <2>2 DEF Object
  <2>4. /\ list' = RemoveAt(list, Min(found))
        /\ DOMAIN objects' = DOMAIN objects \ {list[Min(found)]}
        /\ \A o \in DOMAIN objects' : objects'[o] = objects[o]
    BY <1>1, <1>4 DEF Restrict
  <2> HIDE DEF found
  <2> QED BY <1>1, <2>3, <2>4
<1> QED BY <1>3, <1>4

\* _tileSetDeleted keeps the types.
LEMMA HandleDeletedTypes == LocalTypes /\ HandleDeleted => LocalTypes'
<1> SUFFICES ASSUME LocalTypes, HandleDeleted PROVE LocalTypes'
  OBVIOUS
<1>1. /\ Signalled("deleted") /\ UNCHANGED <<tables, file, tasks, exporting, action>>
  BY DeletedIsGone DEF LocalTypes
<1>2. signals' \in Seq(TSignal)
  BY <1>1, OneHandled DEF LocalTypes, WayTypes
<1>3. CASE UNCHANGED <<objects, list>>
  <2>1. WayTypes' /\ ListIsThere'
    BY <1>1, <1>2, <1>3 DEF LocalTypes, WayTypes, ListIsThere
  <2> QED BY <1>1, <2>1, DataSame DEF LocalTypes
<1>4. ASSUME NEW m \in 1..Len(list), list' = RemoveAt(list, m),
             DOMAIN objects' = DOMAIN objects \ {list[m]},
             \A o \in DOMAIN objects' : objects'[o] = objects[o]
      PROVE  LocalTypes'
  <2>1. /\ list' \in Seq(Objs) /\ Len(list') = Len(list) - 1 /\ Len(list) \in Nat
        /\ \A i \in 1..(Len(list) - 1) : list'[i] = IF i < m THEN list[i] ELSE list[i + 1]
    <3>1. list \in Seq(Objs)
      BY DEF LocalTypes, WayTypes
    <3>2. Len(list) \in Nat
      BY <3>1, LenProperties
    <3> QED BY <1>4, <3>1, <3>2, RemovedIs
  <2>2. ObjectTypes(objects')
    <3>1. IsFiniteSet(DOMAIN objects \ {list[m]})
      BY FS_RemoveElement DEF LocalTypes, WayTypes, ObjectTypes
    <3> QED BY <1>4, <3>1 DEF LocalTypes, WayTypes, ObjectTypes
  <2>3. WayTypes'
    BY <1>1, <1>2, <2>1, <2>2 DEF LocalTypes, WayTypes
  <2>4. ListIsThere'
    <3> DEFINE old(i) == IF i < m THEN i ELSE i + 1
    <3>1. \A i \in 1..Len(list') : /\ old(i) \in 1..Len(list) /\ old(i) # m
                                   /\ list'[i] = list[old(i)]
      BY <2>1
    <3>2. \A i, j \in 1..Len(list') : old(i) = old(j) => i = j
      BY <2>1
    <3> HIDE DEF old
    <3>3. \A i \in 1..Len(list') : list'[i] \in DOMAIN objects'
      BY <1>4, <3>1 DEF LocalTypes, ListIsThere
    <3>4. \A i, j \in 1..Len(list') : list'[i] = list'[j] => i = j
      BY <3>1, <3>2 DEF LocalTypes, ListIsThere
    <3> QED BY <3>3, <3>4 DEF ListIsThere
  <2> QED BY <1>1, <2>3, <2>4, DataSame DEF LocalTypes
<1> QED BY <1>3, <1>4, DeletedIsGone DEF LocalTypes


\* What is listed of the rows for the application thread.
LEMMA FetchIs ==
    ASSUME DataTypes, WayTypes, FetchTileSets
    PROVE  /\ Dequeue("fetch") /\ UNCHANGED <<tables, file, exporting, crashed, manager>>
           /\ \E new \in Seq(TSignal) :
                /\ signals' = signals \o new
                /\ \A i \in 1..Len(new) : /\ new[i].kind = "fetched"
                                          /\ new[i].set.id \in DOMAIN tables.sets
                /\ \A i, j \in 1..Len(new) : new[i].set.id = new[j].set.id => i = j
                /\ \A s \in DOMAIN tables.sets : \E i \in 1..Len(new) : new[i].set.id = s
<1>1. PICK ids \in Rows(tables.sets) :
         signals' = signals \o [i \in DOMAIN ids |-> [kind |-> "fetched", set |-> SetObject(tables, ids[i])]]
  BY DEF FetchTileSets
<1> DEFINE new == [i \in DOMAIN ids |-> [kind |-> "fetched", set |-> SetObject(tables, ids[i])]]
<1>2. Base(tables)
  BY DEF DataTypes
<1>3. /\ ids \in Seq(DOMAIN tables.sets)
      /\ \A i, j \in 1..Len(ids) : ids[i] = ids[j] => i = j
      /\ \A s \in DOMAIN tables.sets : \E i \in 1..Len(ids) : ids[i] = s
  <2>1. Enumerates(ids, DOMAIN tables.sets)
    BY <1>2, RowsOfBase
  <2> QED BY <2>1 DEF Enumerates
<1>4. Len(ids) \in Nat /\ DOMAIN ids = 1..Len(ids) /\ \A i \in 1..Len(ids) : ids[i] \in DOMAIN tables.sets
  BY <1>3, LenProperties, ElementOfSeq
<1>5. ASSUME NEW i \in 1..Len(ids)
      PROVE  new[i] \in TSignal /\ new[i].kind = "fetched" /\ new[i].set.id = ids[i]
  <2>1. ids[i] \in DOMAIN tables.sets /\ ids[i] \in SetIds /\ Base(tables)
    BY <1>4 DEF DataTypes
  <2>2. SetObject(tables, ids[i]) \in TObject /\ SetObject(tables, ids[i]).id = ids[i]
    BY <2>1, RowsMakeObjects
  <2>3. new[i] = [kind |-> "fetched", set |-> SetObject(tables, ids[i])]
    BY <1>4
  <2>4. [kind |-> "fetched", set |-> SetObject(tables, ids[i])] \in TSignal
    BY <2>2, SignalsMade
  <2> HIDE DEF new
  <2> QED BY <2>2, <2>3, <2>4
<1>6. new \in Seq(TSignal) /\ Len(new) = Len(ids)
  <2>1. DOMAIN new = 1..Len(ids) /\ new = [i \in 1..Len(ids) |-> new[i]]
    BY <1>4
  <2> HIDE DEF new
  <2>2. new \in [1..Len(ids) -> TSignal]
    BY <1>5, <2>1
  <2> QED BY <1>4, <2>2
<1>7. signals' = signals \o new
  BY <1>1
<1>8. Dequeue("fetch") /\ UNCHANGED <<tables, file, exporting, crashed, manager>>
  BY DEF FetchTileSets
<1> HIDE DEF new
<1>9. /\ \A i \in 1..Len(new) : new[i].kind = "fetched" /\ new[i].set.id \in DOMAIN tables.sets
      /\ \A i, j \in 1..Len(new) : new[i].set.id = new[j].set.id => i = j
      /\ \A s \in DOMAIN tables.sets : \E i \in 1..Len(new) : new[i].set.id = s
  BY <1>3, <1>4, <1>5, <1>6
<1> QED BY <1>6, <1>7, <1>8, <1>9

\* What the worker does leaves what the application thread has.
LEMMA WorkerTypes ==
    ASSUME LocalTypes, UNCHANGED manager, DataTypes',
           tasks' \in Seq(TTask), signals' \in Seq(TSignal), exporting' \in Seq(Objs)
    PROVE  LocalTypes'
<1>1. UNCHANGED <<objects, list, action>>
  BY DEF manager
<1> QED BY <1>1 DEF LocalTypes, WayTypes, ListIsThere

\* _getTileSets keeps the types.
LEMMA FetchTileSetsTypes == LocalTypes /\ FetchTileSets => LocalTypes'
<1> SUFFICES ASSUME LocalTypes, FetchTileSets PROVE LocalTypes'
  OBVIOUS
<1>1. /\ Dequeue("fetch") /\ UNCHANGED <<tables, file, exporting, manager>>
      /\ \E new \in Seq(TSignal) : signals' = signals \o new
  BY FetchIs DEF LocalTypes
<1>2. signals' \in Seq(TSignal)
  BY <1>1, ConcatProperties DEF LocalTypes, WayTypes
<1>3. tasks' \in Seq(TTask)
  BY <1>1, OneDone DEF LocalTypes, WayTypes
<1>4. DataTypes' /\ exporting' \in Seq(Objs)
  BY <1>1, DataSame DEF LocalTypes, WayTypes
<1> QED BY <1>1, <1>2, <1>3, <1>4, WorkerTypes

\* A database with other tables, of ids within the bound.
LEMMA TablesChange ==
    ASSUME DataTypes, Base(tables'), DOMAIN tables'.sets \subseteq SetIds, UNCHANGED file
    PROVE  DataTypes'
BY DEF DataTypes, FileIsPartition, UniqueTo

\* What the creation of a set does.
LEMMA CreateIs ==
    ASSUME DataTypes, WayTypes, CreateTileSet
    PROVE  /\ Dequeue("create") /\ UNCHANGED <<file, exporting, crashed, manager>>
           /\ \/ UNCHANGED <<tables, signals>>
              \/ /\ Base(tables') /\ NewID(tables) \notin DOMAIN tables.sets /\ NewID(tables) \in SetIds
                 /\ DOMAIN tables'.sets = DOMAIN tables.sets \cup {NewID(tables)}
                 /\ \E x \in TSignal : /\ signals' = Append(signals, x)
                                       /\ x.kind = "saved" /\ x.set.id = NewID(tables)
<1> DEFINE id == NewID(tables)
           d == Insert(tables, Head(tasks).name, FALSE)
<1>1. Dequeue("create") /\ UNCHANGED <<file, exporting, crashed, manager>>
  BY DEF CreateTileSet
<1>2. CASE Head(tasks).name \in InUse(tables)
  <2>1. UNCHANGED <<tables, signals>>
    BY <1>2 DEF CreateTileSet
  <2> QED BY <1>1, <2>1
<1>3. CASE Head(tasks).name \notin InUse(tables)
  <2>1. /\ id <= MaxSets
        /\ \E tiles \in SUBSET d.tiles : tables' = [d EXCEPT !.listed = @ \cup (tiles \X {id})]
        /\ signals' = Append(signals, [kind |-> "saved", set |-> SetObject(d, id)])
    BY <1>3 DEF CreateTileSet
  <2>2. Head(tasks) \in TTask /\ Head(tasks).kind = "create"
    BY <1>1, OneDone DEF WayTypes
  <2>3. Head(tasks).name \in TName
    BY <2>2, TasksAre
  <2>4. PICK n \in Nat : DOMAIN tables.sets \subseteq 1..n
    BY DEF DataTypes, Base
  <2>5. id \notin DOMAIN tables.sets /\ id \in Nat \ {0}
    BY <2>4, NewIDIs
  <2>6. Base(d)
    BY <1>3, <2>3, InsertKeeps DEF DataTypes
  <2>7. Made(tables) /\ Made(d)
    BY <2>6 DEF DataTypes, Base
  <2>8. DOMAIN d.sets = DOMAIN tables.sets \cup {id}
    <3>1. \A nm, b : DOMAIN Insert(tables, nm, b).sets = DOMAIN tables.sets \cup {NewID(tables)}
      BY <2>5, <2>7, InsertAdds
    <3> QED BY <3>1, Zenon
  <2>9. id \in SetIds
    BY <2>1, <2>5, ManagerAssumption DEF SetIds
  <2> HIDE DEF id, d
  <2>10. PICK tiles \in SUBSET d.tiles : tables' = [d EXCEPT !.listed = @ \cup (tiles \X {id})]
    BY <2>1
  <2>11. tables' = [tiles |-> d.tiles, sets |-> d.sets, listed |-> d.listed \cup (tiles \X {id})]
    BY <2>7, <2>10 DEF Made
  <2>12. Base(tables')
    <3>1. tables'.listed \subseteq tables'.tiles \X (DOMAIN tables'.sets \cup {1})
      BY <2>6, <2>8, <2>11 DEF Base
    <3>2. Made(tables') /\ tables'.sets = d.sets /\ tables'.tiles = d.tiles
      BY <2>11 DEF Made
    <3> QED BY <2>6, <3>1, <3>2 DEF Base
  <2>13. SetObject(d, id) \in TObject /\ SetObject(d, id).id = id
    BY <2>6, <2>8, <2>9, RowsMakeObjects
  <2>14. \E x \in TSignal : signals' = Append(signals, x) /\ x.kind = "saved" /\ x.set.id = id
    <3> DEFINE x == [kind |-> "saved", set |-> SetObject(d, id)]
    <3>1. x \in TSignal
      BY <2>13, SignalsMade
    <3>2. x.kind = "saved" /\ x.set.id = id /\ signals' = Append(signals, x)
      BY <2>1, <2>13
    <3> HIDE DEF x
    <3> QED BY <3>1, <3>2
  <2>15. DOMAIN tables'.sets = DOMAIN tables.sets \cup {id}
    BY <2>8, <2>11
  <2> QED BY <1>1, <2>5, <2>9, <2>12, <2>14, <2>15 DEF id
<1> QED BY <1>2, <1>3

\* _createTileSet keeps the types.
LEMMA CreateTileSetTypes == LocalTypes /\ CreateTileSet => LocalTypes'
<1> SUFFICES ASSUME LocalTypes, CreateTileSet PROVE LocalTypes'
  OBVIOUS
<1>1. Dequeue("create") /\ UNCHANGED <<file, exporting, manager>>
  BY CreateIs DEF LocalTypes
<1>2. tasks' \in Seq(TTask) /\ exporting' \in Seq(Objs)
  BY <1>1, OneDone DEF LocalTypes, WayTypes
<1>3. signals' \in Seq(TSignal)
  <2>1. UNCHANGED signals \/ \E x \in TSignal : signals' = Append(signals, x)
    BY CreateIs DEF LocalTypes
  <2>2. signals \in Seq(TSignal)
    BY DEF LocalTypes, WayTypes
  <2> QED BY <2>1, <2>2, AppendProperties
<1>4. DataTypes'
  <2>1. CASE UNCHANGED tables
    BY <1>1, <2>1, DataSame DEF LocalTypes
  <2>2. CASE /\ Base(tables') /\ NewID(tables) \in SetIds
             /\ DOMAIN tables'.sets = DOMAIN tables.sets \cup {NewID(tables)}
    <3>1. DOMAIN tables'.sets \subseteq SetIds
      BY <2>2 DEF LocalTypes, DataTypes
    <3> QED BY <1>1, <2>2, <3>1, TablesChange DEF LocalTypes
  <2> QED BY <2>1, <2>2, CreateIs DEF LocalTypes
<1> QED BY <1>1, <1>2, <1>3, <1>4, WorkerTypes

\* _saveTile keeps the types, and the sets.
LEMMA SaveTileTypes ==
    ASSUME LocalTypes, NEW h \in Hash, NEW s \in DOMAIN tables.sets, SaveTile(h, s)
    PROVE  LocalTypes' /\ DOMAIN tables'.sets = DOMAIN tables.sets
<1>1. /\ tables' = [tables EXCEPT !.tiles = @ \cup {h}, !.listed = @ \cup {<<h, s>>}]
      /\ UNCHANGED <<file, tasks, exporting, signals, objects, list, action>>
  BY DEF SaveTile
<1>2. Base(tables) /\ Made(tables)
  BY DEF LocalTypes, DataTypes, Base
<1>3. {<<h, s>>} = {h} \X {s}
  OBVIOUS
<1>4. tables' = [tables EXCEPT !.tiles = @ \cup {h}, !.listed = @ \cup ({h} \X {s})]
  BY <1>1, <1>3
<1>5. tables'.sets = tables.sets
  BY <1>2, <1>4, WithTiles
<1>6. Base(tables')
  <2>1. {h} \in SUBSET Hash /\ s \in DOMAIN tables.sets \cup {1}
    OBVIOUS
  <2>2. Base([tables EXCEPT !.tiles = @ \cup {h}, !.listed = @ \cup ({h} \X {s})])
    BY <1>2, <2>1, TilesKeep
  <2> QED BY <1>4, <2>2
<1>7. DataTypes'
  BY <1>1, <1>5, <1>6, TablesChange DEF LocalTypes, DataTypes
<1>8. WayTypes' /\ ListIsThere'
  BY <1>1 DEF LocalTypes, WayTypes, ListIsThere
<1> QED BY <1>5, <1>7, <1>8 DEF LocalTypes

\* _deleteTileSet keeps the types.
LEMMA RunDeleteTypes == LocalTypes /\ RunDelete => LocalTypes'
<1> SUFFICES ASSUME LocalTypes, RunDelete PROVE LocalTypes'
  OBVIOUS
<1>1. /\ Dequeue("delete") /\ tables' = Deleted(tables, Head(tasks).id)
      /\ signals' = Append(signals, [kind |-> "deleted", id |-> Head(tasks).id])
      /\ UNCHANGED <<file, exporting, manager>>
  BY DEF RunDelete
<1>2. tasks' \in Seq(TTask) /\ exporting' \in Seq(Objs)
  BY <1>1, OneDone DEF LocalTypes, WayTypes
<1>3. Head(tasks).id \in SetIds
  BY <1>1, OneDone, TasksAre DEF LocalTypes, WayTypes
<1>4. signals' \in Seq(TSignal)
  BY <1>1, <1>3, SignalsMade, AppendProperties DEF LocalTypes, WayTypes
<1>5. Base(tables')
  BY <1>1, DeletedKeeps DEF LocalTypes, DataTypes
<1>6. DOMAIN tables'.sets \subseteq SetIds
  BY <1>1, DeletedIs DEF LocalTypes, DataTypes
<1>7. DataTypes'
  BY <1>1, <1>5, <1>6, TablesChange DEF LocalTypes
<1> QED BY <1>1, <1>2, <1>4, <1>7, WorkerTypes

\* _renameTileSet keeps the types, and the sets.
LEMMA RunRenameTypes == LocalTypes /\ RunRename => LocalTypes' /\ DOMAIN tables'.sets = DOMAIN tables.sets
<1> SUFFICES ASSUME LocalTypes, RunRename PROVE LocalTypes' /\ DOMAIN tables'.sets = DOMAIN tables.sets
  OBVIOUS
<1> DEFINE s == Head(tasks).id
           name == Head(tasks).name
<1>1. /\ Dequeue("rename") /\ UNCHANGED <<file, exporting, signals, manager>>
      /\ tables' = IF name \in InUse(tables) \/ s \notin DOMAIN tables.sets THEN tables
                   ELSE [tables EXCEPT !.sets[s].name = name]
  BY DEF RunRename
<1>2. tasks' \in Seq(TTask) /\ exporting' \in Seq(Objs) /\ signals' \in Seq(TSignal)
  BY <1>1, OneDone DEF LocalTypes, WayTypes
<1>3. name \in TName
  BY <1>1, OneDone, TasksAre DEF LocalTypes, WayTypes
<1> HIDE DEF s, name
<1>4. CASE UNCHANGED tables
  <2>1. DataTypes'
    BY <1>1, <1>4, DataSame DEF LocalTypes
  <2> QED BY <1>1, <1>2, <1>4, <2>1, WorkerTypes
<1>5. CASE name \notin InUse(tables) /\ s \in DOMAIN tables.sets
  <2> DEFINE new == [tables.sets EXCEPT ![s] = [tables.sets[s] EXCEPT !.name = name]]
  <2>1. Base(tables) /\ Made(tables)
    BY DEF LocalTypes, DataTypes, Base
  <2>2. tables' = [tables EXCEPT !.sets = new]
    BY <1>1, <1>5
  <2>3. tables' = [tiles |-> tables.tiles, sets |-> new, listed |-> tables.listed]
    <3> HIDE DEF new
    <3> QED BY <2>1, <2>2 DEF Made
  <2>4. DOMAIN new = DOMAIN tables.sets
    OBVIOUS
  <2>5. \A t \in DOMAIN tables.sets : tables.sets[t] \in TRow
    BY <2>1 DEF Base
  <2>6. \A t \in DOMAIN tables.sets :
           /\ new[t] \in TRow
           /\ new[t].name = IF t = s THEN name ELSE tables.sets[t].name
    <3> SUFFICES ASSUME NEW t \in DOMAIN tables.sets
                 PROVE  /\ new[t] \in TRow
                        /\ new[t].name = IF t = s THEN name ELSE tables.sets[t].name
      OBVIOUS
    <3>1. /\ [tables.sets[t] EXCEPT !.name = name] \in TRow
          /\ [tables.sets[t] EXCEPT !.name = name].name = name
      BY <1>3, <2>5 DEF TRow
    <3>2. new[t] = IF t = s THEN [tables.sets[t] EXCEPT !.name = name] ELSE tables.sets[t]
      OBVIOUS
    <3> HIDE DEF new
    <3> QED BY <2>5, <3>1, <3>2
  <2> HIDE DEF new
  <2>7. \A a, b \in DOMAIN new : new[a].name = new[b].name => a = b
    <3>1. \A t \in DOMAIN tables.sets : tables.sets[t].name # name
      BY <1>5 DEF InUse
    <3> QED BY <2>1, <2>4, <2>6, <3>1 DEF Base
  <2>8. Made(tables') /\ tables'.tiles = tables.tiles /\ tables'.sets = new /\ tables'.listed = tables.listed
    BY <2>3 DEF Made
  <2>9. Base(tables')
    BY <2>1, <2>4, <2>6, <2>7, <2>8 DEF Base
  <2>10. DataTypes'
    BY <1>1, <2>4, <2>8, <2>9, TablesChange DEF LocalTypes, DataTypes
  <2> QED BY <1>1, <1>2, <2>4, <2>8, <2>10, WorkerTypes
<1> QED BY <1>1, <1>4, <1>5

\* The tables of a new database have the default set.
LEMMA NewTables == DOMAIN WithDefault(Empty).sets \subseteq SetIds
<1>1. DOMAIN Empty.sets = {}
  BY DEF Empty
<1>2. NewID(Empty) = 1 /\ InUse(Empty) = {}
  BY <1>1 DEF NewID, InUse
<1>3. WithDefault(Empty) = Insert(Empty, DefaultName, TRUE)
  BY <1>2 DEF WithDefault
<1>4. Made(Empty)
  BY EmptyBase DEF Base
<1>5. DOMAIN Insert(Empty, DefaultName, TRUE).sets = {1}
  <2>1. \A nm, b : DOMAIN Insert(Empty, nm, b).sets = DOMAIN Empty.sets \cup {NewID(Empty)}
    BY <1>1, <1>4, InsertAdds
  <2>2. DOMAIN Insert(Empty, DefaultName, TRUE).sets = DOMAIN Empty.sets \cup {NewID(Empty)}
    BY <2>1, Zenon
  <2> QED BY <1>1, <1>2, <2>2
<1>6. 1 \in SetIds
  BY ManagerAssumption DEF SetIds
<1> QED BY <1>3, <1>5, <1>6

\* _resetCacheDatabase keeps the types.
LEMMA RunResetTypes == LocalTypes /\ RunReset => LocalTypes'
<1> SUFFICES ASSUME LocalTypes, RunReset PROVE LocalTypes'
  OBVIOUS
<1>1. /\ Dequeue("reset") /\ tables' = WithDefault(Empty)
      /\ signals' = Append(signals, [kind |-> "reset"])
      /\ UNCHANGED <<file, exporting, manager>>
  BY DEF RunReset, Emit
<1>2. tasks' \in Seq(TTask) /\ exporting' \in Seq(Objs)
  BY <1>1, OneDone DEF LocalTypes, WayTypes
<1>3. signals' \in Seq(TSignal)
  BY <1>1, SignalsMade, AppendProperties DEF LocalTypes, WayTypes
<1>4. DataTypes'
  BY <1>1, EmptyBase, NewTables, TablesChange DEF LocalTypes
<1> QED BY <1>1, <1>2, <1>3, <1>4, WorkerTypes

\* What an import that merges does.
LEMMA MergeIs ==
    ASSUME DataTypes, ImportMerge
    PROVE  /\ Dequeue("import") /\ signals' = Append(signals, [kind |-> "completed"])
           /\ UNCHANGED <<file, exporting, crashed, manager>>
           /\ Base(tables') /\ DOMAIN tables'.sets \subseteq SetIds
           /\ 1 \in DOMAIN tables.sets => Grown(tables, tables', file.tiles)
<1>1. /\ Dequeue("import") /\ signals' = Append(signals, [kind |-> "completed"])
      /\ UNCHANGED <<file, exporting, crashed, manager>>
      /\ DOMAIN tables'.sets \subseteq SetIds
      /\ IF file.tiles = {} THEN tables' = tables ELSE \E ids \in Rows(file.sets) : tables' = Merged(ids)
  BY DEF ImportMerge, Emit, SetIds
<1>2. Base(tables) /\ Base(file)
  BY DEF DataTypes
<1>3. CASE file.tiles = {}
  BY <1>1, <1>2, <1>3 DEF Grown
<1>4. CASE file.tiles # {}
  <2>1. PICK ids \in Rows(file.sets) : tables' = Merged(ids)
    BY <1>1, <1>4
  <2>2. Enumerates(ids, DOMAIN file.sets)
    BY <1>2, <2>1, RowsOfBase
  <2>3. /\ ids \in Seq(DOMAIN file.sets)
        /\ \A s \in DOMAIN file.sets : \E i \in 1..Len(ids) : ids[i] = s
    BY <2>2 DEF Enumerates
  <2>4. /\ Base(tables')
        /\ 1 \in DOMAIN tables.sets =>
             Grown(tables, tables', UNION {FoundTiles(ids[j]) : j \in 1..Len(ids)})
    BY <1>2, <2>1, <2>3, MergedKeeps
  <2>5. file.tiles \subseteq UNION {FoundTiles(ids[j]) : j \in 1..Len(ids)}
    <3>1. SUFFICES ASSUME NEW h \in file.tiles
                   PROVE  \E j \in 1..Len(ids) : h \in FoundTiles(ids[j])
      OBVIOUS
    <3>2. PICK s \in DOMAIN file.sets : h \in UniqueTo(file, s)
      BY DEF DataTypes, FileIsPartition
    <3>3. PICK j \in 1..Len(ids) : ids[j] = s
      BY <2>3
    <3> QED BY <3>2, <3>3 DEF FoundTiles
  <2>6. 1 \in DOMAIN tables.sets => Grown(tables, tables', file.tiles)
    <3> DEFINE F == UNION {FoundTiles(ids[j]) : j \in 1..Len(ids)}
    <3>1. 1 \in DOMAIN tables.sets => Grown(tables, tables', F)
      BY <2>4
    <3>2. file.tiles \subseteq F
      BY <2>5
    <3> HIDE DEF F
    <3> QED BY <3>1, <3>2 DEF Grown
  <2> QED BY <1>1, <2>4, <2>6
<1> QED BY <1>3, <1>4

\* A merging import keeps the types, ...
LEMMA ImportMergeTypes == LocalTypes /\ ImportMerge => LocalTypes'
<1> SUFFICES ASSUME LocalTypes, ImportMerge PROVE LocalTypes'
  OBVIOUS
<1>1. /\ Dequeue("import") /\ signals' = Append(signals, [kind |-> "completed"])
      /\ UNCHANGED <<file, exporting, crashed, manager>>
      /\ Base(tables') /\ DOMAIN tables'.sets \subseteq SetIds
  BY MergeIs DEF LocalTypes
<1>2. tasks' \in Seq(TTask) /\ exporting' \in Seq(Objs)
  BY <1>1, OneDone DEF LocalTypes, WayTypes
<1>3. signals' \in Seq(TSignal)
  BY <1>1, SignalsMade, AppendProperties DEF LocalTypes, WayTypes
<1>4. DataTypes'
  BY <1>1, TablesChange DEF LocalTypes
<1> QED BY <1>1, <1>2, <1>3, <1>4, WorkerTypes

\* ... and so does a replacing one, ...
LEMMA ImportReplaceTypes == LocalTypes /\ ImportReplace => LocalTypes'
<1> SUFFICES ASSUME LocalTypes, ImportReplace PROVE LocalTypes'
  OBVIOUS
<1>1. /\ Dequeue("import") /\ signals' = Append(signals, [kind |-> "completed"])
      /\ UNCHANGED <<file, exporting, crashed, manager>>
      /\ tables' = WithDefault(file) /\ DOMAIN tables'.sets \subseteq SetIds
  BY DEF ImportReplace, Emit, SetIds
<1>2. tasks' \in Seq(TTask) /\ exporting' \in Seq(Objs)
  BY <1>1, OneDone DEF LocalTypes, WayTypes
<1>3. signals' \in Seq(TSignal)
  BY <1>1, SignalsMade, AppendProperties DEF LocalTypes, WayTypes
<1>4. DataTypes'
  <2>1. Base(tables')
    BY <1>1, DefaultKeeps DEF LocalTypes, DataTypes
  <2> QED BY <1>1, <2>1, TablesChange DEF LocalTypes
<1> QED BY <1>1, <1>2, <1>3, <1>4, WorkerTypes

\* ... and an export when it begins.
LEMMA BeginExportTypes == LocalTypes /\ BeginExport => LocalTypes'
<1> SUFFICES ASSUME LocalTypes, BeginExport PROVE LocalTypes'
  OBVIOUS
<1>1. /\ Dequeue("export") /\ file' = Empty /\ exporting' = Head(tasks).sets
      /\ UNCHANGED <<tables, signals, crashed, manager>>
  BY DEF BeginExport
<1>2. tasks' \in Seq(TTask) /\ exporting' \in Seq(Objs) /\ signals' \in Seq(TSignal)
  BY <1>1, OneDone, TasksAre DEF LocalTypes, WayTypes
<1>3. Base(file') /\ file'.tiles = {} /\ file'.listed = {}
  BY <1>1, EmptyBase DEF Empty
<1>4. DataTypes'
  BY <1>1, <1>3 DEF LocalTypes, DataTypes, FileIsPartition
<1> QED BY <1>1, <1>2, <1>4, WorkerTypes


\* A set that is written to the file, under a name it does not have, leaves it a database
\* in which each tile is listed once.
LEMMA ExportedKeeps ==
    ASSUME DataTypes, NEW o \in TObject, o.name \notin InUse(file)
    PROVE  LET f == Exported(o)
           IN  /\ Base(f) /\ f.listed \subseteq f.tiles \X DOMAIN f.sets
               /\ \A h \in f.tiles : \E s \in DOMAIN f.sets : h \in UniqueTo(f, s)
<1> DEFINE id == NewID(file)
           g == Insert(file, o.name, o.isDefault)
           new == {h \in tables.tiles : <<h, o.id>> \in tables.listed} \ file.tiles
           f == [g EXCEPT !.tiles = @ \cup new, !.listed = @ \cup (new \X {id})]
<1>1. Exported(o) = f
  BY DEF Exported
<1>2. Base(file) /\ Made(file) /\ Base(tables)
  BY DEF DataTypes, Base
<1>3. o.name \in TName /\ o.isDefault \in BOOLEAN
  BY DEF TObject
<1>4. Base(g)
  BY <1>2, <1>3, InsertKeeps
<1>5. PICK n \in Nat : DOMAIN file.sets \subseteq 1..n
  BY <1>2 DEF Base
<1>6. id \notin DOMAIN file.sets
  BY <1>5, NewIDIs
<1>7. DOMAIN g.sets = DOMAIN file.sets \cup {id} /\ g.tiles = file.tiles /\ g.listed = file.listed
  <2>1. \A nm, b : DOMAIN Insert(file, nm, b).sets = DOMAIN file.sets \cup {NewID(file)}
    BY <1>2, <1>6, InsertAdds
  <2>2. \A nm, b : Insert(file, nm, b).tiles = file.tiles /\ Insert(file, nm, b).listed = file.listed
    BY <1>2, InsertLeaves
  <2> QED BY <2>1, <2>2
<1>8. new \in SUBSET Hash
  BY <1>2 DEF Base
<1>9. new \cap file.tiles = {}
  OBVIOUS
<1> HIDE DEF id, new, g
<1>10. Made(g)
  BY <1>4 DEF Base
<1>11. f.tiles = g.tiles \cup new /\ f.sets = g.sets /\ f.listed = g.listed \cup (new \X {id})
  BY <1>10, WithTiles
<1>12. Base(f)
  BY <1>4, <1>7, <1>8, TilesKeep
<1> HIDE DEF f
<1>13. file.listed \subseteq file.tiles \X DOMAIN file.sets
  BY DEF DataTypes
<1>14. f.listed \subseteq f.tiles \X DOMAIN f.sets
  BY <1>7, <1>11, <1>13
<1>15. ASSUME NEW h \in f.tiles PROVE \E s \in DOMAIN f.sets : h \in UniqueTo(f, s)
  <2>1. CASE h \in file.tiles
    <3>1. PICK s \in DOMAIN file.sets : h \in UniqueTo(file, s)
      BY <2>1 DEF DataTypes, FileIsPartition
    <3>2. {p \in file.listed : p[1] = h} = {<<h, s>>}
      BY <3>1 DEF UniqueTo
    <3>3. \A p \in new \X {id} : p[1] # h
      BY <1>9, <2>1
    <3>4. {p \in f.listed : p[1] = h} = {p \in file.listed : p[1] = h}
      BY <1>7, <1>11, <3>3
    <3> QED BY <1>7, <1>11, <3>2, <3>4 DEF UniqueTo
  <2>2. CASE h \in new
    <3>1. \A p \in file.listed : p[1] # h
      BY <1>9, <1>13, <2>2
    <3>2. \A p \in new \X {id} : p[1] = h <=> p = <<h, id>>
      OBVIOUS
    <3>3. <<h, id>> \in new \X {id}
      BY <2>2
    <3>4. {p \in f.listed : p[1] = h} = {<<h, id>>}
      BY <1>7, <1>11, <3>1, <3>2, <3>3
    <3> QED BY <1>7, <1>11, <3>4 DEF UniqueTo
  <2> QED BY <1>7, <1>11, <2>1, <2>2
<1> QED BY <1>1, <1>12, <1>14, <1>15

\* What the export of one set does: it reads an object, or crashes.
LEMMA ExportIs ==
    ASSUME WayTypes, ExportSet
    PROVE  /\ exporting # <<>> /\ UNCHANGED <<tables, tasks, manager>>
           /\ \/ Head(exporting) \notin DOMAIN objects /\ crashed' /\ UNCHANGED <<file, exporting, signals>>
              \/ /\ Head(exporting) \in DOMAIN objects /\ UNCHANGED crashed
                 /\ \/ UNCHANGED file
                    \/ /\ objects[Head(exporting)].name \notin InUse(file)
                       /\ file' = Exported(objects[Head(exporting)])
                 /\ exporting' \in {<<>>, Tail(exporting)}
                 /\ IF exporting' = <<>> THEN signals' = Append(signals, [kind |-> "completed"])
                    ELSE UNCHANGED signals
BY DEF ExportSet, Emit

\* The export of a set keeps the types.
LEMMA ExportSetTypes == LocalTypes /\ ExportSet => LocalTypes'
<1> SUFFICES ASSUME LocalTypes, ExportSet PROVE LocalTypes'
  OBVIOUS
<1>1. exporting # <<>> /\ UNCHANGED <<tables, tasks, manager>>
  BY ExportIs DEF LocalTypes
<1>2. Tail(exporting) \in Seq(Objs) /\ <<>> \in Seq(Objs)
  BY <1>1, HeadTailProperties, EmptySeq DEF LocalTypes, WayTypes
<1>3. exporting' \in Seq(Objs)
  <2>1. exporting' \in {exporting, <<>>, Tail(exporting)}
    BY ExportIs DEF LocalTypes
  <2> QED BY <1>2, <2>1 DEF LocalTypes, WayTypes
<1>4. tasks' \in Seq(TTask)
  BY <1>1 DEF LocalTypes, WayTypes
<1>5. signals' \in Seq(TSignal)
  <2>1. UNCHANGED signals \/ signals' = Append(signals, [kind |-> "completed"])
    BY ExportIs DEF LocalTypes
  <2>2. signals \in Seq(TSignal) /\ [kind |-> "completed"] \in TSignal
    BY SignalsMade DEF LocalTypes, WayTypes
  <2> QED BY <2>1, <2>2, AppendProperties
<1>6. DataTypes'
  <2>1. CASE UNCHANGED file
    BY <1>1, <2>1, DataSame DEF LocalTypes
  <2>2. ASSUME Head(exporting) \in DOMAIN objects, file' = Exported(objects[Head(exporting)]),
               objects[Head(exporting)].name \notin InUse(file)
        PROVE  DataTypes'
    <3>1. objects[Head(exporting)] \in TObject
      BY <2>2 DEF LocalTypes, WayTypes, ObjectTypes
    <3>2. /\ Base(file') /\ file'.listed \subseteq file'.tiles \X DOMAIN file'.sets
          /\ \A h \in file'.tiles : \E s \in DOMAIN file'.sets : h \in UniqueTo(file', s)
      BY <2>2, <3>1, ExportedKeeps DEF LocalTypes
    <3> QED BY <1>1, <3>2 DEF LocalTypes, DataTypes, FileIsPartition, UniqueTo
  <2> QED BY <2>1, <2>2, ExportIs DEF LocalTypes
<1> QED BY <1>1, <1>3, <1>4, <1>5, <1>6, WorkerTypes

\* The types hold at the start.
LEMMA LocalStart == ManagerInit => LocalTypes
<1> SUFFICES ASSUME ManagerInit PROVE LocalTypes
  OBVIOUS
<1>1. /\ tables = WithDefault(Empty) /\ file = Empty /\ objects = <<>> /\ list = <<>>
      /\ tasks = <<>> /\ exporting = <<>> /\ signals = <<>> /\ action = "none"
  BY DEF ManagerInit
<1>2. DataTypes
  <2>1. file.tiles = {} /\ file.listed = {}
    BY <1>1 DEF Empty
  <2> QED BY <1>1, <2>1, EmptyBase, NewTables DEF DataTypes, FileIsPartition
<1>3. ObjectTypes(objects)
  <2>1. DOMAIN objects = {}
    BY <1>1
  <2> QED BY <2>1, FS_EmptySet DEF ObjectTypes
<1>4. WayTypes
  BY <1>1, <1>3, EmptySeq DEF WayTypes
<1>5. ListIsThere
  BY <1>1 DEF ListIsThere
<1> QED BY <1>2, <1>4, <1>5 DEF LocalTypes

\* Every step keeps the types.
LEMMA LocalKeeps == LocalTypes /\ [ManagerNext]_managerVars => LocalTypes'
<1> SUFFICES ASSUME LocalTypes, [ManagerNext]_managerVars PROVE LocalTypes'
  OBVIOUS
<1>1. CASE UNCHANGED managerVars
  <2>1. UNCHANGED <<tables, file, tasks, exporting, signals, objects, list, action>>
    BY <1>1 DEF managerVars, manager
  <2> QED BY <2>1, DataSame DEF LocalTypes, WayTypes, ListIsThere
<1>2. CASE LoadTileSets \/ HandleReset \/ HandleCompleted \/ HandleNewObject \/ HandleDeleted \/ ResetAction
  BY <1>2, LoadTileSetsTypes, HandleResetTypes, HandleCompletedTypes, HandleNewObjectTypes,
     HandleDeletedTypes, ResetActionTypes
<1>3. CASE \E name \in Names, map, elevation \in BOOLEAN : StartDownload(name, map, elevation)
  BY <1>3, StartDownloadTypes
<1>4. CASE \E i \in DOMAIN list : DeleteTileSet(i)
  BY <1>4, DeleteTileSetTypes
<1>5. CASE \E i \in DOMAIN list, name \in Names : RenameTileSet(i, name)
  BY <1>5, RenameTileSetTypes
<1>6. CASE \E selected \in SUBSET ToSet(list) : ExportSets(selected)
  BY <1>6, ExportSetsTypes
<1>7. CASE \E replace \in BOOLEAN : ImportSets(replace)
  BY <1>7, ImportSetsTypes
<1>8. CASE FetchTileSets \/ CreateTileSet \/ RunDelete \/ RunRename \/ RunReset
  BY <1>8, FetchTileSetsTypes, CreateTileSetTypes, RunDeleteTypes, RunRenameTypes, RunResetTypes
<1>9. CASE \E h \in Hash, s \in DOMAIN tables.sets : SaveTile(h, s)
  BY <1>9, SaveTileTypes
<1>10. CASE ImportMerge \/ ImportReplace \/ BeginExport \/ ExportSet
  BY <1>10, ImportMergeTypes, ImportReplaceTypes, BeginExportTypes, ExportSetTypes
<1> QED BY <1>1, <1>2, <1>3, <1>4, <1>5, <1>6, <1>7, <1>8, <1>9, <1>10 DEF ManagerNext, Step


-----------------------------------------------------------------------------
(* An export reads objects that are there *)

\* The deletion of a set has been announced
ToldOf(sig, s) == \E i \in 1..Len(sig) : sig[i].kind = "deleted" /\ sig[i].id = s
SafeIn(o, sig, objs) == o \in DOMAIN objs /\ ~ToldOf(sig, objs[o].id)

\* What an export reads or will read is there, nobody has been told that its set is
\* deleted, and no deletion of it is ahead of the export
Living(q, e, sig, objs) ==
    /\ \A i \in 1..Len(e) : SafeIn(e[i], sig, objs)
    /\ \A i \in 1..Len(q) : q[i].kind = "export" =>
         \A k \in 1..Len(q[i].sets) :
            /\ SafeIn(q[i].sets[k], sig, objs)
            /\ \A j \in 1..(i - 1) : ~(q[j].kind = "delete" /\ q[j].id = objs[q[i].sets[k]].id)

ReadsLiving == ~doomed => ~crashed /\ Living(tasks, exporting, signals, objects)

\* Fewer announcements do no harm.
LEMMA LivingLess ==
    ASSUME NEW q, NEW e, NEW sig, NEW objs, NEW sig2, Living(q, e, sig, objs),
           \A s : ToldOf(sig2, s) => ToldOf(sig, s)
    PROVE  Living(q, e, sig2, objs)
BY DEF Living, SafeIn

\* A signal of something else announces no deletion.
LEMMA ToldAppend ==
    ASSUME NEW sig \in Seq(TSignal), NEW x \in TSignal, x.kind # "deleted"
    PROVE  \A s : ToldOf(Append(sig, x), s) => ToldOf(sig, s)
<1> DEFINE r == Append(sig, x)
<1>1. /\ Len(r) = Len(sig) + 1 /\ \A i \in 1..Len(sig) : r[i] = sig[i]
      /\ r[Len(sig) + 1] = x /\ Len(sig) \in Nat
  BY AppendProperties, LenProperties
<1> HIDE DEF r
<1>2. \A i \in 1..Len(r) : i \in 1..Len(sig) \/ i = Len(sig) + 1
  BY <1>1
<1> QED BY <1>1, <1>2 DEF ToldOf, r

\* Nor do several.
LEMMA ToldConcat ==
    ASSUME NEW sig \in Seq(TSignal), NEW new \in Seq(TSignal),
           \A i \in 1..Len(new) : new[i].kind # "deleted"
    PROVE  \A s : ToldOf(sig \o new, s) => ToldOf(sig, s)
<1> DEFINE r == sig \o new
<1>1. /\ Len(r) = Len(sig) + Len(new) /\ Len(sig) \in Nat /\ Len(new) \in Nat
      /\ \A i \in 1..Len(sig) + Len(new) : r[i] = IF i <= Len(sig) THEN sig[i] ELSE new[i - Len(sig)]
  BY ConcatProperties, LenProperties
<1> HIDE DEF r
<1>2. \A i \in 1..Len(r) : IF i <= Len(sig) THEN i \in 1..Len(sig) /\ r[i] = sig[i]
                           ELSE i - Len(sig) \in 1..Len(new) /\ r[i] = new[i - Len(sig)]
  BY <1>1
<1> QED BY <1>2 DEF ToldOf, r

\* The signals behind the first are among them.
LEMMA ToldTail ==
    ASSUME NEW sig \in Seq(TSignal), sig # <<>>
    PROVE  \A s : ToldOf(Tail(sig), s) => ToldOf(sig, s)
<1> DEFINE r == Tail(sig)
<1>1. Len(r) = Len(sig) - 1 /\ \A i \in 1..Len(r) : r[i] = sig[i + 1]
  BY HeadTailProperties
<1>2. Len(sig) \in Nat
  BY LenProperties
<1> HIDE DEF r
<1>3. \A i \in 1..Len(r) : i + 1 \in 1..Len(sig)
  BY <1>1, <1>2
<1> QED BY <1>1, <1>3 DEF ToldOf, r

\* Objects nobody points to, or whose deletion has been announced, may go and come.
LEMMA LivingObjects ==
    ASSUME NEW q \in Seq(TTask), NEW e \in Seq(Objs), NEW sig, NEW objs, NEW objs2,
           Living(q, e, sig, objs),
           \A o \in DOMAIN objs : o \in Pointed(q, e) /\ ~ToldOf(sig, objs[o].id) =>
              o \in DOMAIN objs2 /\ objs2[o].id = objs[o].id
    PROVE  Living(q, e, sig, objs2)
<1>1. DOMAIN q = 1..Len(q) /\ DOMAIN e = 1..Len(e)
  BY LenProperties
<1>2. ASSUME NEW o \in Pointed(q, e), SafeIn(o, sig, objs)
      PROVE  SafeIn(o, sig, objs2) /\ objs2[o].id = objs[o].id
  BY <1>2 DEF SafeIn
<1>3. ASSUME NEW i \in 1..Len(e) PROVE SafeIn(e[i], sig, objs2)
  <2>1. e[i] \in Pointed(q, e)
    BY <1>1 DEF Pointed, ToSet
  <2> QED BY <1>2, <2>1 DEF Living
<1>4. ASSUME NEW i \in 1..Len(q), q[i].kind = "export", NEW k \in 1..Len(q[i].sets)
      PROVE  /\ SafeIn(q[i].sets[k], sig, objs2)
             /\ \A j \in 1..(i - 1) : ~(q[j].kind = "delete" /\ q[j].id = objs2[q[i].sets[k]].id)
  <2>1. q[i] \in TTask
    BY ElementOfSeq
  <2>2. q[i].sets \in Seq(Objs)
    BY <1>4, <2>1, TasksAre
  <2>3. DOMAIN q[i].sets = 1..Len(q[i].sets)
    BY <2>2, LenProperties
  <2>4. q[i].sets[k] \in ToSet(q[i].sets)
    BY <2>3 DEF ToSet
  <2>5. q[i].sets[k] \in Pointed(q, e)
    BY <1>1, <1>4, <2>4 DEF Pointed
  <2>6. /\ SafeIn(q[i].sets[k], sig, objs)
        /\ \A j \in 1..(i - 1) : ~(q[j].kind = "delete" /\ q[j].id = objs[q[i].sets[k]].id)
    BY <1>4 DEF Living
  <2> QED BY <1>2, <2>5, <2>6
<1> QED BY <1>3, <1>4 DEF Living

\* One more task that is no export.
LEMMA LivingTask ==
    ASSUME NEW q \in Seq(TTask), NEW e, NEW sig, NEW objs, NEW t \in TTask,
           Living(q, e, sig, objs), t.kind # "export"
    PROVE  Living(Append(q, t), e, sig, objs)
<1> DEFINE r == Append(q, t)
<1>1. /\ Len(r) = Len(q) + 1 /\ \A i \in 1..Len(q) : r[i] = q[i]
      /\ r[Len(q) + 1] = t /\ Len(q) \in Nat
  BY AppendProperties, LenProperties
<1> HIDE DEF r
<1>2. \A i \in 1..Len(r) : r[i].kind = "export" => i \in 1..Len(q) /\ r[i] = q[i]
  <2>1. \A i \in 1..Len(r) : i \in 1..Len(q) \/ i = Len(q) + 1
    BY <1>1
  <2> QED BY <1>1, <2>1
<1>3. \A i \in 1..Len(q) : \A j \in 1..(i - 1) : j \in 1..Len(q) /\ r[j] = q[j]
  BY <1>1
<1> QED BY <1>2, <1>3 DEF Living, r

\* One more export, of sets that are there and that nobody is deleting.
LEMMA LivingExport ==
    ASSUME NEW q \in Seq(TTask), NEW e, NEW sig, NEW objs, NEW t \in TTask,
           Living(q, e, sig, objs), t.kind = "export",
           \A k \in 1..Len(t.sets) :
              /\ SafeIn(t.sets[k], sig, objs)
              /\ \A j \in 1..Len(q) : ~(q[j].kind = "delete" /\ q[j].id = objs[t.sets[k]].id)
    PROVE  Living(Append(q, t), e, sig, objs)
<1> DEFINE r == Append(q, t)
<1>1. /\ Len(r) = Len(q) + 1 /\ \A i \in 1..Len(q) : r[i] = q[i]
      /\ r[Len(q) + 1] = t /\ Len(q) \in Nat
  BY AppendProperties, LenProperties
<1> HIDE DEF r
<1>2. \A i \in 1..Len(r) : i \in 1..Len(q) \/ i = Len(q) + 1
  BY <1>1
<1>3. ASSUME NEW i \in 1..Len(r), r[i].kind = "export", NEW k \in 1..Len(r[i].sets)
      PROVE  /\ SafeIn(r[i].sets[k], sig, objs)
             /\ \A j \in 1..(i - 1) : ~(r[j].kind = "delete" /\ r[j].id = objs[r[i].sets[k]].id)
  <2>1. CASE i \in 1..Len(q)
    <3>1. r[i] = q[i] /\ \A j \in 1..(i - 1) : r[j] = q[j]
      BY <1>1, <2>1
    <3> QED BY <1>3, <2>1, <3>1 DEF Living
  <2>2. CASE i = Len(q) + 1
    <3>1. r[i] = t /\ \A j \in 1..(i - 1) : j \in 1..Len(q) /\ r[j] = q[j]
      BY <1>1, <2>2
    <3> QED BY <1>3, <3>1
  <2> QED BY <1>2, <2>1, <2>2
<1>4. \A i \in 1..Len(e) : SafeIn(e[i], sig, objs)
  BY DEF Living
<1> QED BY <1>3, <1>4 DEF Living, r

\* One task less.
LEMMA LivingRest ==
    ASSUME NEW q \in Seq(TTask), NEW e, NEW sig, NEW objs, Living(q, e, sig, objs), q # <<>>
    PROVE  Living(Tail(q), e, sig, objs)
<1> DEFINE r == Tail(q)
<1>1. Len(r) = Len(q) - 1 /\ \A i \in 1..Len(r) : r[i] = q[i + 1]
  BY HeadTailProperties
<1>2. Len(q) \in Nat
  BY LenProperties
<1> HIDE DEF r
<1>3. \A i \in 1..Len(r) : /\ i + 1 \in 1..Len(q)
                           /\ \A j \in 1..(i - 1) : j + 1 \in 1..((i + 1) - 1) /\ r[j] = q[j + 1]
  BY <1>1, <1>2
<1> QED BY <1>1, <1>3 DEF Living, r

\* The first task is a deletion, which is announced: no export behind it is of that set.
LEMMA LivingDeletion ==
    ASSUME NEW q \in Seq(TTask), NEW e, e = <<>>, NEW sig \in Seq(TSignal), NEW objs, q # <<>>,
           Living(q, e, sig, objs), Head(q).kind = "delete", Head(q).id \in SetIds
    PROVE  Living(Tail(q), e, Append(sig, [kind |-> "deleted", id |-> Head(q).id]), objs)
<1> DEFINE r == Tail(q)
           x == [kind |-> "deleted", id |-> Head(q).id]
           sig2 == Append(sig, x)
<1>1. Len(r) = Len(q) - 1 /\ \A i \in 1..Len(r) : r[i] = q[i + 1]
  BY HeadTailProperties
<1>2. Len(q) \in Nat \ {0} /\ q[1] = Head(q)
  BY EmptySeq
<1>3. Living(r, e, sig, objs)
  BY LivingRest
<1>4. \A s : ToldOf(sig2, s) => ToldOf(sig, s) \/ s = Head(q).id
  <2>1. x \in TSignal /\ x.id = Head(q).id
    BY SignalsMade
  <2> HIDE DEF x
  <2>2. /\ Len(sig2) = Len(sig) + 1 /\ \A i \in 1..Len(sig) : sig2[i] = sig[i]
        /\ sig2[Len(sig) + 1] = x /\ Len(sig) \in Nat
    BY <2>1, AppendProperties, LenProperties
  <2> HIDE DEF sig2
  <2>3. \A i \in 1..Len(sig2) : i \in 1..Len(sig) \/ i = Len(sig) + 1
    BY <2>2
  <2> QED BY <2>1, <2>2, <2>3 DEF ToldOf
<1>5. \A i \in 1..Len(r) : r[i].kind = "export" =>
         \A k \in 1..Len(r[i].sets) : objs[r[i].sets[k]].id # Head(q).id
  <2> SUFFICES ASSUME NEW i \in 1..Len(r), r[i].kind = "export", NEW k \in 1..Len(r[i].sets)
               PROVE  objs[r[i].sets[k]].id # Head(q).id
    OBVIOUS
  <2> HIDE DEF r
  <2>1. i + 1 \in 1..Len(q) /\ r[i] = q[i + 1] /\ 1 \in 1..((i + 1) - 1)
    BY <1>1, <1>2
  <2>2. ~(q[1].kind = "delete" /\ q[1].id = objs[r[i].sets[k]].id)
    BY <2>1 DEF Living
  <2> QED BY <1>2, <2>2
<1>6. Len(e) = 0
  BY EmptySeq
<1> HIDE DEF r, sig2, x
<1>7. Living(r, e, sig2, objs)
  BY <1>3, <1>4, <1>5, <1>6 DEF Living, SafeIn
<1> QED BY <1>7 DEF r, sig2, x

\* The first task is an export, which begins.
LEMMA LivingBegin ==
    ASSUME NEW q \in Seq(TTask), NEW e, NEW sig, NEW objs, q # <<>>,
           Living(q, e, sig, objs), Head(q).kind = "export"
    PROVE  Living(Tail(q), Head(q).sets, sig, objs)
<1>1. Len(q) \in Nat \ {0} /\ q[1] = Head(q)
  BY EmptySeq
<1>2. Living(Tail(q), e, sig, objs)
  BY LivingRest
<1>3. \A k \in 1..Len(Head(q).sets) : SafeIn(Head(q).sets[k], sig, objs)
  <2>1. 1 \in 1..Len(q)
    BY <1>1
  <2> QED BY <1>1, <2>1 DEF Living
<1> QED BY <1>2, <1>3 DEF Living

\* An export goes on, or ends.
LEMMA LivingNext ==
    ASSUME NEW q, NEW e \in Seq(Objs), NEW sig, NEW objs, e # <<>>, Living(q, e, sig, objs),
           NEW e2 \in {<<>>, Tail(e)}
    PROVE  Living(q, e2, sig, objs)
<1>1. Len(Tail(e)) = Len(e) - 1 /\ \A i \in 1..Len(Tail(e)) : Tail(e)[i] = e[i + 1]
  BY HeadTailProperties
<1>2. Len(e) \in Nat
  BY LenProperties
<1>3. \A i \in 1..Len(e2) : \E j \in 1..Len(e) : e2[i] = e[j]
  <2>1. \A i \in 1..Len(Tail(e)) : i + 1 \in 1..Len(e)
    BY <1>1, <1>2
  <2> QED BY <1>1, <2>1, EmptySeq
<1> QED BY <1>3 DEF Living


\* The state an export depends on.
LEMMA WaysAre ==
    ASSUME LocalTypes
    PROVE  /\ tasks \in Seq(TTask) /\ signals \in Seq(TSignal) /\ exporting \in Seq(Objs)
           /\ list \in Seq(Objs) /\ ObjectTypes(objects)
BY DEF LocalTypes, WayTypes

\* A list that is asked for anew keeps the objects that are pointed to.
LEMMA LoadReads ==
    ASSUME LocalTypes, NEW sigs, Load(sigs), NEW sig2,
           Living(tasks, exporting, signals, objects),
           \A s : ToldOf(sig2, s) => ToldOf(signals, s)
    PROVE  Living(tasks', exporting, sig2, objects')
<1>1. \A o \in Pointed(tasks, exporting) \cap DOMAIN objects :
         o \in DOMAIN objects' /\ objects'[o] = objects[o]
  BY DEF Load, Restrict
<1>2. Living(tasks, exporting, signals, objects')
  BY <1>1, WaysAre, LivingObjects
<1>3. Living(tasks, exporting, sig2, objects')
  BY <1>2, LivingLess
<1> DEFINE t == [kind |-> "fetch"]
<1>4. t \in TTask /\ t.kind # "export" /\ tasks' = Append(tasks, t)
  BY TasksMade DEF Load, Enqueued
<1> HIDE DEF t
<1> QED BY <1>3, <1>4, WaysAre, LivingTask

\* The requests of the user.
LEMMA UserReads ==
    ASSUME LocalTypes, ReadsLiving,
           \/ LoadTileSets
           \/ \E name \in Names, map, elevation \in BOOLEAN : StartDownload(name, map, elevation)
           \/ \E i \in DOMAIN list : DeleteTileSet(i)
           \/ \E i \in DOMAIN list, name \in Names : RenameTileSet(i, name)
           \/ \E selected \in SUBSET ToSet(list) : ExportSets(selected)
           \/ \E replace \in BOOLEAN : ImportSets(replace)
           \/ ResetAction
    PROVE  ReadsLiving'
<1>1. doomed => doomed'
  BY DEF LoadTileSets, StartDownload, DeleteTileSet, RenameTileSet, ExportSets, ImportSets, ResetAction
<1>2. UNCHANGED <<crashed, exporting, signals>>
  BY DEF LoadTileSets, StartDownload, DeleteTileSet, RenameTileSet, ExportSets, ImportSets, ResetAction
<1> SUFFICES ASSUME ~doomed' PROVE Living(tasks', exporting, signals, objects')
  BY <1>1, <1>2 DEF ReadsLiving
<1>3. Living(tasks, exporting, signals, objects)
  BY <1>1 DEF ReadsLiving
<1>0. /\ tasks \in Seq(TTask) /\ signals \in Seq(TSignal) /\ exporting \in Seq(Objs)
  BY WaysAre
<1>4. ASSUME NEW t \in TTask, t.kind # "export", tasks' = Enqueued(tasks, t),
             DOMAIN objects' = DOMAIN objects, \A o \in DOMAIN objects : objects'[o].id = objects[o].id
      PROVE  Living(tasks', exporting, signals, objects')
  <2>1. Living(tasks, exporting, signals, objects')
    BY <1>0, <1>3, <1>4, LivingObjects
  <2> QED BY <1>0, <1>4, <2>1, LivingTask DEF Enqueued
<1>5. CASE LoadTileSets
  <2>1. Load(signals)
    BY <1>5 DEF LoadTileSets
  <2> QED BY <1>3, <2>1, LoadReads
<1>6. ASSUME NEW name \in Names, NEW map \in BOOLEAN, NEW elevation \in BOOLEAN,
             StartDownload(name, map, elevation)
      PROVE  Living(tasks', exporting, signals, objects')
  <2>1. PICK t, u \in TTask :
             /\ t.kind = "create" /\ u.kind = "create"
             /\ tasks' \in {tasks, Append(tasks, t), Append(tasks, u), Append(Append(tasks, t), u)}
    BY <1>0, <1>6, CreatesAre
  <2>2. UNCHANGED objects
    BY <1>6 DEF StartDownload
  <2>3. Append(tasks, t) \in Seq(TTask) /\ t.kind # "export" /\ u.kind # "export"
    BY <1>0, <2>1, AppendProperties
  <2>4. Living(Append(tasks, t), exporting, signals, objects)
    BY <1>0, <1>3, <2>1, <2>3, LivingTask
  <2>5. Living(Append(tasks, u), exporting, signals, objects)
    BY <1>0, <1>3, <2>1, <2>3, LivingTask
  <2>6. Living(Append(Append(tasks, t), u), exporting, signals, objects)
    BY <2>1, <2>3, <2>4, LivingTask
  <2> QED BY <1>3, <2>1, <2>2, <2>4, <2>5, <2>6
<1>7. ASSUME NEW i \in DOMAIN list, DeleteTileSet(i)
      PROVE  Living(tasks', exporting, signals, objects')
  <2>1. /\ \E t \in TTask : tasks' = Enqueued(tasks, t) /\ t.kind \in {"reset", "delete"}
        /\ DOMAIN objects' = DOMAIN objects /\ \A o \in DOMAIN objects : objects'[o].id = objects[o].id
    BY <1>7, DeletesAre DEF LocalTypes
  <2> QED BY <1>4, <2>1
<1>8. ASSUME NEW i \in DOMAIN list, NEW name \in Names, RenameTileSet(i, name)
      PROVE  Living(tasks', exporting, signals, objects')
  <2>1. /\ \E t \in TTask : tasks' = Enqueued(tasks, t) /\ t.kind = "rename"
        /\ DOMAIN objects' = DOMAIN objects /\ \A o \in DOMAIN objects : objects'[o].id = objects[o].id
    BY <1>8, RenamesAre DEF LocalTypes
  <2> QED BY <1>4, <2>1
<1>9. ASSUME NEW selected \in SUBSET ToSet(list), ExportSets(selected)
      PROVE  Living(tasks', exporting, signals, objects')
  <2> DEFINE t == [kind |-> "export", sets |-> Chosen(selected)]
  <2>1. /\ tasks' = Append(tasks, t) /\ UNCHANGED objects
        /\ \A o \in selected : ~BeingDeleted(objects[o].id)
    BY <1>9 DEF ExportSets, Enqueued
  <2>2. /\ Chosen(selected) \in Seq(Objs)
        /\ \A k \in 1..Len(Chosen(selected)) :
              /\ Chosen(selected)[k] \in selected
              /\ \E i \in 1..Len(list) : Chosen(selected)[k] = list[i]
    BY ChosenAre DEF LocalTypes
  <2>3. t \in TTask /\ t.kind = "export" /\ t.sets = Chosen(selected)
    BY <2>2, TasksMade
  <2> HIDE DEF t
  <2>4. \A k \in 1..Len(t.sets) :
           /\ SafeIn(t.sets[k], signals, objects)
           /\ \A j \in 1..Len(tasks) : ~(tasks[j].kind = "delete" /\ tasks[j].id = objects[t.sets[k]].id)
    <3> SUFFICES ASSUME NEW k \in 1..Len(t.sets)
                 PROVE  /\ SafeIn(t.sets[k], signals, objects)
                        /\ \A j \in 1..Len(tasks) :
                              ~(tasks[j].kind = "delete" /\ tasks[j].id = objects[t.sets[k]].id)
      OBVIOUS
    <3>1. t.sets[k] \in selected /\ t.sets[k] \in DOMAIN objects
      BY <2>2, <2>3 DEF LocalTypes, ListIsThere
    <3>2. ~BeingDeleted(objects[t.sets[k]].id)
      BY <2>1, <3>1
    <3>3. DOMAIN tasks = 1..Len(tasks) /\ DOMAIN signals = 1..Len(signals)
      BY <1>0, LenProperties
    <3> QED BY <3>1, <3>2, <3>3 DEF BeingDeleted, SafeIn, ToldOf
  <2>5. Living(Append(tasks, t), exporting, signals, objects)
    BY <1>0, <1>3, <2>3, <2>4, LivingExport
  <2> QED BY <2>1, <2>5
<1>10. ASSUME NEW replace \in BOOLEAN, ImportSets(replace)
       PROVE  Living(tasks', exporting, signals, objects')
  <2> DEFINE t == [kind |-> "import", replace |-> replace]
  <2>1. t \in TTask /\ t.kind # "export"
    BY TasksMade
  <2>2. tasks' = Enqueued(tasks, t) /\ UNCHANGED objects
    BY <1>10 DEF ImportSets
  <2> HIDE DEF t
  <2> QED BY <1>4, <2>1, <2>2
<1>11. CASE ResetAction
  <2>1. UNCHANGED <<tasks, objects>>
    BY <1>11 DEF ResetAction
  <2> QED BY <1>3, <2>1
<1> QED BY <1>5, <1>6, <1>7, <1>8, <1>9, <1>10, <1>11

\* The handlers of the signals.
LEMMA HandlersRead ==
    ASSUME LocalTypes, ReadsLiving,
           HandleNewObject \/ HandleDeleted \/ HandleReset \/ HandleCompleted
    PROVE  ReadsLiving'
<1>1. UNCHANGED <<crashed, doomed, exporting>>
  BY DEF HandleNewObject, HandleDeleted, HandleReset, HandleCompleted
<1> SUFFICES ASSUME ~doomed PROVE Living(tasks', exporting, signals', objects')
  BY <1>1 DEF ReadsLiving
<1>2. Living(tasks, exporting, signals, objects)
  BY DEF ReadsLiving
<1>3. /\ tasks \in Seq(TTask) /\ signals \in Seq(TSignal) /\ exporting \in Seq(Objs)
  BY WaysAre
<1>4. signals # <<>> /\ signals' = Tail(signals)
  BY DEF HandleNewObject, HandleDeleted, HandleReset, HandleCompleted, Signalled
<1>5. \A s : ToldOf(signals', s) => ToldOf(signals, s)
  BY <1>3, <1>4, ToldTail
<1>6. CASE HandleNewObject
  <2>1. UNCHANGED tasks /\ \A p \in DOMAIN objects : p \in DOMAIN objects' /\ objects'[p] = objects[p]
    BY <1>6, NewObjectIs DEF LocalTypes
  <2>2. Living(tasks, exporting, signals, objects')
    BY <1>2, <1>3, <2>1, LivingObjects
  <2> QED BY <1>5, <2>1, <2>2, LivingLess
<1>7. CASE HandleDeleted
  <2>1. /\ UNCHANGED tasks /\ Signalled("deleted")
        /\ \A o \in DOMAIN objects : objects[o].id # Head(signals).id =>
              o \in DOMAIN objects' /\ objects'[o] = objects[o]
    BY <1>7, DeletedIsGone DEF LocalTypes
  <2>2. ToldOf(signals, Head(signals).id)
    <3>1. Len(signals) \in Nat \ {0} /\ signals[1] = Head(signals) /\ Head(signals).kind = "deleted"
      BY <1>3, <2>1, OneHandled
    <3>2. 1 \in 1..Len(signals)
      BY <3>1
    <3> QED BY <3>1, <3>2 DEF ToldOf
  <2>3. Living(tasks, exporting, signals, objects')
    BY <1>2, <1>3, <2>1, <2>2, LivingObjects
  <2> QED BY <1>5, <2>1, <2>3, LivingLess
<1>8. CASE HandleReset
  <2>1. Load(Tail(signals))
    BY <1>8 DEF HandleReset
  <2> QED BY <1>2, <1>5, <2>1, LoadReads
<1>9. CASE HandleCompleted
  <2>1. CASE Load(Tail(signals))
    BY <1>2, <1>5, <2>1, LoadReads
  <2>2. CASE UNCHANGED <<objects, tasks>>
    BY <1>2, <1>5, <2>2, LivingLess
  <2> QED BY <1>9, <2>1, <2>2 DEF HandleCompleted
<1> QED BY <1>6, <1>7, <1>8, <1>9

\* The steps of the worker.
LEMMA WorkerReads ==
    ASSUME LocalTypes, ReadsLiving,
           \/ FetchTileSets \/ CreateTileSet \/ RunDelete \/ RunRename \/ RunReset
           \/ \E h \in Hash, s \in DOMAIN tables.sets : SaveTile(h, s)
           \/ ImportMerge \/ ImportReplace \/ BeginExport \/ ExportSet
    PROVE  ReadsLiving'
<1>1. UNCHANGED <<doomed, objects>>
  BY DEF FetchTileSets, CreateTileSet, RunDelete, RunRename, RunReset, SaveTile, ImportMerge,
     ImportReplace, BeginExport, ExportSet, manager
<1> SUFFICES ASSUME ~doomed PROVE ~crashed' /\ Living(tasks', exporting', signals', objects)
  BY <1>1 DEF ReadsLiving
<1>2. Living(tasks, exporting, signals, objects) /\ ~crashed
  BY DEF ReadsLiving
<1>3. /\ tasks \in Seq(TTask) /\ signals \in Seq(TSignal) /\ exporting \in Seq(Objs)
  BY WaysAre
<1>4. ASSUME NEW kind, Dequeue(kind), UNCHANGED <<exporting, crashed>>,
             \A s : ToldOf(signals', s) => ToldOf(signals, s)
      PROVE  ~crashed' /\ Living(tasks', exporting', signals', objects)
  <2>1. tasks' = Tail(tasks) /\ tasks # <<>>
    BY <1>4 DEF Dequeue
  <2>2. Living(tasks', exporting, signals, objects)
    BY <1>2, <1>3, <2>1, LivingRest
  <2>3. Living(tasks', exporting, signals', objects)
    BY <1>4, <2>2, LivingLess
  <2> QED BY <1>2, <1>4, <2>3
<1>5. ASSUME NEW kind \in {"reset", "completed"}, signals' = Append(signals, [kind |-> kind])
      PROVE  \A s : ToldOf(signals', s) => ToldOf(signals, s)
  <2> DEFINE x == [kind |-> kind]
  <2>1. x \in TSignal /\ x.kind # "deleted"
    BY SignalsMade
  <2>2. signals' = Append(signals, x)
    BY <1>5
  <2> HIDE DEF x
  <2> QED BY <1>3, <2>1, <2>2, ToldAppend
<1>6. CASE FetchTileSets
  <2>1. Dequeue("fetch") /\ UNCHANGED <<exporting, crashed>>
    BY <1>6 DEF FetchTileSets
  <2>2. PICK new \in Seq(TSignal) : /\ signals' = signals \o new
                                   /\ \A i \in 1..Len(new) : new[i].kind = "fetched"
    BY <1>6, FetchIs DEF LocalTypes
  <2>3. \A s : ToldOf(signals', s) => ToldOf(signals, s)
    BY <1>3, <2>2, ToldConcat
  <2> QED BY <1>4, <2>1, <2>3
<1>7. CASE CreateTileSet
  <2>1. Dequeue("create") /\ UNCHANGED <<exporting, crashed>>
    BY <1>7 DEF CreateTileSet
  <2>2. UNCHANGED signals \/ \E x \in TSignal : signals' = Append(signals, x) /\ x.kind = "saved"
    BY <1>7, CreateIs DEF LocalTypes
  <2>3. \A s : ToldOf(signals', s) => ToldOf(signals, s)
    BY <1>3, <2>2, ToldAppend
  <2> QED BY <1>4, <2>1, <2>3
<1>8. CASE RunDelete
  <2>1. /\ Dequeue("delete") /\ UNCHANGED <<exporting, crashed>>
        /\ signals' = Append(signals, [kind |-> "deleted", id |-> Head(tasks).id])
    BY <1>8 DEF RunDelete
  <2>2. /\ tasks # <<>> /\ tasks' = Tail(tasks) /\ Head(tasks) \in TTask
        /\ Head(tasks).kind = "delete" /\ exporting = <<>>
    BY <1>3, <2>1, OneDone
  <2>3. Head(tasks).id \in SetIds
    BY <2>2, TasksAre
  <2>4. Living(tasks', exporting, signals', objects)
    BY <1>2, <1>3, <2>1, <2>2, <2>3, LivingDeletion
  <2> QED BY <1>2, <2>1, <2>4
<1>9. CASE RunRename
  <2>1. Dequeue("rename") /\ UNCHANGED <<exporting, crashed, signals>>
    BY <1>9 DEF RunRename
  <2> QED BY <1>4, <2>1
<1>10. CASE RunReset
  <2>1. /\ Dequeue("reset") /\ UNCHANGED <<exporting, crashed>>
        /\ signals' = Append(signals, [kind |-> "reset"])
    BY <1>10 DEF RunReset, Emit
  <2> QED BY <1>4, <1>5, <2>1
<1>11. CASE \E h \in Hash, s \in DOMAIN tables.sets : SaveTile(h, s)
  <2>1. UNCHANGED <<tasks, exporting, signals, crashed>>
    BY <1>11 DEF SaveTile
  <2> QED BY <1>2, <2>1
<1>12. CASE ImportMerge \/ ImportReplace
  <2>1. /\ Dequeue("import") /\ UNCHANGED <<exporting, crashed>>
        /\ signals' = Append(signals, [kind |-> "completed"])
    BY <1>12 DEF ImportMerge, ImportReplace, Emit
  <2> QED BY <1>4, <1>5, <2>1
<1>13. CASE BeginExport
  <2>1. /\ Dequeue("export") /\ exporting' = Head(tasks).sets /\ UNCHANGED <<signals, crashed>>
    BY <1>13 DEF BeginExport
  <2>2. tasks # <<>> /\ tasks' = Tail(tasks) /\ Head(tasks).kind = "export"
    BY <1>3, <2>1, OneDone
  <2>3. Living(tasks', exporting', signals, objects)
    BY <1>2, <1>3, <2>1, <2>2, LivingBegin
  <2> QED BY <1>2, <2>1, <2>3
<1>14. CASE ExportSet
  <2>1. exporting # <<>> /\ UNCHANGED tasks
    BY <1>14 DEF ExportSet
  <2>2. Head(exporting) \in DOMAIN objects
    <3>1. Len(exporting) \in Nat \ {0} /\ exporting[1] = Head(exporting)
      BY <1>3, <2>1, EmptySeq
    <3>2. 1 \in 1..Len(exporting)
      BY <3>1
    <3> QED BY <1>2, <3>1, <3>2 DEF Living, SafeIn
  <2>3. /\ UNCHANGED crashed /\ exporting' \in {<<>>, Tail(exporting)}
        /\ UNCHANGED signals \/ signals' = Append(signals, [kind |-> "completed"])
    BY <1>14, <2>2, ExportIs DEF LocalTypes
  <2>4. Living(tasks, exporting', signals, objects)
    BY <1>2, <1>3, <2>1, <2>3, LivingNext
  <2>5. \A s : ToldOf(signals', s) => ToldOf(signals, s)
    BY <1>5, <2>3
  <2>6. Living(tasks, exporting', signals', objects)
    BY <2>4, <2>5, LivingLess
  <2> QED BY <1>2, <2>1, <2>3, <2>6
<1> QED BY <1>6, <1>7, <1>8, <1>9, <1>10, <1>11, <1>12, <1>13, <1>14

\* Every step keeps what exports read.
LEMMA ReadsKeep == LocalTypes /\ ReadsLiving /\ [ManagerNext]_managerVars => ReadsLiving'
<1> SUFFICES ASSUME LocalTypes, ReadsLiving, [ManagerNext]_managerVars PROVE ReadsLiving'
  OBVIOUS
<1>1. CASE UNCHANGED managerVars
  BY <1>1 DEF managerVars, manager, ReadsLiving
<1>2. CASE ManagerNext
  BY <1>2, UserReads, HandlersRead, WorkerReads DEF ManagerNext, Step
<1> QED BY <1>1, <1>2


-----------------------------------------------------------------------------
(* The list follows the database *)

AddsIt(x, s) == x.kind \in {"fetched", "saved"} /\ x.set.id = s
RemovesIt(x, s) == x.kind = "deleted" /\ x.id = s

\* When the signals have been handled, a list of the sets S is one of the sets D, as far as
\* set s goes, and no object of s is added to a list that has one
Follows(sig, s, S, D) ==
    /\ \A i, k \in 1..Len(sig) : i < k /\ AddsIt(sig[i], s) /\ AddsIt(sig[k], s) =>
         \E j \in i..k : RemovesIt(sig[j], s)
    /\ \A k \in 1..Len(sig) : s \in S /\ AddsIt(sig[k], s) => \E j \in 1..k : RemovesIt(sig[j], s)
    /\ s \in D <=>
         \/ \E i \in 1..Len(sig) : /\ AddsIt(sig[i], s)
                                   /\ \A j \in 1..Len(sig) : j > i => ~RemovesIt(sig[j], s)
         \/ s \in S /\ \A j \in 1..Len(sig) : ~RemovesIt(sig[j], s)

\* It depends on whether the set is listed and is there.
LEMMA FollowsSame ==
    ASSUME NEW sig, NEW s, NEW S, NEW D, NEW S2, NEW D2, Follows(sig, s, S, D),
           s \in S <=> s \in S2, s \in D <=> s \in D2
    PROVE  Follows(sig, s, S2, D2)
BY DEF Follows

\* A signal at the end: of something else, ...
LEMMA FollowsOther ==
    ASSUME NEW sig \in Seq(TSignal), NEW x \in TSignal, NEW s, NEW S, NEW D,
           Follows(sig, s, S, D), ~AddsIt(x, s), ~RemovesIt(x, s)
    PROVE  Follows(Append(sig, x), s, S, D)
<1> DEFINE r == Append(sig, x)
<1>1. /\ Len(r) = Len(sig) + 1 /\ \A i \in 1..Len(sig) : r[i] = sig[i]
      /\ r[Len(sig) + 1] = x /\ Len(sig) \in Nat
  BY AppendProperties, LenProperties
<1> HIDE DEF r
<1>2. \A i \in 1..Len(r) : i \in 1..Len(sig) \/ (i = Len(sig) + 1 /\ r[i] = x)
  BY <1>1
<1>3. \A i \in 1..Len(sig) : i \in 1..Len(r) /\ r[i] = sig[i]
  BY <1>1
<1>4. \A i \in 1..Len(r) : AddsIt(r[i], s) => i \in 1..Len(sig) /\ AddsIt(sig[i], s)
  BY <1>1, <1>2
<1>5. \A i \in 1..Len(r) : RemovesIt(r[i], s) => i \in 1..Len(sig) /\ RemovesIt(sig[i], s)
  BY <1>1, <1>2
<1>6. \A i, k \in 1..Len(sig) : \A j \in i..k : j \in 1..Len(sig) /\ r[j] = sig[j]
  BY <1>1
<1>7. \A k \in 1..Len(sig) : \A j \in 1..k : j \in 1..Len(sig) /\ r[j] = sig[j]
  BY <1>1
<1>8. \A i, k \in 1..Len(r) : i < k /\ AddsIt(r[i], s) /\ AddsIt(r[k], s) =>
         \E j \in i..k : RemovesIt(r[j], s)
  BY <1>4, <1>6 DEF Follows
<1>9. \A k \in 1..Len(r) : s \in S /\ AddsIt(r[k], s) => \E j \in 1..k : RemovesIt(r[j], s)
  BY <1>4, <1>7 DEF Follows
<1>10. s \in D <=>
         \/ \E i \in 1..Len(r) : /\ AddsIt(r[i], s)
                                 /\ \A j \in 1..Len(r) : j > i => ~RemovesIt(r[j], s)
         \/ s \in S /\ \A j \in 1..Len(r) : ~RemovesIt(r[j], s)
  BY <1>3, <1>4, <1>5 DEF Follows
<1> QED BY <1>8, <1>9, <1>10 DEF Follows, r

\* ... of the creation of the set, which was not there, ...
LEMMA FollowsAdded ==
    ASSUME NEW sig \in Seq(TSignal), NEW x \in TSignal, NEW s, NEW S, NEW D, NEW D2,
           Follows(sig, s, S, D), s \notin D, s \in D2, AddsIt(x, s), ~RemovesIt(x, s)
    PROVE  Follows(Append(sig, x), s, S, D2)
<1> DEFINE r == Append(sig, x)
           n == Len(sig) + 1
<1>1. /\ Len(r) = n /\ \A i \in 1..Len(sig) : r[i] = sig[i] /\ r[n] = x /\ Len(sig) \in Nat
  BY AppendProperties, LenProperties
<1>0. r[n] = x /\ Len(sig) \in Nat
  BY AppendProperties, LenProperties
<1> HIDE DEF r
<1>2. \A i \in 1..Len(r) : i \in 1..Len(sig) \/ i = n
  BY <1>0, <1>1
<1>3. \A i \in 1..Len(sig) : i \in 1..Len(r) /\ r[i] = sig[i] /\ i < n
  BY <1>0, <1>1
<1>4. ASSUME NEW i \in 1..Len(r), NEW k \in 1..Len(r), i < k, AddsIt(r[i], s), AddsIt(r[k], s)
      PROVE  \E j \in i..k : RemovesIt(r[j], s)
  <2>1. i \in 1..Len(sig)
    BY <1>0, <1>1, <1>2, <1>4
  <2>2. CASE k \in 1..Len(sig)
    <3>1. \E j \in i..k : RemovesIt(sig[j], s)
      BY <1>3, <1>4, <2>1, <2>2 DEF Follows
    <3>2. \A j \in i..k : j \in 1..Len(sig)
      BY <1>0, <2>1, <2>2
    <3> QED BY <1>3, <3>1, <3>2
  <2>3. CASE k = n
    <3>1. PICK j \in 1..Len(sig) : j > i /\ RemovesIt(sig[j], s)
      BY <1>3, <1>4, <2>1 DEF Follows
    <3>2. j \in i..k
      BY <1>0, <2>1, <2>3, <3>1
    <3> QED BY <1>3, <3>1, <3>2
  <2> QED BY <1>2, <2>2, <2>3
<1>5. ASSUME NEW k \in 1..Len(r), s \in S, AddsIt(r[k], s)
      PROVE  \E j \in 1..k : RemovesIt(r[j], s)
  <2>1. CASE k \in 1..Len(sig)
    <3>1. \E j \in 1..k : RemovesIt(sig[j], s)
      BY <1>3, <1>5, <2>1 DEF Follows
    <3>2. \A j \in 1..k : j \in 1..Len(sig)
      BY <1>0, <2>1
    <3> QED BY <1>3, <3>1, <3>2
  <2>2. CASE k = n
    <3>1. PICK j \in 1..Len(sig) : RemovesIt(sig[j], s)
      BY <1>5 DEF Follows
    <3>2. j \in 1..k
      BY <1>0, <2>2
    <3> QED BY <1>3, <3>1, <3>2
  <2> QED BY <1>2, <2>1, <2>2
<1>6. \E i \in 1..Len(r) : AddsIt(r[i], s) /\ \A j \in 1..Len(r) : j > i => ~RemovesIt(r[j], s)
  <2>1. n \in 1..Len(r) /\ \A j \in 1..Len(r) : ~(j > n)
    BY <1>0, <1>1
  <2> QED BY <1>0, <2>1
<1> QED BY <1>4, <1>5, <1>6 DEF Follows, r

\* ... and of its deletion.
LEMMA FollowsRemoved ==
    ASSUME NEW sig \in Seq(TSignal), NEW x \in TSignal, NEW s, NEW S, NEW D, NEW D2,
           Follows(sig, s, S, D), s \notin D2, ~AddsIt(x, s), RemovesIt(x, s)
    PROVE  Follows(Append(sig, x), s, S, D2)
<1> DEFINE r == Append(sig, x)
           n == Len(sig) + 1
<1>1. Len(r) = n /\ \A i \in 1..Len(sig) : r[i] = sig[i]
  BY AppendProperties
<1>0. r[n] = x /\ Len(sig) \in Nat
  BY AppendProperties, LenProperties
<1> HIDE DEF r
<1>2. \A i \in 1..Len(r) : AddsIt(r[i], s) => i \in 1..Len(sig) /\ r[i] = sig[i]
  <2>1. \A i \in 1..Len(r) : i \in 1..Len(sig) \/ i = n
    BY <1>0, <1>1
  <2> QED BY <1>0, <1>1, <2>1
<1>3. \A i \in 1..Len(sig) : n > i /\ r[i] = sig[i]
  BY <1>0, <1>1
<1>4. n \in 1..Len(r) /\ RemovesIt(r[n], s)
  BY <1>0, <1>1
<1>5. ASSUME NEW i \in 1..Len(r), NEW k \in 1..Len(r), i < k, AddsIt(r[i], s), AddsIt(r[k], s)
      PROVE  \E j \in i..k : RemovesIt(r[j], s)
  <2>1. i \in 1..Len(sig) /\ k \in 1..Len(sig) /\ AddsIt(sig[i], s) /\ AddsIt(sig[k], s)
    BY <1>2, <1>5
  <2>2. \E j \in i..k : RemovesIt(sig[j], s)
    BY <1>5, <2>1 DEF Follows
  <2>3. \A j \in i..k : j \in 1..Len(sig)
    BY <1>0, <2>1
  <2> QED BY <1>3, <2>2, <2>3
<1>6. ASSUME NEW k \in 1..Len(r), s \in S, AddsIt(r[k], s)
      PROVE  \E j \in 1..k : RemovesIt(r[j], s)
  <2>1. k \in 1..Len(sig) /\ AddsIt(sig[k], s)
    BY <1>2, <1>6
  <2>2. \E j \in 1..k : RemovesIt(sig[j], s)
    BY <1>6, <2>1 DEF Follows
  <2>3. \A j \in 1..k : j \in 1..Len(sig)
    BY <1>0, <2>1
  <2> QED BY <1>3, <2>2, <2>3
<1>7. \A i \in 1..Len(r) : AddsIt(r[i], s) => n > i
  BY <1>2, <1>3
<1> QED BY <1>4, <1>5, <1>6, <1>7 DEF Follows, r

\* A signal at the start that is handled: of something else, ...
LEMMA FollowsPassed ==
    ASSUME NEW sig \in Seq(TSignal), sig # <<>>, NEW s, NEW S, NEW D,
           Follows(sig, s, S, D), ~AddsIt(Head(sig), s), s \notin S \/ ~RemovesIt(Head(sig), s)
    PROVE  Follows(Tail(sig), s, S, D)
<1> DEFINE r == Tail(sig)
<1>1. Len(r) = Len(sig) - 1 /\ \A i \in 1..Len(r) : r[i] = sig[i + 1]
  BY HeadTailProperties
<1>2. Len(sig) \in Nat \ {0} /\ sig[1] = Head(sig)
  BY EmptySeq
<1> HIDE DEF r
<1>3. \A i \in 1..Len(r) : i + 1 \in 1..Len(sig) /\ r[i] = sig[i + 1]
  BY <1>1, <1>2
<1>4. \A i \in 1..Len(sig) : i # 1 => i - 1 \in 1..Len(r) /\ r[i - 1] = sig[i]
  <2>1. \A i \in 1..Len(sig) : i # 1 => i - 1 \in 1..Len(r) /\ (i - 1) + 1 = i
    BY <1>1, <1>2
  <2> QED BY <1>1, <2>1
<1>5. ASSUME NEW i \in 1..Len(r), NEW k \in 1..Len(r), i < k, AddsIt(r[i], s), AddsIt(r[k], s)
      PROVE  \E j \in i..k : RemovesIt(r[j], s)
  <2>1. i + 1 < k + 1
    BY <1>1, <1>2, <1>5
  <2>2. PICK j \in (i + 1)..(k + 1) : RemovesIt(sig[j], s)
    BY <1>3, <1>5, <2>1 DEF Follows
  <2>3. j \in 1..Len(sig) /\ j # 1 /\ j - 1 \in i..k
    BY <1>1, <1>2
  <2> QED BY <1>4, <2>2, <2>3
<1>6. ASSUME NEW k \in 1..Len(r), s \in S, AddsIt(r[k], s)
      PROVE  \E j \in 1..k : RemovesIt(r[j], s)
  <2>1. PICK j \in 1..(k + 1) : RemovesIt(sig[j], s)
    BY <1>3, <1>6 DEF Follows
  <2>2. j # 1
    BY <1>2, <1>6, <2>1
  <2>3. j \in 1..Len(sig) /\ j - 1 \in 1..k
    BY <1>1, <1>2, <2>2
  <2> QED BY <1>4, <2>1, <2>2, <2>3
<1>7. s \in D <=>
         \/ \E i \in 1..Len(r) : /\ AddsIt(r[i], s)
                                 /\ \A j \in 1..Len(r) : j > i => ~RemovesIt(r[j], s)
         \/ s \in S /\ \A j \in 1..Len(r) : ~RemovesIt(r[j], s)
  <2>1. ASSUME NEW i \in 1..Len(sig), AddsIt(sig[i], s),
               \A j \in 1..Len(sig) : j > i => ~RemovesIt(sig[j], s)
        PROVE  \E k \in 1..Len(r) : /\ AddsIt(r[k], s)
                                    /\ \A j \in 1..Len(r) : j > k => ~RemovesIt(r[j], s)
    <3>1. i # 1
      BY <1>2, <2>1
    <3>2. \A j \in 1..Len(r) : j > i - 1 => j + 1 > i
      BY <1>1, <1>2
    <3>3. \A j \in 1..Len(r) : j > i - 1 => ~RemovesIt(r[j], s)
      BY <1>3, <2>1, <3>2
    <3> QED BY <1>4, <2>1, <3>1, <3>3
  <2>2. ASSUME NEW i \in 1..Len(r), AddsIt(r[i], s),
               \A j \in 1..Len(r) : j > i => ~RemovesIt(r[j], s)
        PROVE  \E k \in 1..Len(sig) : /\ AddsIt(sig[k], s)
                                      /\ \A j \in 1..Len(sig) : j > k => ~RemovesIt(sig[j], s)
    <3>1. \A j \in 1..Len(sig) : j > i + 1 => j # 1 /\ j - 1 > i
      BY <1>1, <1>2
    <3>2. \A j \in 1..Len(sig) : j > i + 1 => ~RemovesIt(sig[j], s)
      BY <1>4, <2>2, <3>1
    <3> QED BY <1>3, <2>2, <3>2
  <2>3. s \in S => ((\A j \in 1..Len(sig) : ~RemovesIt(sig[j], s)) <=> \A j \in 1..Len(r) : ~RemovesIt(r[j], s))
    BY <1>2, <1>3, <1>4
  <2> QED BY <2>1, <2>2, <2>3 DEF Follows
<1> QED BY <1>5, <1>6, <1>7 DEF Follows, r

\* ... of the set, which is added and was not in the list, ...
LEMMA FollowsHandled ==
    ASSUME NEW sig \in Seq(TSignal), sig # <<>>, NEW s, NEW S, NEW S2, NEW D,
           Follows(sig, s, S, D), AddsIt(Head(sig), s), ~RemovesIt(Head(sig), s), s \in S2
    PROVE  s \notin S /\ Follows(Tail(sig), s, S2, D)
<1> DEFINE r == Tail(sig)
<1>1. Len(r) = Len(sig) - 1 /\ \A i \in 1..Len(r) : r[i] = sig[i + 1]
  BY HeadTailProperties
<1>2. Len(sig) \in Nat \ {0} /\ sig[1] = Head(sig)
  BY EmptySeq
<1> HIDE DEF r
<1>3. \A i \in 1..Len(r) : i + 1 \in 1..Len(sig) /\ r[i] = sig[i + 1] /\ 1 < i + 1
  BY <1>1, <1>2
<1>4. \A i \in 1..Len(sig) : i # 1 => i - 1 \in 1..Len(r) /\ r[i - 1] = sig[i]
  <2>1. \A i \in 1..Len(sig) : i # 1 => i - 1 \in 1..Len(r) /\ (i - 1) + 1 = i
    BY <1>1, <1>2
  <2> QED BY <1>1, <2>1
<1>0. 1 \in 1..Len(sig) /\ \A j \in 1..1 : j = 1
  BY <1>2
<1>5. s \notin S
  BY <1>0, <1>2 DEF Follows
<1>6. ASSUME NEW i \in 1..Len(r), NEW k \in 1..Len(r), i < k, AddsIt(r[i], s), AddsIt(r[k], s)
      PROVE  \E j \in i..k : RemovesIt(r[j], s)
  <2>1. i + 1 < k + 1
    BY <1>1, <1>2, <1>6
  <2>2. PICK j \in (i + 1)..(k + 1) : RemovesIt(sig[j], s)
    BY <1>3, <1>6, <2>1 DEF Follows
  <2>3. j \in 1..Len(sig) /\ j # 1 /\ j - 1 \in i..k
    BY <1>1, <1>2
  <2> QED BY <1>4, <2>2, <2>3
<1>7. ASSUME NEW k \in 1..Len(r), AddsIt(r[k], s)
      PROVE  \E j \in 1..k : RemovesIt(r[j], s)
  <2>1. PICK j \in 1..(k + 1) : RemovesIt(sig[j], s)
    BY <1>0, <1>2, <1>3, <1>7 DEF Follows
  <2>2. j # 1
    BY <1>2, <2>1
  <2>3. j \in 1..Len(sig) /\ j - 1 \in 1..k
    BY <1>1, <1>2, <2>2
  <2> QED BY <1>4, <2>1, <2>2, <2>3
<1>8. s \in D <=>
         \/ \E i \in 1..Len(r) : /\ AddsIt(r[i], s)
                                 /\ \A j \in 1..Len(r) : j > i => ~RemovesIt(r[j], s)
         \/ \A j \in 1..Len(r) : ~RemovesIt(r[j], s)
  <2>1. ASSUME NEW i \in 1..Len(sig), AddsIt(sig[i], s), i # 1,
               \A j \in 1..Len(sig) : j > i => ~RemovesIt(sig[j], s)
        PROVE  \E k \in 1..Len(r) : /\ AddsIt(r[k], s)
                                    /\ \A j \in 1..Len(r) : j > k => ~RemovesIt(r[j], s)
    <3>1. \A j \in 1..Len(r) : j > i - 1 => j + 1 > i
      BY <1>1, <1>2
    <3>2. \A j \in 1..Len(r) : j > i - 1 => ~RemovesIt(r[j], s)
      BY <1>3, <2>1, <3>1
    <3> QED BY <1>4, <2>1, <3>2
  <2>2. ASSUME NEW i \in 1..Len(r), AddsIt(r[i], s),
               \A j \in 1..Len(r) : j > i => ~RemovesIt(r[j], s)
        PROVE  \E k \in 1..Len(sig) : /\ AddsIt(sig[k], s)
                                      /\ \A j \in 1..Len(sig) : j > k => ~RemovesIt(sig[j], s)
    <3>1. \A j \in 1..Len(sig) : j > i + 1 => j # 1 /\ j - 1 > i
      BY <1>1, <1>2
    <3>2. \A j \in 1..Len(sig) : j > i + 1 => ~RemovesIt(sig[j], s)
      BY <1>4, <2>2, <3>1
    <3> QED BY <1>3, <2>2, <3>2
  <2>3. (\A j \in 1..Len(sig) : j > 1 => ~RemovesIt(sig[j], s)) <=> \A j \in 1..Len(r) : ~RemovesIt(r[j], s)
    <3>1. \A j \in 1..Len(sig) : j > 1 => j # 1
      BY <1>2
    <3>2. \A j \in 1..Len(r) : j + 1 > 1
      BY <1>3
    <3> QED BY <1>3, <1>4, <3>1, <3>2
  <2> QED BY <1>0, <1>2, <1>5, <2>1, <2>2, <2>3 DEF Follows
<1> QED BY <1>5, <1>6, <1>7, <1>8 DEF Follows, r

\* ... or of its deletion.
LEMMA FollowsDropped ==
    ASSUME NEW sig \in Seq(TSignal), sig # <<>>, NEW s, NEW S, NEW S2, NEW D,
           Follows(sig, s, S, D), ~AddsIt(Head(sig), s), RemovesIt(Head(sig), s), s \notin S2
    PROVE  Follows(Tail(sig), s, S2, D)
<1>1. Follows(sig, s, S2, D)
  <2>1. Len(sig) \in Nat \ {0} /\ sig[1] = Head(sig) /\ 1 \in 1..Len(sig)
    BY EmptySeq
  <2>2. ~(\A j \in 1..Len(sig) : ~RemovesIt(sig[j], s))
    BY <2>1
  <2> QED BY <2>2 DEF Follows
<1> QED BY <1>1, FollowsPassed


\* Something of the given kinds is among the tasks or signals; at most one is
Has(q, kinds) == \E i \in 1..Len(q) : q[i].kind \in kinds
Once(q, kinds) == \A i, j \in 1..Len(q) : q[i].kind \in kinds /\ q[j].kind \in kinds => i = j

\* One more.
LEMMA HasAppend ==
    ASSUME NEW T, NEW q \in Seq(T), NEW x \in T
    PROVE  \A kinds : /\ Has(Append(q, x), kinds) <=> Has(q, kinds) \/ x.kind \in kinds
                      /\ Once(q, kinds) /\ (x.kind \in kinds => ~Has(q, kinds)) => Once(Append(q, x), kinds)
<1> SUFFICES ASSUME NEW kinds
             PROVE  /\ Has(Append(q, x), kinds) <=> Has(q, kinds) \/ x.kind \in kinds
                    /\ Once(q, kinds) /\ (x.kind \in kinds => ~Has(q, kinds)) => Once(Append(q, x), kinds)
  OBVIOUS
<1> DEFINE r == Append(q, x)
<1>1. /\ Len(r) = Len(q) + 1 /\ \A i \in 1..Len(q) : r[i] = q[i]
      /\ r[Len(q) + 1] = x /\ Len(q) \in Nat
  BY AppendProperties, LenProperties
<1> HIDE DEF r
<1>2. /\ \A i \in 1..Len(r) : i \in 1..Len(q) \/ i = Len(q) + 1
      /\ \A i \in 1..Len(q) : i \in 1..Len(r)
      /\ Len(q) + 1 \in 1..Len(r)
  BY <1>1
<1>3. Has(r, kinds) <=> Has(q, kinds) \/ x.kind \in kinds
  BY <1>1, <1>2 DEF Has
<1>4. Once(q, kinds) /\ (x.kind \in kinds => ~Has(q, kinds)) => Once(r, kinds)
  BY <1>1, <1>2 DEF Once, Has
<1> QED BY <1>3, <1>4 DEF r

\* One less.
LEMMA HasTail ==
    ASSUME NEW T, NEW q \in Seq(T), q # <<>>
    PROVE  \A kinds : /\ Has(q, kinds) <=> Head(q).kind \in kinds \/ Has(Tail(q), kinds)
                      /\ Once(q, kinds) => /\ Once(Tail(q), kinds)
                                           /\ Head(q).kind \in kinds => ~Has(Tail(q), kinds)
<1> SUFFICES ASSUME NEW kinds
             PROVE  /\ Has(q, kinds) <=> Head(q).kind \in kinds \/ Has(Tail(q), kinds)
                    /\ Once(q, kinds) => /\ Once(Tail(q), kinds)
                                         /\ Head(q).kind \in kinds => ~Has(Tail(q), kinds)
  OBVIOUS
<1> DEFINE r == Tail(q)
<1>1. Len(r) = Len(q) - 1 /\ \A i \in 1..Len(r) : r[i] = q[i + 1]
  BY HeadTailProperties
<1>2. Len(q) \in Nat \ {0} /\ q[1] = Head(q)
  BY EmptySeq
<1> HIDE DEF r
<1>3. /\ 1 \in 1..Len(q)
      /\ \A i \in 1..Len(r) : i + 1 \in 1..Len(q) /\ r[i] = q[i + 1] /\ i + 1 # 1
  BY <1>1, <1>2
<1>4. \A i \in 1..Len(q) : i # 1 => i - 1 \in 1..Len(r) /\ r[i - 1] = q[i]
  <2>1. \A i \in 1..Len(q) : i # 1 => i - 1 \in 1..Len(r) /\ (i - 1) + 1 = i
    BY <1>1, <1>2
  <2> QED BY <1>1, <2>1
<1>5. Has(q, kinds) <=> Head(q).kind \in kinds \/ Has(r, kinds)
  BY <1>2, <1>3, <1>4 DEF Has
<1>6. Once(q, kinds) => Once(r, kinds)
  <2>1. \A i, j \in 1..Len(r) : i + 1 = j + 1 => i = j
    BY <1>1, <1>2
  <2> QED BY <1>3, <2>1 DEF Once
<1>7. Once(q, kinds) /\ Head(q).kind \in kinds => ~Has(r, kinds)
  BY <1>2, <1>3 DEF Once, Has
<1> QED BY <1>5, <1>6, <1>7 DEF r

\* Several more.
LEMMA HasConcat ==
    ASSUME NEW T, NEW q \in Seq(T), NEW new \in Seq(T)
    PROVE  \A kinds : /\ Has(q \o new, kinds) <=> Has(q, kinds) \/ Has(new, kinds)
                      /\ Once(q, kinds) /\ ~Has(new, kinds) => Once(q \o new, kinds)
<1> SUFFICES ASSUME NEW kinds
             PROVE  /\ Has(q \o new, kinds) <=> Has(q, kinds) \/ Has(new, kinds)
                    /\ Once(q, kinds) /\ ~Has(new, kinds) => Once(q \o new, kinds)
  OBVIOUS
<1> DEFINE r == q \o new
<1>1. /\ Len(r) = Len(q) + Len(new) /\ Len(q) \in Nat /\ Len(new) \in Nat
      /\ \A i \in 1..Len(q) + Len(new) : r[i] = IF i <= Len(q) THEN q[i] ELSE new[i - Len(q)]
  BY ConcatProperties, LenProperties
<1> HIDE DEF r
<1>2. \A i \in 1..Len(r) : \/ i \in 1..Len(q) /\ r[i] = q[i]
                           \/ i - Len(q) \in 1..Len(new) /\ r[i] = new[i - Len(q)]
  BY <1>1
<1>3. \A i \in 1..Len(q) : i \in 1..Len(r) /\ r[i] = q[i]
  BY <1>1
<1>4. \A i \in 1..Len(new) : i + Len(q) \in 1..Len(r) /\ r[i + Len(q)] = new[i]
  <2>1. \A i \in 1..Len(new) : /\ i + Len(q) \in 1..Len(r) /\ (i + Len(q)) - Len(q) = i
                               /\ ~(i + Len(q) <= Len(q))
    BY <1>1
  <2> QED BY <1>1, <2>1
<1>5. Has(r, kinds) <=> Has(q, kinds) \/ Has(new, kinds)
  BY <1>2, <1>3, <1>4 DEF Has
<1>6. Once(q, kinds) /\ ~Has(new, kinds) => Once(r, kinds)
  BY <1>2 DEF Once, Has
<1> QED BY <1>5, <1>6 DEF r

\* Nothing is on its way.
LEMMA HasNone == \A kinds : ~Has(<<>>, kinds)
<1>1. Len(<<>>) = 0 /\ \A i \in 1..0 : FALSE
  BY EmptySeq
<1> QED BY <1>1 DEF Has

\* At most one import or export is under way, and an import is what was asked for last
Exchanges == {"import", "export"}
OneExchange(q, e, sig, act) ==
    /\ Once(q, Exchanges) /\ Once(sig, {"completed"})
    /\ e # <<>> => ~Has(q, Exchanges) /\ ~Has(sig, {"completed"})
    /\ ~(Has(q, Exchanges) /\ Has(sig, {"completed"}))
    /\ Has(q, {"import"}) => act = "importing"

\* The list will be asked for anew, because of a reset or an import
Suspended(q, sig, act) ==
    \/ Has(q, {"reset", "import"}) \/ Has(sig, {"reset"})
    \/ act = "importing" /\ Has(sig, {"completed"})

\* The list is empty, and will be filled by a task that is waiting
FetchWaits(q, sig, l) ==
    /\ l = <<>> /\ ~Has(sig, {"fetched", "saved"})
    /\ \E f \in 1..Len(q) :
         /\ q[f].kind = "fetch" /\ \A j \in 1..Len(q) : q[j].kind = "fetch" => j = f
         /\ \A j \in 1..(f - 1) : q[j].kind # "create"

\* Each set is listed at most once, and the signals lead from the list to the database
ListIds(l, objs) == {objs[l[i]].id : i \in 1..Len(l)}
OnceListed(l, objs) == \A i, j \in 1..Len(l) : objs[l[i]].id = objs[l[j]].id => i = j
Tracking(q, sig, l, objs, D) ==
    /\ ~Has(q, {"fetch"}) /\ OnceListed(l, objs)
    /\ \A s \in SetIds : Follows(sig, s, ListIds(l, objs), D)

Shape(q, sig, act, l, objs, D) ==
    Suspended(q, sig, act) \/ FetchWaits(q, sig, l) \/ Tracking(q, sig, l, objs, D)
ListFollows ==
    ~muddled /\ ~crashed =>
        /\ OneExchange(tasks, exporting, signals, action)
        /\ Shape(tasks, signals, action, list, objects, DOMAIN tables.sets)

\* One more task, which asks for no list.
LEMMA ShapeTask ==
    ASSUME NEW q \in Seq(TTask), NEW t \in TTask, t.kind # "fetch", NEW sig, NEW act, NEW l,
           NEW objs, NEW D, Shape(q, sig, act, l, objs, D)
    PROVE  Shape(Append(q, t), sig, act, l, objs, D)
<1> DEFINE r == Append(q, t)
<1>1. /\ Len(r) = Len(q) + 1 /\ \A i \in 1..Len(q) : r[i] = q[i]
      /\ r[Len(q) + 1] = t /\ Len(q) \in Nat
  BY AppendProperties, LenProperties
<1>2. \A kinds : Has(r, kinds) <=> Has(q, kinds) \/ t.kind \in kinds
  BY HasAppend
<1> HIDE DEF r
<1>3. CASE Suspended(q, sig, act)
  BY <1>2, <1>3 DEF Suspended, Shape, r
<1>4. CASE FetchWaits(q, sig, l)
  <2>1. PICK f \in 1..Len(q) :
           /\ q[f].kind = "fetch" /\ \A j \in 1..Len(q) : q[j].kind = "fetch" => j = f
           /\ \A j \in 1..(f - 1) : q[j].kind # "create"
    BY <1>4 DEF FetchWaits
  <2>2. f \in 1..Len(r) /\ r[f] = q[f] /\ \A j \in 1..(f - 1) : j \in 1..Len(q) /\ r[j] = q[j]
    BY <1>1, <2>1
  <2>3. \A j \in 1..Len(r) : r[j].kind = "fetch" => j \in 1..Len(q) /\ r[j] = q[j]
    <3>1. \A j \in 1..Len(r) : j \in 1..Len(q) \/ j = Len(q) + 1
      BY <1>1
    <3> QED BY <1>1, <3>1
  <2> QED BY <1>4, <2>1, <2>2, <2>3 DEF FetchWaits, Shape, r
<1>5. CASE Tracking(q, sig, l, objs, D)
  BY <1>2, <1>5 DEF Tracking, Shape, r
<1> QED BY <1>3, <1>4, <1>5 DEF Shape

\* One less, of a kind that leaves the list alone.
LEMMA ShapeRest ==
    ASSUME NEW q \in Seq(TTask), q # <<>>, Head(q).kind \notin {"fetch", "reset", "import"},
           NEW sig, NEW act, NEW l, NEW objs, NEW D, Shape(q, sig, act, l, objs, D)
    PROVE  Shape(Tail(q), sig, act, l, objs, D)
<1> DEFINE r == Tail(q)
<1>1. Len(r) = Len(q) - 1 /\ \A i \in 1..Len(r) : r[i] = q[i + 1]
  BY HeadTailProperties
<1>2. Len(q) \in Nat \ {0} /\ q[1] = Head(q)
  BY EmptySeq
<1>3. \A kinds : Has(q, kinds) <=> Head(q).kind \in kinds \/ Has(r, kinds)
  BY HasTail
<1> HIDE DEF r
<1>4. CASE Suspended(q, sig, act)
  BY <1>3, <1>4 DEF Suspended, Shape, r
<1>5. CASE FetchWaits(q, sig, l)
  <2>1. PICK f \in 1..Len(q) :
           /\ q[f].kind = "fetch" /\ \A j \in 1..Len(q) : q[j].kind = "fetch" => j = f
           /\ \A j \in 1..(f - 1) : q[j].kind # "create"
    BY <1>5 DEF FetchWaits
  <2>2. f # 1
    BY <1>2, <2>1
  <2>3. f - 1 \in 1..Len(r) /\ (f - 1) + 1 = f
    BY <1>1, <1>2, <2>1, <2>2
  <2>4. r[f - 1] = q[f]
    BY <1>1, <2>3
  <2>5. \A j \in 1..Len(r) : r[j] = q[j + 1] /\ j + 1 \in 1..Len(q) /\ (j + 1 = f => j = f - 1)
    BY <1>1, <1>2, <2>3
  <2>6. \A j \in 1..((f - 1) - 1) : j \in 1..Len(r) /\ j + 1 \in 1..(f - 1)
    BY <1>1, <1>2, <2>3
  <2>7. \A j \in 1..((f - 1) - 1) : r[j].kind # "create"
    BY <2>1, <2>5, <2>6
  <2>8. \A j \in 1..Len(r) : r[j].kind = "fetch" => j = f - 1
    BY <2>1, <2>5
  <2> QED BY <1>5, <2>1, <2>3, <2>4, <2>7, <2>8 DEF FetchWaits, Shape, r
<1>6. CASE Tracking(q, sig, l, objs, D)
  BY <1>3, <1>6 DEF Tracking, Shape, r
<1> QED BY <1>4, <1>5, <1>6 DEF Shape

\* The objects of the list show the same sets.
LEMMA ShapeObjects ==
    ASSUME NEW q, NEW sig, NEW act, NEW l, NEW objs, NEW objs2, NEW D,
           Shape(q, sig, act, l, objs, D), \A i \in 1..Len(l) : objs2[l[i]].id = objs[l[i]].id
    PROVE  Shape(q, sig, act, l, objs2, D)
<1>1. ListIds(l, objs2) = ListIds(l, objs)
  BY DEF ListIds
<1>2. OnceListed(l, objs) => OnceListed(l, objs2)
  BY DEF OnceListed
<1> QED BY <1>1, <1>2 DEF Shape, Tracking

\* One more signal, that a reset, an import or an export is done.
LEMMA ShapeSignal ==
    ASSUME NEW q, NEW sig \in Seq(TSignal), NEW act, NEW l, NEW objs, NEW D,
           NEW x \in TSignal, x.kind \in {"reset", "completed"}, Shape(q, sig, act, l, objs, D)
    PROVE  Shape(q, Append(sig, x), act, l, objs, D)
<1>1. \A kinds : Has(Append(sig, x), kinds) <=> Has(sig, kinds) \/ x.kind \in kinds
  BY HasAppend
<1>2. \A s : ~AddsIt(x, s) /\ ~RemovesIt(x, s)
  BY DEF AddsIt, RemovesIt
<1>3. \A s, S : Follows(sig, s, S, D) => Follows(Append(sig, x), s, S, D)
  BY <1>2, FollowsOther
<1> QED BY <1>1, <1>3 DEF Shape, Suspended, FetchWaits, Tracking


\* The creation of a set, which takes a task for it.
LEMMA ShapeSaved ==
    ASSUME NEW q \in Seq(TTask), q # <<>>, Head(q).kind = "create", NEW sig \in Seq(TSignal),
           NEW act, NEW l, NEW objs, NEW D, NEW D2, NEW x \in TSignal, x.kind = "saved",
           x.set.id \notin D, D2 = D \cup {x.set.id}, Shape(q, sig, act, l, objs, D)
    PROVE  Shape(q, Append(sig, x), act, l, objs, D2)
<1>1. \A kinds : Has(Append(sig, x), kinds) <=> Has(sig, kinds) \/ x.kind \in kinds
  BY HasAppend
<1>2. ~FetchWaits(q, sig, l)
  <2> SUFFICES ASSUME NEW f \in 1..Len(q), q[f].kind = "fetch",
                      \A j \in 1..(f - 1) : q[j].kind # "create"
               PROVE  FALSE
    BY DEF FetchWaits
  <2>1. q[1] = Head(q) /\ f # 1
    <3>1. q[1] = Head(q)
      OBVIOUS
    <3> QED BY <3>1
  <2>2. 1 \in 1..(f - 1)
    BY <2>1
  <2> QED BY <2>1, <2>2
<1>3. CASE Suspended(q, sig, act)
  BY <1>1, <1>3 DEF Suspended, Shape
<1>4. ASSUME Tracking(q, sig, l, objs, D), NEW s \in SetIds
      PROVE  Follows(Append(sig, x), s, ListIds(l, objs), D2)
  <2>0. Follows(sig, s, ListIds(l, objs), D) /\ ~RemovesIt(x, s)
    BY <1>4 DEF Tracking, RemovesIt
  <2>1. CASE s = x.set.id
    <3>1. s \notin D /\ s \in D2 /\ AddsIt(x, s)
      BY <2>1 DEF AddsIt
    <3> QED BY <2>0, <3>1, FollowsAdded
  <2>2. CASE s # x.set.id
    <3>1. (s \in D <=> s \in D2) /\ ~AddsIt(x, s)
      BY <2>2 DEF AddsIt
    <3>2. Follows(Append(sig, x), s, ListIds(l, objs), D)
      BY <2>0, <3>1, FollowsOther
    <3> QED BY <3>1, <3>2, FollowsSame
  <2> QED BY <2>1, <2>2
<1>5. CASE Tracking(q, sig, l, objs, D)
  BY <1>4, <1>5 DEF Tracking, Shape
<1> QED BY <1>2, <1>3, <1>5 DEF Shape

\* The deletion of a set.
LEMMA ShapeDeleted ==
    ASSUME NEW q, NEW sig \in Seq(TSignal), NEW act, NEW l, NEW objs, NEW D, NEW D2,
           NEW x \in TSignal, x.kind = "deleted", D2 = D \ {x.id}, Shape(q, sig, act, l, objs, D)
    PROVE  Shape(q, Append(sig, x), act, l, objs, D2)
<1>1. \A kinds : Has(Append(sig, x), kinds) <=> Has(sig, kinds) \/ x.kind \in kinds
  BY HasAppend
<1>2. CASE Suspended(q, sig, act)
  BY <1>1, <1>2 DEF Suspended, Shape
<1>3. CASE FetchWaits(q, sig, l)
  BY <1>1, <1>3 DEF FetchWaits, Shape
<1>4. ASSUME Tracking(q, sig, l, objs, D), NEW s \in SetIds
      PROVE  Follows(Append(sig, x), s, ListIds(l, objs), D2)
  <2>0. Follows(sig, s, ListIds(l, objs), D) /\ ~AddsIt(x, s)
    BY <1>4 DEF Tracking, AddsIt
  <2>1. CASE s = x.id
    <3>1. s \notin D2 /\ RemovesIt(x, s)
      BY <2>1 DEF RemovesIt
    <3> QED BY <2>0, <3>1, FollowsRemoved
  <2>2. CASE s # x.id
    <3>1. (s \in D <=> s \in D2) /\ ~RemovesIt(x, s)
      BY <2>2 DEF RemovesIt
    <3>2. Follows(Append(sig, x), s, ListIds(l, objs), D)
      BY <2>0, <3>1, FollowsOther
    <3> QED BY <3>1, <3>2, FollowsSame
  <2> QED BY <2>1, <2>2
<1>5. CASE Tracking(q, sig, l, objs, D)
  BY <1>4, <1>5 DEF Tracking, Shape
<1> QED BY <1>2, <1>3, <1>5 DEF Shape

\* An empty list follows the database when the sets are signalled once each.
LEMMA FollowsFetched ==
    ASSUME NEW sig \in Seq(TSignal), NEW new \in Seq(TSignal), NEW D, NEW s, NEW S, S = {},
           ~Has(sig, {"fetched", "saved"}),
           \A i \in 1..Len(new) : new[i].kind = "fetched" /\ new[i].set.id \in D,
           \A i, j \in 1..Len(new) : new[i].set.id = new[j].set.id => i = j,
           \A t \in D : \E i \in 1..Len(new) : new[i].set.id = t
    PROVE  Follows(sig \o new, s, S, D)
<1> DEFINE r == sig \o new
           n == Len(sig)
<1>1. /\ Len(r) = n + Len(new) /\ n \in Nat /\ Len(new) \in Nat
      /\ \A i \in 1..n + Len(new) : r[i] = IF i <= n THEN sig[i] ELSE new[i - n]
  BY ConcatProperties, LenProperties
<1> HIDE DEF r, n
<1>2. \A i \in 1..Len(r) : \/ i \in 1..n /\ r[i] = sig[i]
                           \/ i > n /\ i - n \in 1..Len(new) /\ r[i] = new[i - n]
  BY <1>1
<1>3. \A i \in 1..Len(r) : AddsIt(r[i], s) =>
         i > n /\ i - n \in 1..Len(new) /\ r[i] = new[i - n] /\ new[i - n].set.id = s
  <2>1. \A i \in 1..n : ~AddsIt(sig[i], s)
    BY DEF Has, AddsIt, n
  <2> QED BY <1>2, <2>1 DEF AddsIt
<1>4. \A i, k \in 1..Len(r) : AddsIt(r[i], s) /\ AddsIt(r[k], s) => i = k
  <2> SUFFICES ASSUME NEW i \in 1..Len(r), NEW k \in 1..Len(r), AddsIt(r[i], s), AddsIt(r[k], s)
               PROVE  i = k
    OBVIOUS
  <2>1. /\ i - n \in 1..Len(new) /\ k - n \in 1..Len(new)
        /\ new[i - n].set.id = s /\ new[k - n].set.id = s
    BY <1>3
  <2>2. i - n = k - n
    BY <2>1
  <2> QED BY <1>1, <2>2
<1>5. \A i, k \in 1..Len(r) : ~(i < k /\ AddsIt(r[i], s) /\ AddsIt(r[k], s))
  <2>1. \A i \in 1..Len(r) : ~(i < i)
    BY <1>1
  <2> QED BY <1>4, <2>1
<1>6. \A i, j \in 1..Len(r) : i > n /\ j > i => ~RemovesIt(r[j], s)
  <2>1. \A i, j \in 1..Len(r) : i > n /\ j > i => ~(j \in 1..n)
    BY <1>1
  <2> QED BY <1>2, <2>1 DEF RemovesIt
<1>7. s \in D => \E i \in 1..Len(r) : i > n /\ AddsIt(r[i], s)
  <2> SUFFICES ASSUME s \in D PROVE \E i \in 1..Len(r) : i > n /\ AddsIt(r[i], s)
    OBVIOUS
  <2>1. PICK k \in 1..Len(new) : new[k].set.id = s
    OBVIOUS
  <2>2. k + n \in 1..Len(r) /\ k + n > n /\ (k + n) - n = k /\ ~(k + n <= n)
    BY <1>1
  <2>3. r[k + n] = new[k]
    BY <1>1, <2>2
  <2>4. AddsIt(new[k], s)
    BY <2>1 DEF AddsIt
  <2> QED BY <2>2, <2>3, <2>4
<1>8. \A i \in 1..Len(r) : AddsIt(r[i], s) => s \in D
  BY <1>3
<1> QED BY <1>3, <1>5, <1>6, <1>7, <1>8 DEF Follows, r

\* The rows of the sets are sent, by the task the list waits for.
LEMMA ShapeFetched ==
    ASSUME NEW q \in Seq(TTask), q # <<>>, Head(q).kind = "fetch",
           NEW sig \in Seq(TSignal), NEW new \in Seq(TSignal), NEW act, NEW l, NEW objs, NEW D,
           \A i \in 1..Len(new) : new[i].kind = "fetched" /\ new[i].set.id \in D,
           \A i, j \in 1..Len(new) : new[i].set.id = new[j].set.id => i = j,
           \A t \in D : \E i \in 1..Len(new) : new[i].set.id = t,
           Shape(q, sig, act, l, objs, D)
    PROVE  Shape(Tail(q), sig \o new, act, l, objs, D)
<1>1. \A kinds : Has(q, kinds) <=> Head(q).kind \in kinds \/ Has(Tail(q), kinds)
  BY HasTail
<1>2. \A kinds : Has(sig \o new, kinds) <=> Has(sig, kinds) \/ Has(new, kinds)
  BY HasConcat
<1>3. CASE Suspended(q, sig, act)
  BY <1>1, <1>2, <1>3 DEF Suspended, Shape
<1>4. CASE FetchWaits(q, sig, l)
  <2>1. l = <<>> /\ ~Has(sig, {"fetched", "saved"})
    BY <1>4 DEF FetchWaits
  <2>2. ListIds(l, objs) = {} /\ OnceListed(l, objs)
    <3>1. Len(l) = 0 /\ 1..0 = {}
      BY <2>1, EmptySeq
    <3> QED BY <3>1 DEF ListIds, OnceListed
  <2>3. \A s \in SetIds : Follows(sig \o new, s, ListIds(l, objs), D)
    BY <2>1, <2>2, FollowsFetched
  <2>4. ~Has(Tail(q), {"fetch"})
    <3>1. Once(q, {"fetch"})
      BY <1>4 DEF FetchWaits, Once
    <3> QED BY <3>1, HasTail
  <2> QED BY <2>2, <2>3, <2>4 DEF Tracking, Shape
<1>5. ~Tracking(q, sig, l, objs, D)
  BY <1>1 DEF Tracking
<1> QED BY <1>3, <1>4, <1>5 DEF Shape

\* A new object is appended.
LEMMA ShapeAdd ==
    ASSUME NEW q, NEW sig \in Seq(TSignal), sig # <<>>, NEW act, NEW l \in Seq(Objs), NEW objs, NEW D,
           Head(sig).kind \in {"fetched", "saved"}, Head(sig).set.id \in SetIds,
           NEW o \in Objs, o \notin DOMAIN objs, \A i \in 1..Len(l) : l[i] \in DOMAIN objs,
           NEW objs2, objs2[o] = Head(sig).set, \A p \in DOMAIN objs : objs2[p] = objs[p],
           Shape(q, sig, act, l, objs, D)
    PROVE  Shape(q, Tail(sig), act, Append(l, o), objs2, D)
<1> DEFINE x == Head(sig)
           l2 == Append(l, o)
<1>1. \A kinds : Has(sig, kinds) <=> x.kind \in kinds \/ Has(Tail(sig), kinds)
  BY HasTail
<1>2. CASE Suspended(q, sig, act)
  BY <1>1, <1>2 DEF Suspended, Shape
<1>3. ~FetchWaits(q, sig, l)
  BY <1>1 DEF FetchWaits
<1>4. CASE Tracking(q, sig, l, objs, D)
  <2>1. /\ Len(l2) = Len(l) + 1 /\ \A i \in 1..Len(l) : l2[i] = l[i]
        /\ l2[Len(l) + 1] = o /\ Len(l) \in Nat
    BY AppendProperties, LenProperties
  <2> HIDE DEF l2
  <2>2. \A i \in 1..Len(l2) : i \in 1..Len(l) \/ i = Len(l) + 1
    BY <2>1
  <2>3. \A i \in 1..Len(l) : i \in 1..Len(l2) /\ objs2[l2[i]].id = objs[l[i]].id
    BY <2>1
  <2>4. Len(l) + 1 \in 1..Len(l2) /\ objs2[l2[Len(l) + 1]].id = x.set.id
    BY <2>1
  <2>5. ListIds(l2, objs2) = ListIds(l, objs) \cup {x.set.id}
    <3> DEFINE n == x.set.id
    <3>1. /\ \A i \in 1..Len(l2) : \/ i \in 1..Len(l) /\ objs2[l2[i]].id = objs[l[i]].id
                                  \/ objs2[l2[i]].id = n
          /\ Len(l) + 1 \in 1..Len(l2) /\ objs2[l2[Len(l) + 1]].id = n
      BY <2>2, <2>3, <2>4
    <3> HIDE DEF n
    <3>2. ListIds(l2, objs2) \subseteq ListIds(l, objs) \cup {n}
      BY <3>1 DEF ListIds
    <3>3. ListIds(l, objs) \cup {n} \subseteq ListIds(l2, objs2)
      BY <2>3, <3>1 DEF ListIds
    <3> QED BY <3>2, <3>3 DEF n
  <2> DEFINE S == ListIds(l, objs)
             S2 == ListIds(l2, objs2)
  <2>6. \A s : ~RemovesIt(x, s) /\ (AddsIt(x, s) <=> s = x.set.id)
    BY DEF RemovesIt, AddsIt
  <2>7. x.set.id \notin S /\ Follows(Tail(sig), x.set.id, S2, D)
    <3>1. Follows(sig, x.set.id, S, D) /\ x.set.id \in S2
      BY <1>4, <2>5 DEF Tracking
    <3> HIDE DEF S, S2, x
    <3> QED BY <2>6, <3>1, FollowsHandled DEF x
  <2>8. ASSUME NEW s \in SetIds, s # x.set.id PROVE Follows(Tail(sig), s, S2, D)
    <3>1. Follows(sig, s, S, D) /\ (s \in S <=> s \in S2)
      BY <1>4, <2>5, <2>8 DEF Tracking
    <3> HIDE DEF S, S2
    <3>2. Follows(Tail(sig), s, S, D)
      BY <2>6, <2>8, <3>1, FollowsPassed
    <3> QED BY <3>1, <3>2, FollowsSame
  <2>9. OnceListed(l2, objs2)
    <3>1. \A i \in 1..Len(l) : objs[l[i]].id # x.set.id
      BY <2>7 DEF ListIds
    <3>2. \A i, j \in 1..Len(l) : objs[l[i]].id = objs[l[j]].id => i = j
      BY <1>4 DEF Tracking, OnceListed
    <3> HIDE DEF x
    <3> QED BY <2>2, <2>3, <2>4, <3>1, <3>2 DEF OnceListed
  <2> QED BY <1>4, <2>7, <2>8, <2>9 DEF Tracking, Shape, l2
<1> QED BY <1>2, <1>3, <1>4 DEF Shape

\* The signal of a deletion is handled: the object of the set is taken from the list.
LEMMA ShapeRemove ==
    ASSUME NEW q, NEW sig \in Seq(TSignal), sig # <<>>, NEW act, NEW l \in Seq(Objs), NEW objs, NEW D,
           Head(sig).kind = "deleted", NEW l2, NEW objs2,
           \/ l2 = l /\ objs2 = objs /\ \A i \in 1..Len(l) : objs[l[i]].id # Head(sig).id
           \/ \E m \in 1..Len(l) :
                 /\ objs[l[m]].id = Head(sig).id /\ l2 = RemoveAt(l, m)
                 /\ \A i \in 1..Len(l) : i # m => objs2[l[i]].id = objs[l[i]].id,
           Shape(q, sig, act, l, objs, D)
    PROVE  Shape(q, Tail(sig), act, l2, objs2, D)
<1> DEFINE x == Head(sig)
           S == ListIds(l, objs)
           S2 == ListIds(l2, objs2)
<1>1. \A kinds : Has(sig, kinds) <=> x.kind \in kinds \/ Has(Tail(sig), kinds)
  BY HasTail
<1>0. \A s : ~AddsIt(x, s) /\ (RemovesIt(x, s) <=> s = x.id)
  BY DEF RemovesIt, AddsIt
<1>2. CASE Suspended(q, sig, act)
  BY <1>1, <1>2 DEF Suspended, Shape
<1>3. CASE FetchWaits(q, sig, l)
  <2>1. l2 = l
    <3>1. l = <<>> /\ Len(<<>>) = 0 /\ 1..0 = {}
      BY <1>3, EmptySeq DEF FetchWaits
    <3> QED BY <3>1
  <2> QED BY <1>1, <1>3, <2>1 DEF FetchWaits, Shape
<1>4. CASE Tracking(q, sig, l, objs, D)
  <2>1. OnceListed(l2, objs2) /\ S2 = S \ {x.id}
    <3>1. CASE l2 = l /\ objs2 = objs /\ \A i \in 1..Len(l) : objs[l[i]].id # x.id
      BY <1>4, <3>1 DEF Tracking, ListIds
    <3>2. ASSUME NEW m \in 1..Len(l), objs[l[m]].id = x.id, l2 = RemoveAt(l, m),
                 \A i \in 1..Len(l) : i # m => objs2[l[i]].id = objs[l[i]].id
          PROVE  OnceListed(l2, objs2) /\ S2 = S \ {x.id}
      <4>1. /\ Len(l2) = Len(l) - 1
            /\ \A i \in 1..(Len(l) - 1) : l2[i] = IF i < m THEN l[i] ELSE l[i + 1]
        BY <3>2, RemovedIs
      <4>2. Len(l) \in Nat
        BY LenProperties
      <4> DEFINE at(i) == IF i < m THEN i ELSE i + 1
      <4>3. \A i \in 1..Len(l2) : at(i) \in 1..Len(l) /\ at(i) # m /\ l2[i] = l[at(i)]
        BY <4>1, <4>2
      <4>4. \A i, j \in 1..Len(l2) : at(i) = at(j) => i = j
        BY <4>1, <4>2
      <4>5. \A k \in 1..Len(l) : k # m => \E i \in 1..Len(l2) : at(i) = k
        <5> SUFFICES ASSUME NEW k \in 1..Len(l), k # m PROVE \E i \in 1..Len(l2) : at(i) = k
          OBVIOUS
        <5>1. CASE k < m
          <6>1. k \in 1..Len(l2) /\ at(k) = k
            BY <4>1, <4>2, <5>1
          <6> QED BY <6>1
        <5>2. CASE k > m
          <6>1. k - 1 \in 1..Len(l2) /\ at(k - 1) = k
            BY <4>1, <4>2, <5>2
          <6> QED BY <6>1
        <5> QED BY <4>2, <5>1, <5>2
      <4>6. \A i, j \in 1..Len(l) : objs[l[i]].id = objs[l[j]].id => i = j
        BY <1>4 DEF Tracking, OnceListed
      <4> HIDE DEF at
      <4>7. \A i \in 1..Len(l2) : objs2[l2[i]].id = objs[l[at(i)]].id
        BY <3>2, <4>3
      <4>8. OnceListed(l2, objs2)
        <5> SUFFICES ASSUME NEW i \in 1..Len(l2), NEW j \in 1..Len(l2),
                            objs2[l2[i]].id = objs2[l2[j]].id
                     PROVE  i = j
          BY DEF OnceListed
        <5>1. at(i) \in 1..Len(l) /\ at(j) \in 1..Len(l)
          BY <4>3
        <5>2. objs[l[at(i)]].id = objs[l[at(j)]].id
          BY <4>7
        <5>3. at(i) = at(j)
          BY <4>6, <5>1, <5>2
        <5> QED BY <4>4, <5>3
      <4>9. S2 \subseteq S \ {x.id}
        <5> SUFFICES ASSUME NEW i \in 1..Len(l2)
                     PROVE  objs2[l2[i]].id \in S /\ objs2[l2[i]].id # x.id
          BY DEF ListIds
        <5>1. at(i) \in 1..Len(l) /\ at(i) # m /\ objs2[l2[i]].id = objs[l[at(i)]].id
          BY <4>3, <4>7
        <5>2. objs[l[at(i)]].id # x.id
          BY <3>2, <4>6, <5>1
        <5> QED BY <5>1, <5>2 DEF ListIds
      <4>10. S \ {x.id} \subseteq S2
        <5> SUFFICES ASSUME NEW k \in 1..Len(l), objs[l[k]].id # x.id
                     PROVE  objs[l[k]].id \in S2
          BY DEF ListIds
        <5>1. k # m
          BY <3>2
        <5>2. PICK i \in 1..Len(l2) : at(i) = k
          BY <4>5, <5>1
        <5> QED BY <4>7, <5>2 DEF ListIds
      <4> QED BY <4>8, <4>9, <4>10
    <3> QED BY <3>1, <3>2
  <2> HIDE DEF S, S2, x
  <2>2. ASSUME NEW s \in SetIds PROVE Follows(Tail(sig), s, S2, D)
    <3>0. Follows(sig, s, S, D)
      BY <1>4, <2>2 DEF Tracking, S
    <3>1. CASE s = x.id
      <4>1. s \notin S2 /\ ~AddsIt(x, s) /\ RemovesIt(x, s)
        BY <1>0, <2>1, <3>1
      <4> QED BY <3>0, <4>1, FollowsDropped DEF x
    <3>2. CASE s # x.id
      <4>1. (s \in S <=> s \in S2) /\ ~AddsIt(x, s) /\ ~RemovesIt(x, s)
        BY <1>0, <2>1, <3>2
      <4>2. Follows(Tail(sig), s, S, D)
        BY <3>0, <4>1, FollowsPassed DEF x
      <4> QED BY <4>1, <4>2, FollowsSame
    <3> QED BY <3>1, <3>2
  <2> QED BY <1>4, <2>1, <2>2 DEF Tracking, Shape, S2
<1> QED BY <1>2, <1>3, <1>4 DEF Shape

\* The signal that an export is done, or that an import is that counts no more, is handled.
LEMMA ShapeDone ==
    ASSUME NEW q, NEW sig \in Seq(TSignal), sig # <<>>, NEW act, act # "importing", NEW act2,
           NEW l, NEW objs, NEW D, Head(sig).kind = "completed", Shape(q, sig, act, l, objs, D)
    PROVE  Shape(q, Tail(sig), act2, l, objs, D)
<1>1. \A kinds : Has(sig, kinds) <=> Head(sig).kind \in kinds \/ Has(Tail(sig), kinds)
  BY HasTail
<1>2. CASE Suspended(q, sig, act)
  BY <1>1, <1>2 DEF Suspended, Shape
<1>3. CASE FetchWaits(q, sig, l)
  BY <1>1, <1>3 DEF FetchWaits, Shape
<1>4. CASE Tracking(q, sig, l, objs, D)
  <2>1. \A s : ~AddsIt(Head(sig), s) /\ ~RemovesIt(Head(sig), s)
    BY DEF AddsIt, RemovesIt
  <2>2. \A s, S : Follows(sig, s, S, D) => Follows(Tail(sig), s, S, D)
    BY <2>1, FollowsPassed
  <2> QED BY <1>4, <2>2 DEF Tracking, Shape
<1> QED BY <1>2, <1>3, <1>4 DEF Shape


\* Fewer kinds, and none at all.
LEMMA HasFewer ==
    \A q, kinds, more : /\ kinds \subseteq more /\ Has(q, kinds) => Has(q, more)
                        /\ ~Has(q, kinds) => Once(q, kinds)
BY DEF Has, Once

\* One task more that is no import or export, one less.
LEMMA ExchangeTask ==
    ASSUME NEW q \in Seq(TTask), NEW e, NEW sig, NEW act, OneExchange(q, e, sig, act)
    PROVE  /\ \A t \in TTask : t.kind \notin Exchanges => OneExchange(Append(q, t), e, sig, act)
           /\ q # <<>> => OneExchange(Tail(q), e, sig, act)
<1>1. ASSUME NEW t \in TTask, t.kind \notin Exchanges PROVE OneExchange(Append(q, t), e, sig, act)
  <2>1. \A kinds : /\ Has(Append(q, t), kinds) <=> Has(q, kinds) \/ t.kind \in kinds
                   /\ Once(q, kinds) /\ (t.kind \in kinds => ~Has(q, kinds)) => Once(Append(q, t), kinds)
    BY HasAppend
  <2>2. t.kind \notin {"import"}
    BY <1>1 DEF Exchanges
  <2> QED BY <1>1, <2>1, <2>2 DEF OneExchange
<1>2. ASSUME q # <<>> PROVE OneExchange(Tail(q), e, sig, act)
  <2>1. \A kinds : /\ Has(q, kinds) <=> Head(q).kind \in kinds \/ Has(Tail(q), kinds)
                   /\ Once(q, kinds) => Once(Tail(q), kinds)
    BY <1>2, HasTail
  <2> QED BY <2>1 DEF OneExchange
<1> QED BY <1>1, <1>2

\* One signal more that is not of the end of one, several of sets, one less.
LEMMA ExchangeSignal ==
    ASSUME NEW q, NEW e, NEW sig \in Seq(TSignal), NEW act, OneExchange(q, e, sig, act)
    PROVE  /\ \A x \in TSignal : x.kind # "completed" => OneExchange(q, e, Append(sig, x), act)
           /\ \A new \in Seq(TSignal) : ~Has(new, {"completed"}) => OneExchange(q, e, sig \o new, act)
           /\ sig # <<>> => OneExchange(q, e, Tail(sig), act)
<1> DEFINE K == {"completed"}
<1>1. ASSUME NEW x \in TSignal, x.kind # "completed" PROVE OneExchange(q, e, Append(sig, x), act)
  <2>1. /\ Has(Append(sig, x), K) <=> Has(sig, K) \/ x.kind \in K
        /\ Once(sig, K) /\ (x.kind \in K => ~Has(sig, K)) => Once(Append(sig, x), K)
    BY HasAppend
  <2> QED BY <1>1, <2>1 DEF OneExchange
<1>2. ASSUME NEW new \in Seq(TSignal), ~Has(new, K) PROVE OneExchange(q, e, sig \o new, act)
  <2>1. /\ Has(sig \o new, K) <=> Has(sig, K) \/ Has(new, K)
        /\ Once(sig, K) /\ ~Has(new, K) => Once(sig \o new, K)
    BY HasConcat
  <2> QED BY <1>2, <2>1 DEF OneExchange
<1>3. ASSUME sig # <<>> PROVE OneExchange(q, e, Tail(sig), act)
  <2>1. /\ Has(sig, K) <=> Head(sig).kind \in K \/ Has(Tail(sig), K)
        /\ Once(sig, K) => Once(Tail(sig), K)
    BY <1>3, HasTail
  <2> QED BY <2>1 DEF OneExchange
<1> QED BY <1>1, <1>2, <1>3

\* What is not coming is not on its way.
LEMMA ComingIs ==
    ASSUME tasks \in Seq(TTask), NEW sigs \in Seq(TSignal)
    PROVE  \A kinds : Coming(kinds, sigs) <=> Has(tasks, kinds) \/ Has(sigs, kinds)
<1>1. DOMAIN tasks = 1..Len(tasks) /\ DOMAIN sigs = 1..Len(sigs)
  BY LenProperties
<1> QED BY <1>1 DEF Coming, Has

\* When no exchange is under way one more import or export is the only one.
LEMMA ExchangeBegins ==
    ASSUME tasks \in Seq(TTask), NEW sigs \in Seq(TSignal), ~Exchanging(sigs)
    PROVE  /\ exporting = <<>> /\ ~Has(tasks, Exchanges) /\ ~Has(sigs, {"completed"})
           /\ \A act : OneExchange(tasks, exporting, sigs, act)
<1> DEFINE K == {"import", "export", "completed"}
<1>1. exporting = <<>> /\ ~Has(tasks, K) /\ ~Has(sigs, K)
  BY ComingIs DEF Exchanging
<1>2. /\ Exchanges \subseteq K /\ {"import"} \subseteq Exchanges /\ {"completed"} \subseteq K
      /\ {"import"} \subseteq K
  BY DEF Exchanges
<1> HIDE DEF K
<1>3. ~Has(tasks, Exchanges) /\ ~Has(sigs, {"completed"}) /\ ~Has(tasks, {"import"})
  BY <1>1, <1>2, HasFewer
<1>4. Once(tasks, Exchanges) /\ Once(sigs, {"completed"})
  BY <1>3, HasFewer
<1> QED BY <1>1, <1>3, <1>4 DEF OneExchange

\* A list that is asked for when nothing for it is coming waits for its task.
LEMMA LoadFollows ==
    ASSUME LocalTypes, NEW sigs \in Seq(TSignal), Load(sigs), signals' = sigs, UNCHANGED exporting
    PROVE  ListFollows'
<1> SUFFICES ASSUME ~muddled'
             PROVE  /\ OneExchange(tasks', exporting, sigs, action')
                    /\ Shape(tasks', sigs, action', list', objects', DOMAIN tables'.sets)
  BY DEF ListFollows
<1>0. tasks \in Seq(TTask)
  BY WaysAre
<1> DEFINE t == [kind |-> "fetch"]
           K == {"fetch", "create", "fetched", "saved"}
<1>1. /\ t \in TTask /\ t.kind = "fetch" /\ t.kind \notin Exchanges
      /\ tasks' = Append(tasks, t) /\ list' = <<>>
  BY TasksMade DEF Load, Enqueued, Exchanges
<1> HIDE DEF t
<1>2. ~Exchanging(sigs) /\ ~Coming(K, sigs)
  BY DEF Load, Muddles
<1>3. OneExchange(tasks', exporting, sigs, action')
  <2>1. OneExchange(tasks, exporting, sigs, action')
    BY <1>0, <1>2, ExchangeBegins
  <2> QED BY <1>0, <1>1, <2>1, ExchangeTask
<1>4. ~Has(tasks, K) /\ ~Has(sigs, K)
  BY <1>0, <1>2, ComingIs
<1>5. ~Has(sigs, {"fetched", "saved"})
  <2>1. {"fetched", "saved"} \subseteq K
    OBVIOUS
  <2> HIDE DEF K
  <2> QED BY <1>4, <2>1, HasFewer
<1>6. \A j \in 1..Len(tasks) : tasks[j].kind # "fetch" /\ tasks[j].kind # "create"
  BY <1>4 DEF Has
<1> HIDE DEF K
<1>7. FetchWaits(tasks', sigs, list')
  <2> DEFINE r == Append(tasks, t)
             f == Len(tasks) + 1
  <2>1. /\ Len(r) = Len(tasks) + 1 /\ \A j \in 1..Len(tasks) : r[j] = tasks[j]
        /\ r[f] = t /\ Len(tasks) \in Nat
    BY <1>0, <1>1, AppendProperties, LenProperties
  <2> HIDE DEF r
  <2>2. /\ f \in 1..Len(r) /\ \A j \in 1..Len(r) : j \in 1..Len(tasks) \/ j = f
        /\ \A j \in 1..(f - 1) : j \in 1..Len(tasks)
    BY <2>1
  <2> HIDE DEF f
  <2>3. /\ r[f].kind = "fetch" /\ \A j \in 1..Len(r) : r[j].kind = "fetch" => j = f
        /\ \A j \in 1..(f - 1) : r[j].kind # "create"
    BY <1>1, <1>6, <2>1, <2>2
  <2>4. FetchWaits(r, sigs, list')
    BY <1>1, <1>5, <2>2, <2>3 DEF FetchWaits
  <2> QED BY <1>1, <2>4 DEF r
<1> QED BY <1>3, <1>7 DEF Shape

\* The requests of the user.
LEMMA UserFollows ==
    ASSUME LocalTypes, ListFollows,
           \/ LoadTileSets
           \/ \E name \in Names, map, elevation \in BOOLEAN : StartDownload(name, map, elevation)
           \/ \E i \in DOMAIN list : DeleteTileSet(i)
           \/ \E i \in DOMAIN list, name \in Names : RenameTileSet(i, name)
           \/ \E selected \in SUBSET ToSet(list) : ExportSets(selected)
           \/ \E replace \in BOOLEAN : ImportSets(replace)
           \/ ResetAction
    PROVE  ListFollows'
<1>0. /\ tasks \in Seq(TTask) /\ signals \in Seq(TSignal) /\ list \in Seq(Objs)
      /\ \A i \in 1..Len(list) : list[i] \in DOMAIN objects
  BY WaysAre DEF LocalTypes, ListIsThere
<1>1. ASSUME NEW t \in TTask, t.kind \notin {"fetch", "import", "export"}, tasks' = Enqueued(tasks, t),
             \A o \in DOMAIN objects : objects'[o].id = objects[o].id,
             UNCHANGED <<tables, list, exporting, signals, action, crashed, muddled>>
      PROVE  ListFollows'
  <2> SUFFICES ASSUME ~muddled, ~crashed
               PROVE  /\ OneExchange(tasks', exporting, signals, action)
                      /\ Shape(tasks', signals, action, list, objects', DOMAIN tables.sets)
    BY <1>1 DEF ListFollows
  <2>1. OneExchange(Append(tasks, t), exporting, signals, action)
    <3>1. t.kind \notin Exchanges
      BY <1>1 DEF Exchanges
    <3> QED BY <1>0, <3>1, ExchangeTask DEF ListFollows
  <2>2. Shape(Append(tasks, t), signals, action, list, objects, DOMAIN tables.sets)
    BY <1>0, <1>1, ShapeTask DEF ListFollows
  <2>3. Shape(Append(tasks, t), signals, action, list, objects', DOMAIN tables.sets)
    <3>1. \A i \in 1..Len(list) : objects'[list[i]].id = objects[list[i]].id
      BY <1>0, <1>1
    <3> QED BY <2>2, <3>1, ShapeObjects
  <2> QED BY <1>1, <2>1, <2>3 DEF Enqueued
<1>2. CASE LoadTileSets
  <2>1. Load(signals) /\ UNCHANGED <<signals, exporting>>
    BY <1>2 DEF LoadTileSets
  <2> QED BY <1>0, <2>1, LoadFollows
<1>3. ASSUME NEW name \in Names, NEW map \in BOOLEAN, NEW elevation \in BOOLEAN,
             StartDownload(name, map, elevation)
      PROVE  ListFollows'
  <2>1. PICK t, u \in TTask :
             /\ t.kind = "create" /\ u.kind = "create"
             /\ tasks' \in {tasks, Append(tasks, t), Append(tasks, u), Append(Append(tasks, t), u)}
    BY <1>0, <1>3, CreatesAre
  <2>2. UNCHANGED <<tables, objects, list, exporting, signals, action, crashed, muddled>>
    BY <1>3 DEF StartDownload
  <2>3. Append(tasks, t) \in Seq(TTask)
    BY <1>0, <2>1, AppendProperties
  <2>4. t.kind \notin Exchanges /\ u.kind \notin Exchanges
    BY <2>1 DEF Exchanges
  <2> SUFFICES ASSUME ~muddled, ~crashed
               PROVE  /\ OneExchange(tasks', exporting, signals, action)
                      /\ Shape(tasks', signals, action, list, objects, DOMAIN tables.sets)
    BY <2>2 DEF ListFollows
  <2>5. /\ OneExchange(tasks, exporting, signals, action)
        /\ Shape(tasks, signals, action, list, objects, DOMAIN tables.sets)
    BY DEF ListFollows
  <2>6. /\ OneExchange(Append(tasks, t), exporting, signals, action)
        /\ Shape(Append(tasks, t), signals, action, list, objects, DOMAIN tables.sets)
    BY <1>0, <2>1, <2>4, <2>5, ExchangeTask, ShapeTask
  <2>7. /\ OneExchange(Append(tasks, u), exporting, signals, action)
        /\ Shape(Append(tasks, u), signals, action, list, objects, DOMAIN tables.sets)
    BY <1>0, <2>1, <2>4, <2>5, ExchangeTask, ShapeTask
  <2>8. /\ OneExchange(Append(Append(tasks, t), u), exporting, signals, action)
        /\ Shape(Append(Append(tasks, t), u), signals, action, list, objects, DOMAIN tables.sets)
    BY <1>0, <2>1, <2>3, <2>4, <2>6, ExchangeTask, ShapeTask
  <2> QED BY <2>1, <2>5, <2>6, <2>7, <2>8
<1>4. ASSUME NEW i \in DOMAIN list, DeleteTileSet(i) PROVE ListFollows'
  <2>1. /\ \E t \in TTask : tasks' = Enqueued(tasks, t) /\ t.kind \in {"reset", "delete"}
        /\ \A o \in DOMAIN objects : objects'[o].id = objects[o].id
        /\ UNCHANGED <<tables, list, exporting, signals, action, crashed, muddled>>
    BY <1>4, DeletesAre DEF LocalTypes
  <2> QED BY <1>1, <2>1
<1>5. ASSUME NEW i \in DOMAIN list, NEW name \in Names, RenameTileSet(i, name) PROVE ListFollows'
  <2>1. /\ \E t \in TTask : tasks' = Enqueued(tasks, t) /\ t.kind = "rename"
        /\ \A o \in DOMAIN objects : objects'[o].id = objects[o].id
        /\ UNCHANGED <<tables, list, exporting, signals, action, crashed, muddled>>
    BY <1>5, RenamesAre DEF LocalTypes
  <2> QED BY <1>1, <2>1
<1>6. ASSUME ~muddled', ~crashed', muddled' = (muddled \/ Exchanging(signals)),
             UNCHANGED <<tables, objects, list, exporting, signals, crashed>>
      PROVE  /\ exporting = <<>> /\ ~Has(tasks, Exchanges) /\ ~Has(signals, {"completed"})
             /\ \A act : OneExchange(tasks, exporting, signals, act)
             /\ Shape(tasks, signals, action', list, objects, DOMAIN tables.sets)
  <2>1. ~Exchanging(signals) /\ Shape(tasks, signals, action, list, objects, DOMAIN tables.sets)
    BY <1>6 DEF ListFollows
  <2>2. /\ exporting = <<>> /\ ~Has(tasks, Exchanges) /\ ~Has(signals, {"completed"})
        /\ \A act : OneExchange(tasks, exporting, signals, act)
    BY <1>0, <2>1, ExchangeBegins
  <2>3. Shape(tasks, signals, action', list, objects, DOMAIN tables.sets)
    BY <2>1, <2>2 DEF Shape, Suspended
  <2> QED BY <2>2, <2>3
<1>7. ASSUME NEW selected \in SUBSET ToSet(list), ExportSets(selected) PROVE ListFollows'
  <2> SUFFICES ASSUME ~muddled', ~crashed' PROVE ListFollows'
    BY DEF ListFollows
  <2> DEFINE t == [kind |-> "export", sets |-> Chosen(selected)]
  <2>1. /\ muddled' = (muddled \/ Exchanging(signals)) /\ tasks' = Append(tasks, t)
        /\ UNCHANGED <<tables, objects, list, exporting, signals, crashed>>
    BY <1>7 DEF ExportSets, Enqueued
  <2>2. t \in TTask /\ t.kind = "export"
    BY ChosenAre, TasksMade DEF LocalTypes
  <2> HIDE DEF t
  <2>3. /\ exporting = <<>> /\ ~Has(tasks, Exchanges) /\ ~Has(signals, {"completed"})
        /\ OneExchange(tasks, exporting, signals, action')
        /\ Shape(tasks, signals, action', list, objects, DOMAIN tables.sets)
    BY <1>6, <2>1
  <2>4. Shape(tasks', signals, action', list, objects, DOMAIN tables.sets)
    BY <1>0, <2>1, <2>2, <2>3, ShapeTask
  <2>5. /\ Once(tasks', Exchanges) /\ (Has(tasks', {"import"}) <=> Has(tasks, {"import"}))
    BY <1>0, <2>1, <2>2, <2>3, HasAppend DEF OneExchange
  <2>6. OneExchange(tasks', exporting, signals, action')
    BY <2>3, <2>5 DEF OneExchange
  <2> QED BY <2>1, <2>4, <2>6 DEF ListFollows
<1>8. ASSUME NEW replace \in BOOLEAN, ImportSets(replace) PROVE ListFollows'
  <2> SUFFICES ASSUME ~muddled', ~crashed' PROVE ListFollows'
    BY DEF ListFollows
  <2> DEFINE t == [kind |-> "import", replace |-> replace]
  <2>1. /\ muddled' = (muddled \/ Exchanging(signals)) /\ tasks' = Append(tasks, t)
        /\ UNCHANGED <<tables, objects, list, exporting, signals, crashed>> /\ action' = "importing"
    BY <1>8 DEF ImportSets, Enqueued
  <2>2. t \in TTask /\ t.kind = "import"
    BY TasksMade
  <2> HIDE DEF t
  <2>3. /\ exporting = <<>> /\ ~Has(tasks, Exchanges) /\ ~Has(signals, {"completed"})
        /\ OneExchange(tasks, exporting, signals, action')
        /\ Shape(tasks, signals, action', list, objects, DOMAIN tables.sets)
    BY <1>6, <2>1
  <2>4. Shape(tasks', signals, action', list, objects, DOMAIN tables.sets)
    BY <1>0, <2>1, <2>2, <2>3, ShapeTask
  <2>5. Once(tasks', Exchanges)
    BY <1>0, <2>1, <2>2, <2>3, HasAppend DEF OneExchange
  <2>6. OneExchange(tasks', exporting, signals, action')
    BY <2>1, <2>3, <2>5 DEF OneExchange
  <2> QED BY <2>1, <2>4, <2>6 DEF ListFollows
<1>9. CASE ResetAction
  <2> SUFFICES ASSUME ~muddled', ~crashed' PROVE ListFollows'
    BY DEF ListFollows
  <2>1. /\ muddled' = (muddled \/ Exchanging(signals))
        /\ UNCHANGED <<tables, objects, list, tasks, exporting, signals, crashed>>
    BY <1>9 DEF ResetAction
  <2>2. /\ OneExchange(tasks, exporting, signals, action')
        /\ Shape(tasks, signals, action', list, objects, DOMAIN tables.sets)
    BY <1>6, <2>1
  <2> QED BY <2>1, <2>2 DEF ListFollows
<1> QED BY <1>2, <1>3, <1>4, <1>5, <1>7, <1>8, <1>9

\* The handlers of the signals.
LEMMA HandlersFollow ==
    ASSUME LocalTypes, ListFollows,
           HandleNewObject \/ HandleDeleted \/ HandleReset \/ HandleCompleted
    PROVE  ListFollows'
<1>0. /\ tasks \in Seq(TTask) /\ signals \in Seq(TSignal) /\ list \in Seq(Objs)
      /\ \A i \in 1..Len(list) : list[i] \in DOMAIN objects
      /\ \A i, j \in 1..Len(list) : list[i] = list[j] => i = j
  BY WaysAre DEF LocalTypes, ListIsThere
<1>1. signals # <<>> /\ signals' = Tail(signals) /\ Tail(signals) \in Seq(TSignal)
  <2>1. signals # <<>> /\ signals' = Tail(signals)
    BY DEF HandleNewObject, HandleDeleted, HandleReset, HandleCompleted, Signalled
  <2> QED BY <1>0, <2>1, HeadTailProperties
<1>2. UNCHANGED <<tables, exporting, crashed>>
  BY DEF HandleNewObject, HandleDeleted, HandleReset, HandleCompleted
<1> DEFINE D == DOMAIN tables.sets
<1> HIDE DEF D
<1>3. ASSUME UNCHANGED <<tasks, action, muddled>>,
             Shape(tasks, signals, action, list, objects, D) =>
               Shape(tasks, Tail(signals), action, list', objects', D)
      PROVE  ListFollows'
  <2> SUFFICES ASSUME ~muddled, ~crashed PROVE ListFollows'
    BY <1>2, <1>3 DEF ListFollows
  <2>1. OneExchange(tasks, exporting, Tail(signals), action)
    BY <1>0, <1>1, ExchangeSignal DEF ListFollows
  <2>2. Shape(tasks, signals, action, list, objects, D)
    BY DEF ListFollows, D
  <2>3. Shape(tasks, Tail(signals), action, list', objects', D)
    BY <1>3, <2>2
  <2> QED BY <1>1, <1>2, <1>3, <2>1, <2>3 DEF ListFollows, D
<1>4. CASE HandleNewObject
  <2>1. /\ Signalled("fetched") \/ Signalled("saved")
        /\ Head(signals).set \in TObject
        /\ UNCHANGED <<tasks, action, muddled>>
    BY <1>4, NewObjectIs DEF LocalTypes
  <2>2. PICK o \in Objs :
           /\ o \notin DOMAIN objects /\ list' = Append(list, o) /\ objects'[o] = Head(signals).set
           /\ \A p \in DOMAIN objects : objects'[p] = objects[p]
    BY <1>4, NewObjectIs DEF LocalTypes
  <2>3. Head(signals).kind \in {"fetched", "saved"} /\ Head(signals).set.id \in SetIds
    BY <2>1 DEF Signalled, TObject
  <2>4. Shape(tasks, signals, action, list, objects, D) =>
          Shape(tasks, Tail(signals), action, Append(list, o), objects', D)
    BY <1>0, <1>1, <2>2, <2>3, ShapeAdd
  <2> QED BY <1>3, <2>1, <2>2, <2>4
<1>5. CASE HandleDeleted
  <2>1. /\ Signalled("deleted") /\ UNCHANGED <<tasks, action, muddled>>
        /\ \/ /\ \A i \in 1..Len(list) : objects[list[i]].id # Head(signals).id
              /\ UNCHANGED <<objects, list>>
           \/ \E m \in 1..Len(list) :
                 /\ objects[list[m]].id = Head(signals).id
                 /\ list' = RemoveAt(list, m)
                 /\ DOMAIN objects' = DOMAIN objects \ {list[m]}
                 /\ \A o \in DOMAIN objects' : objects'[o] = objects[o]
    BY <1>5, DeletedIsGone DEF LocalTypes
  <2>2. Head(signals).kind = "deleted"
    BY <2>1 DEF Signalled
  <2>3. \/ list' = list /\ objects' = objects /\ \A i \in 1..Len(list) : objects[list[i]].id # Head(signals).id
        \/ \E m \in 1..Len(list) :
              /\ objects[list[m]].id = Head(signals).id /\ list' = RemoveAt(list, m)
              /\ \A i \in 1..Len(list) : i # m => objects'[list[i]].id = objects[list[i]].id
    BY <1>0, <2>1
  <2>4. Shape(tasks, signals, action, list, objects, D) =>
          Shape(tasks, Tail(signals), action, list', objects', D)
    BY <1>0, <1>1, <2>2, <2>3, ShapeRemove
  <2> QED BY <1>3, <2>1, <2>4
<1>6. CASE HandleReset
  <2>1. Load(Tail(signals))
    BY <1>6 DEF HandleReset
  <2> QED BY <1>1, <1>2, <2>1, LoadFollows
<1>7. CASE HandleCompleted
  <2>1. CASE action = "importing"
    <3>1. Load(Tail(signals))
      BY <1>7, <2>1 DEF HandleCompleted
    <3> QED BY <1>1, <1>2, <3>1, LoadFollows
  <2>2. CASE action # "importing"
    <3>1. UNCHANGED <<objects, list, tasks, muddled>> /\ Head(signals).kind = "completed"
      BY <1>7, <2>2 DEF HandleCompleted, Signalled
    <3> SUFFICES ASSUME ~muddled, ~crashed
                 PROVE  /\ OneExchange(tasks, exporting, Tail(signals), action')
                        /\ Shape(tasks, Tail(signals), action', list, objects, D)
      BY <1>1, <1>2, <3>1 DEF ListFollows, D
    <3>2. OneExchange(tasks, exporting, signals, action) /\ Shape(tasks, signals, action, list, objects, D)
      BY DEF ListFollows, D
    <3>3. Shape(tasks, Tail(signals), action', list, objects, D)
      BY <1>0, <1>1, <2>2, <3>1, <3>2, ShapeDone
    <3>4. OneExchange(tasks, exporting, Tail(signals), action)
      BY <1>0, <1>1, <3>2, ExchangeSignal
    <3>5. ~Has(tasks, {"import"})
      BY <2>2, <3>2 DEF OneExchange
    <3> QED BY <3>3, <3>4, <3>5 DEF OneExchange
  <2> QED BY <2>1, <2>2
<1> QED BY <1>4, <1>5, <1>6, <1>7


\* The steps of the worker.
LEMMA WorkerFollows ==
    ASSUME LocalTypes, ListFollows,
           \/ FetchTileSets \/ CreateTileSet \/ RunDelete \/ RunRename \/ RunReset
           \/ \E h \in Hash, s \in DOMAIN tables.sets : SaveTile(h, s)
           \/ ImportMerge \/ ImportReplace \/ BeginExport \/ ExportSet
    PROVE  ListFollows'
<1>1. UNCHANGED <<list, objects, action, muddled>>
  BY DEF FetchTileSets, CreateTileSet, RunDelete, RunRename, RunReset, SaveTile, ImportMerge,
     ImportReplace, BeginExport, ExportSet, manager
<1>2. crashed => crashed'
  BY DEF FetchTileSets, CreateTileSet, RunDelete, RunRename, RunReset, SaveTile, ImportMerge,
     ImportReplace, BeginExport, ExportSet
<1> DEFINE D == DOMAIN tables.sets
           D2 == DOMAIN tables'.sets
<1> SUFFICES ASSUME ~muddled, ~crashed, ~crashed'
             PROVE  /\ OneExchange(tasks', exporting', signals', action)
                    /\ Shape(tasks', signals', action, list, objects, D2)
  BY <1>1, <1>2 DEF ListFollows
<1>3. OneExchange(tasks, exporting, signals, action) /\ Shape(tasks, signals, action, list, objects, D)
  BY DEF ListFollows
<1>4. tasks \in Seq(TTask) /\ signals \in Seq(TSignal) /\ exporting \in Seq(Objs) /\ DataTypes /\ WayTypes
  BY WaysAre DEF LocalTypes
<1> HIDE DEF D, D2
<1>5. ASSUME tasks # <<>>, tasks' = Tail(tasks)
      PROVE  OneExchange(tasks', exporting, signals, action)
  BY <1>3, <1>4, <1>5, ExchangeTask
<1>6. CASE FetchTileSets
  <2>1. Dequeue("fetch") /\ UNCHANGED <<tables, exporting>>
    BY <1>6 DEF FetchTileSets
  <2>2. tasks # <<>> /\ tasks' = Tail(tasks) /\ Head(tasks).kind = "fetch"
    BY <2>1 DEF Dequeue
  <2>3. PICK new \in Seq(TSignal) :
           /\ signals' = signals \o new
           /\ \A i \in 1..Len(new) : new[i].kind = "fetched" /\ new[i].set.id \in D
           /\ \A i, j \in 1..Len(new) : new[i].set.id = new[j].set.id => i = j
           /\ \A s \in D : \E i \in 1..Len(new) : new[i].set.id = s
    BY <1>4, <1>6, FetchIs DEF D
  <2>4. D2 = D
    BY <2>1 DEF D, D2
  <2>5. Shape(Tail(tasks), signals \o new, action, list, objects, D)
    BY <1>3, <1>4, <2>2, <2>3, ShapeFetched
  <2>6. ~Has(new, {"completed"})
    BY <2>3 DEF Has
  <2>7. OneExchange(tasks', exporting, signals \o new, action)
    BY <1>4, <1>5, <2>2, <2>6, ExchangeSignal
  <2> QED BY <2>1, <2>2, <2>3, <2>4, <2>5, <2>7
<1>7. CASE CreateTileSet
  <2>1. Dequeue("create") /\ UNCHANGED exporting
    BY <1>7 DEF CreateTileSet
  <2>2. tasks # <<>> /\ tasks' = Tail(tasks) /\ Head(tasks).kind = "create"
    BY <2>1 DEF Dequeue
  <2>3. OneExchange(tasks', exporting, signals, action)
    BY <1>5, <2>2
  <2>4. CASE UNCHANGED <<tables, signals>>
    <3>1. D2 = D
      BY <2>4 DEF D, D2
    <3>2. Shape(Tail(tasks), signals, action, list, objects, D)
      BY <1>3, <1>4, <2>2, ShapeRest
    <3> QED BY <2>1, <2>2, <2>3, <2>4, <3>1, <3>2
  <2>5. ASSUME NEW x \in TSignal, x.kind = "saved", x.set.id \notin D, D2 = D \cup {x.set.id},
               signals' = Append(signals, x)
        PROVE  /\ OneExchange(tasks', exporting, signals', action)
               /\ Shape(tasks', signals', action, list, objects, D2)
    <3>1. Shape(tasks, Append(signals, x), action, list, objects, D2)
      BY <1>3, <1>4, <2>2, <2>5, ShapeSaved
    <3>2. Shape(Tail(tasks), Append(signals, x), action, list, objects, D2)
      BY <1>4, <2>2, <3>1, ShapeRest
    <3>3. OneExchange(tasks', exporting, Append(signals, x), action)
      BY <1>4, <2>3, <2>5, ExchangeSignal
    <3> QED BY <2>2, <2>5, <3>2, <3>3
  <2>6. \/ UNCHANGED <<tables, signals>>
        \/ \E x \in TSignal : /\ x.kind = "saved" /\ x.set.id \notin D /\ D2 = D \cup {x.set.id}
                              /\ signals' = Append(signals, x)
    BY <1>4, <1>7, CreateIs DEF D, D2
  <2> QED BY <2>1, <2>4, <2>5, <2>6
<1>8. CASE RunDelete
  <2> DEFINE x == [kind |-> "deleted", id |-> Head(tasks).id]
  <2>1. /\ Dequeue("delete") /\ UNCHANGED exporting
        /\ tables' = Deleted(tables, Head(tasks).id) /\ signals' = Append(signals, x)
    BY <1>8 DEF RunDelete
  <2>2. /\ tasks # <<>> /\ tasks' = Tail(tasks) /\ Head(tasks).kind = "delete"
        /\ Head(tasks) \in TTask
    BY <1>4, <2>1, OneDone
  <2>3. x \in TSignal /\ x.kind = "deleted" /\ x.id = Head(tasks).id
    BY <2>2, TasksAre, SignalsMade
  <2>4. D2 = D \ {x.id}
    BY <2>1, <2>3, DeletedIs DEF D, D2
  <2> HIDE DEF x
  <2>5. Shape(tasks, Append(signals, x), action, list, objects, D2)
    BY <1>3, <1>4, <2>3, <2>4, ShapeDeleted
  <2>6. Shape(Tail(tasks), Append(signals, x), action, list, objects, D2)
    BY <1>4, <2>2, <2>5, ShapeRest
  <2>7. OneExchange(tasks', exporting, Append(signals, x), action)
    BY <1>4, <1>5, <2>2, <2>3, ExchangeSignal
  <2> QED BY <2>1, <2>2, <2>6, <2>7
<1>9. CASE RunRename
  <2>1. Dequeue("rename") /\ UNCHANGED <<exporting, signals>>
    BY <1>9 DEF RunRename
  <2>2. tasks # <<>> /\ tasks' = Tail(tasks) /\ Head(tasks).kind = "rename"
    BY <2>1 DEF Dequeue
  <2>3. D2 = D
    BY <1>9, RunRenameTypes DEF D, D2
  <2>4. Shape(Tail(tasks), signals, action, list, objects, D)
    BY <1>3, <1>4, <2>2, ShapeRest
  <2> QED BY <1>5, <2>1, <2>2, <2>3, <2>4
<1>10. CASE RunReset
  <2> DEFINE x == [kind |-> "reset"]
  <2>1. Dequeue("reset") /\ UNCHANGED exporting /\ signals' = Append(signals, x)
    BY <1>10 DEF RunReset, Emit
  <2>2. tasks # <<>> /\ tasks' = Tail(tasks)
    BY <2>1 DEF Dequeue
  <2>3. x \in TSignal /\ x.kind = "reset"
    BY SignalsMade
  <2> HIDE DEF x
  <2>4. Has(Append(signals, x), {"reset"})
    BY <1>4, <2>3, HasAppend
  <2>5. OneExchange(tasks', exporting, Append(signals, x), action)
    BY <1>4, <1>5, <2>2, <2>3, ExchangeSignal
  <2> QED BY <2>1, <2>4, <2>5 DEF Shape, Suspended
<1>11. ASSUME NEW h \in Hash, NEW s \in DOMAIN tables.sets, SaveTile(h, s)
       PROVE  /\ OneExchange(tasks', exporting', signals', action)
              /\ Shape(tasks', signals', action, list, objects, D2)
  <2>1. UNCHANGED <<tasks, exporting, signals>>
    BY <1>11 DEF SaveTile
  <2>2. D2 = D
    BY <1>11, SaveTileTypes DEF D, D2
  <2> QED BY <1>3, <2>1, <2>2
<1> DEFINE done == [kind |-> "completed"]
<1>12. done \in TSignal /\ done.kind = "completed"
  BY SignalsMade
<1>13. CASE ImportMerge \/ ImportReplace
  <2>1. Dequeue("import") /\ UNCHANGED exporting /\ signals' = Append(signals, done)
    BY <1>13 DEF ImportMerge, ImportReplace, Emit
  <2> HIDE DEF done
  <2>2. tasks # <<>> /\ tasks' = Tail(tasks) /\ Head(tasks).kind = "import" /\ exporting = <<>>
    BY <2>1 DEF Dequeue
  <2>3. /\ Has(signals', {"completed"})
        /\ Once(signals, {"completed"}) /\ ~Has(signals, {"completed"}) => Once(signals', {"completed"})
    BY <1>4, <1>12, <2>1, HasAppend
  <2>4. /\ Has(tasks, {"import"}) /\ Has(tasks, Exchanges)
        /\ ~Has(tasks', Exchanges) /\ ~Has(tasks', {"import"}) /\ Once(tasks', Exchanges)
    <3>1. Head(tasks).kind \in {"import"} /\ Head(tasks).kind \in Exchanges
      BY <2>2 DEF Exchanges
    <3>2. /\ Has(tasks, {"import"}) /\ Has(tasks, Exchanges)
          /\ ~Has(tasks', Exchanges) /\ Once(tasks', Exchanges)
      BY <1>3, <1>4, <2>2, <3>1, HasTail DEF OneExchange
    <3>3. {"import"} \subseteq Exchanges
      BY DEF Exchanges
    <3> QED BY <3>2, <3>3, HasFewer
  <2>5. action = "importing" /\ ~Has(signals, {"completed"}) /\ Once(signals, {"completed"})
    BY <1>3, <2>4 DEF OneExchange
  <2>6. OneExchange(tasks', exporting, signals', action)
    BY <2>2, <2>3, <2>4, <2>5 DEF OneExchange
  <2> QED BY <2>1, <2>3, <2>5, <2>6 DEF Shape, Suspended
<1>14. CASE BeginExport
  <2>1. /\ Dequeue("export") /\ exporting' = Head(tasks).sets /\ UNCHANGED <<tables, signals>>
    BY <1>14 DEF BeginExport
  <2>2. tasks # <<>> /\ tasks' = Tail(tasks) /\ Head(tasks).kind = "export" /\ exporting = <<>>
    BY <2>1 DEF Dequeue
  <2>3. D2 = D
    BY <2>1 DEF D, D2
  <2>4. Shape(Tail(tasks), signals, action, list, objects, D)
    BY <1>3, <1>4, <2>2, ShapeRest
  <2>5. Has(tasks, Exchanges) /\ ~Has(tasks', Exchanges)
    <3>1. Head(tasks).kind \in Exchanges
      BY <2>2 DEF Exchanges
    <3> QED BY <1>3, <1>4, <2>2, <3>1, HasTail DEF OneExchange
  <2>6. OneExchange(tasks', exporting, signals, action) /\ ~Has(signals, {"completed"})
    BY <1>3, <1>5, <2>2, <2>5 DEF OneExchange
  <2>7. OneExchange(tasks', exporting', signals, action)
    BY <2>5, <2>6 DEF OneExchange
  <2> QED BY <2>1, <2>2, <2>3, <2>4, <2>7
<1>15. CASE ExportSet
  <2>1. /\ exporting # <<>> /\ UNCHANGED <<tables, tasks>>
        /\ exporting' \in {<<>>, Tail(exporting)}
        /\ IF exporting' = <<>> THEN signals' = Append(signals, done) ELSE UNCHANGED signals
    BY <1>4, <1>15, ExportIs
  <2> HIDE DEF done
  <2>2. D2 = D
    BY <2>1 DEF D, D2
  <2>3. /\ ~Has(tasks, Exchanges) /\ ~Has(signals, {"completed"})
    BY <1>3, <2>1 DEF OneExchange
  <2>4. CASE exporting' = <<>>
    <3>1. signals' = Append(signals, done)
      BY <2>1, <2>4
    <3>2. Shape(tasks, signals', action, list, objects, D)
      BY <1>3, <1>4, <1>12, <3>1, ShapeSignal
    <3>3. Once(signals', {"completed"})
      BY <1>3, <1>4, <1>12, <2>3, <3>1, HasAppend DEF OneExchange
    <3>4. OneExchange(tasks, exporting', signals', action)
      BY <1>3, <2>3, <2>4, <3>3 DEF OneExchange
    <3> QED BY <2>1, <2>2, <3>2, <3>4
  <2>5. CASE exporting' # <<>>
    <3>1. UNCHANGED signals
      BY <2>1, <2>5
    <3>2. OneExchange(tasks, exporting', signals, action)
      BY <1>3, <2>3 DEF OneExchange
    <3> QED BY <1>3, <2>1, <2>2, <3>1, <3>2
  <2> QED BY <2>4, <2>5
<1> QED BY <1>6, <1>7, <1>8, <1>9, <1>10, <1>11, <1>13, <1>14, <1>15

\* Every step keeps the list on its way to the database.
LEMMA FollowingKeeps == LocalTypes /\ ListFollows /\ [ManagerNext]_managerVars => ListFollows'
<1> SUFFICES ASSUME LocalTypes, ListFollows, [ManagerNext]_managerVars PROVE ListFollows'
  OBVIOUS
<1>1. CASE UNCHANGED managerVars
  BY <1>1 DEF managerVars, manager, ListFollows
<1>2. CASE ManagerNext
  BY <1>2, UserFollows, HandlersFollow, WorkerFollows DEF ManagerNext, Step
<1> QED BY <1>1, <1>2

-----------------------------------------------------------------------------
(* The theorems of TileSetManager *)

\* The inductive invariant: types, what exports read, how the list follows the database
ManagerIInv == LocalTypes /\ ReadsLiving /\ ListFollows

\* It holds at the start ...
LEMMA ManagerStarts == ManagerInit => ManagerIInv
<1> SUFFICES ASSUME ManagerInit PROVE ManagerIInv
  OBVIOUS
<1>1. LocalTypes
  BY LocalStart
<1>2. ReadsLiving
  <2>1. tasks = <<>> /\ exporting = <<>> /\ ~crashed /\ Len(<<>>) = 0 /\ 1..0 = {}
    BY EmptySeq DEF ManagerInit
  <2> QED BY <2>1 DEF ReadsLiving, Living
<1>3. ListFollows
  BY DEF ManagerInit, ListFollows
<1> QED BY <1>1, <1>2, <1>3 DEF ManagerIInv

\* ... and always.
LEMMA ManagerAlways == ManagerSpec => []ManagerIInv
<1>1. ManagerIInv /\ [ManagerNext]_managerVars => ManagerIInv'
  BY LocalKeeps, ReadsKeep, FollowingKeeps DEF ManagerIInv
<1> QED BY <1>1, ManagerStarts, PTL DEF ManagerSpec

\* The tables and the file are well formed with their UNIQUE names, an exported file
\* lists each tile for one set, and no export reads an object that the application
\* thread has deleted, unless it was asked for while the set was being deleted
\* (QGCMapEngineManager::exportSets, QGCCacheWorker::_exportSets).
THEOREM ExportsReadLivingSets == ManagerSpec => []ManagerInv
<1>1. ManagerIInv => ManagerInv
  <2> SUFFICES ASSUME ManagerIInv PROVE ManagerInv
    OBVIOUS
  <2>1. DataTypes /\ WayTypes /\ ListIsThere /\ ReadsLiving
    BY DEF ManagerIInv, LocalTypes
  <2>2. Database(tables, 1..MaxSets)
    <3>1. Base(tables) /\ DOMAIN tables.sets \subseteq 1..MaxSets
      BY <2>1 DEF DataTypes, SetIds
    <3>2. 1 \in 1..MaxSets
      BY ManagerAssumption
    <3>3. tables.listed \subseteq Hash \X (1..MaxSets)
      BY <3>1, <3>2 DEF Base
    <3> QED BY <3>1, <3>3 DEF Database, Base
  <2>3. Database(file, Nat \ {0}) /\ FileIsPartition
    <3>1. Base(file) /\ file.listed \subseteq file.tiles \X DOMAIN file.sets /\ FileIsPartition
      BY <2>1 DEF DataTypes
    <3>2. DOMAIN file.sets \subseteq Nat \ {0}
      BY <3>1 DEF Base
    <3>3. file.listed \subseteq Hash \X (Nat \ {0})
      BY <3>1, <3>2 DEF Base
    <3> QED BY <3>1, <3>2, <3>3 DEF Database, Base
  <2>4. \A i \in DOMAIN list : list[i] \in DOMAIN objects
    BY <2>1, ListedAre
  <2>5. action \in {"none", "importing", "exporting", "done"}
    BY <2>1 DEF WayTypes
  <2>6. ExportReadsLiving
    BY <2>1 DEF ReadsLiving, ExportReadsLiving
  <2> QED BY <2>2, <2>3, <2>4, <2>5, <2>6 DEF ManagerInv
<1> QED BY <1>1, ManagerAlways, PTL

\* When all tasks are done and all signals handled, the list of the page shows each set
\* of the database once (QGCMapEngineManager::_tileSetFetched, _tileSetSaved,
\* _tileSetDeleted, _resetCompleted and _actionCompleted, whose order is that of the
\* worker's queue), unless the list was asked for while its signals were still coming.
THEOREM TheListIsTheDatabase == ManagerSpec => []ListIsDatabase
<1>1. ManagerIInv => ListIsDatabase
  <2> SUFFICES ASSUME ManagerIInv, Quiet, ~muddled, ~crashed
               PROVE  Shown = DOMAIN tables.sets /\ Len(list) = Cardinality(Shown)
    BY DEF ListIsDatabase
  <2>1. /\ DataTypes /\ WayTypes /\ ListIsThere
        /\ Shape(tasks, signals, action, list, objects, DOMAIN tables.sets)
    BY DEF ManagerIInv, LocalTypes, ListFollows
  <2>2. tasks = <<>> /\ signals = <<>> /\ Len(<<>>) = 0 /\ 1..0 = {}
    BY EmptySeq DEF Quiet
  <2>3. ~Suspended(tasks, signals, action)
    BY <2>2, HasNone DEF Suspended
  <2>4. ~FetchWaits(tasks, signals, list)
    BY <2>2 DEF FetchWaits
  <2> DEFINE S == ListIds(list, objects)
  <2>5. OnceListed(list, objects) /\ \A s \in SetIds : Follows(signals, s, S, DOMAIN tables.sets)
    BY <2>1, <2>3, <2>4 DEF Shape, Tracking
  <2>6. \A s \in SetIds : s \in DOMAIN tables.sets <=> s \in S
    BY <2>2, <2>5 DEF Follows
  <2>7. \A i \in DOMAIN list : /\ i \in 1..Len(list) /\ Object(i) = objects[list[i]]
                               /\ Object(i).id \in SetIds
    BY <2>1, ListedAre DEF TObject
  <2>8. Len(list) \in Nat /\ DOMAIN list = 1..Len(list)
    BY <2>1, LenProperties DEF WayTypes
  <2>9. Shown = S
    BY <2>7, <2>8 DEF Shown, ListIds
  <2>10. S \subseteq SetIds
    BY <2>7, <2>9 DEF Shown
  <2>11. DOMAIN tables.sets \subseteq SetIds
    BY <2>1 DEF DataTypes
  <2>12. Cardinality(S) = Len(list)
    <3> DEFINE n == Len(list)
               f == [i \in 1..n |-> objects[list[i]].id]
    <3>1. /\ f \in [1..n -> S] /\ \A i, j \in 1..n : f[i] = f[j] => i = j
          /\ \A s \in S : \E i \in 1..n : f[i] = s
      BY <2>5 DEF OnceListed, ListIds
    <3>2. n \in Nat
      BY <2>8
    <3> HIDE DEF f, n, S
    <3>3. ExistsBijection(1..n, S)
      BY <3>1 DEF ExistsBijection, Bijection, Injection, Surjection, IsInjective
    <3>4. IsFiniteSet(1..n) /\ Cardinality(1..n) = IF 1 > n THEN 0 ELSE n - 1 + 1
      BY <3>2, FS_Interval
    <3>5. Cardinality(1..n) = n
      BY <3>2, <3>4
    <3>6. Cardinality(S) = n
      BY <3>3, <3>4, <3>5, FS_Bijection
    <3> QED BY <3>6 DEF n
  <2> QED BY <2>6, <2>9, <2>10, <2>11, <2>12
<1> QED BY <1>1, ManagerAlways, PTL

\* A merging import (QGCCacheWorker::_importSets) takes every tile of the file, each for
\* a set that exists, and takes nothing from the sets that were there, as long as the
\* set the worker remembers as the default one exists.
THEOREM ImportsKeepWhatWasThere == ManagerSpec => ImportKeeps
<1> DEFINE Keeps ==
        ImportMerge /\ 1 \in DOMAIN tables.sets =>
          /\ tables.tiles \cup file.tiles \subseteq tables'.tiles
          /\ tables.listed \subseteq tables'.listed
          /\ \A s \in DOMAIN tables.sets : s \in DOMAIN tables'.sets /\ tables'.sets[s] = tables.sets[s]
          /\ \A h \in file.tiles \ tables.tiles : \E s \in DOMAIN tables'.sets : <<h, s>> \in tables'.listed
<1>1. ManagerIInv => Keeps
  <2> SUFFICES ASSUME ManagerIInv, ImportMerge, 1 \in DOMAIN tables.sets PROVE Keeps
    OBVIOUS
  <2>1. Grown(tables, tables', file.tiles)
    BY MergeIs DEF ManagerIInv, LocalTypes
  <2> QED BY <2>1 DEF Grown
<1>2. ManagerIInv /\ [ManagerNext]_managerVars => [Keeps]_managerVars
  BY <1>1
<1>3. ManagerSpec => [][Keeps]_managerVars
  BY <1>2, ManagerAlways, PTL DEF ManagerSpec
<1> QED BY <1>3 DEF ImportKeeps
=============================================================================
