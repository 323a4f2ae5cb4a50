----------------------- MODULE TileCacheWorkerProofs -----------------------
(***************************************************************************)
(* Proofs about TileCacheWorker, for every set of tasks.                   *)
(***************************************************************************)
EXTENDS TileCacheWorker, SequenceTheorems, TLAPS

USE TaskAssumption, KindAssumption, BoundAssumption

-----------------------------------------------------------------------------
(* Queues without duplicates *)

\* The empty queue.
LEMMA EmptyDistinct ==
    ASSUME NEW S
    PROVE  <<>> \in Seq(S) /\ IsInjective(<<>>) /\ Range(<<>>) = {}
  BY EmptySeq DEF IsInjective, Range

\* Appending an element that is not there keeps a queue free of duplicates.
LEMMA AppendDistinct ==
    ASSUME NEW S, NEW q \in Seq(S), NEW e \in S, IsInjective(q), e \notin Range(q)
    PROVE  /\ Append(q, e) \in Seq(S)
           /\ IsInjective(Append(q, e))
           /\ Range(Append(q, e)) = Range(q) \cup {e}
<1> DEFINE r == Append(q, e)
<1>1. /\ r \in Seq(S) /\ Len(r) = Len(q) + 1
      /\ \A i \in 1..Len(q) : r[i] = q[i]
      /\ r[Len(q) + 1] = e
  BY AppendProperties
<1>2. /\ DOMAIN q = 1..Len(q) /\ DOMAIN r = 1..(Len(q) + 1) /\ Len(q) \in Nat
  BY <1>1
<1> HIDE DEF r
<1>3. \A i \in DOMAIN r : (i \in DOMAIN q /\ r[i] = q[i]) \/ (i = Len(q) + 1 /\ r[i] = e)
  BY <1>1, <1>2
<1>4. \A i \in DOMAIN q : q[i] # e
  BY DEF Range
<1>5. IsInjective(r)
  BY <1>3, <1>4 DEF IsInjective
<1>6. Range(r) = Range(q) \cup {e}
  <2>1. Range(r) \subseteq Range(q) \cup {e}
    BY <1>3 DEF Range
  <2>2. Range(q) \cup {e} \subseteq Range(r)
    BY <1>1, <1>2 DEF Range
  <2> QED  BY <2>1, <2>2
<1> QED  BY <1>1, <1>5, <1>6 DEF r

\* The tail of a queue without duplicates holds everything but its head.
LEMMA TailDistinct ==
    ASSUME NEW S, NEW q \in Seq(S), q # <<>>, IsInjective(q)
    PROVE  /\ Head(q) \in Range(q) /\ Head(q) \in S
           /\ Tail(q) \in Seq(S)
           /\ IsInjective(Tail(q))
           /\ Range(Tail(q)) = Range(q) \ {Head(q)}
<1> DEFINE t == Tail(q)
<1>1. /\ Head(q) \in S /\ t \in Seq(S) /\ Len(t) = Len(q) - 1
      /\ \A i \in 1..Len(t) : t[i] = q[i+1]
  BY HeadTailProperties
<1>2. /\ Head(q) = q[1] /\ Len(q) \in Nat /\ Len(q) # 0
      /\ DOMAIN q = 1..Len(q) /\ DOMAIN t = 1..(Len(q) - 1)
  BY <1>1, EmptySeq
<1> HIDE DEF t
<1>3. \A i \in DOMAIN t : i + 1 \in DOMAIN q /\ i + 1 # 1 /\ t[i] = q[i+1]
  BY <1>1, <1>2
<1>4. \A i \in DOMAIN q : i = 1 \/ (i - 1 \in DOMAIN t /\ t[i-1] = q[i])
  BY <1>1, <1>2
<1>5. IsInjective(t)
  <2> SUFFICES ASSUME NEW i \in DOMAIN t, NEW j \in DOMAIN t, t[i] = t[j]
               PROVE  i = j
    BY DEF IsInjective
  <2>1. i + 1 = j + 1
    BY <1>3 DEF IsInjective
  <2> QED  BY <2>1, <1>2
<1>6. Range(t) = Range(q) \ {Head(q)}
  <2>1. Range(t) \subseteq Range(q)
    BY <1>3 DEF Range
  <2>2. q[1] \notin Range(t)
    BY <1>2, <1>3 DEF Range, IsInjective
  <2>3. Range(q) \ {q[1]} \subseteq Range(t)
    BY <1>4 DEF Range
  <2> QED  BY <1>2, <2>1, <2>2, <2>3
<1>7. Head(q) \in Range(q)
  BY <1>2 DEF Range
<1> QED  BY <1>1, <1>5, <1>6, <1>7 DEF t

-----------------------------------------------------------------------------
(* The type invariant *)

LEMMA InitType == Init => TypeOK
<1> SUFFICES ASSUME Init PROVE TypeOK
  OBVIOUS
<1>1. /\ queue \in Seq(Task) /\ IsInjective(queue) /\ Queued = {}
      /\ events \in Seq(Event)
  BY EmptyDistinct DEF Init, Queued
<1> QED  BY <1>1 DEF Init, TypeOK, OnePlace, Serving

\* A signal queued for the application thread keeps the event queue typed.
LEMMA EmitType ==
    ASSUME TypeOK, NEW e \in Event, Emit(e)
    PROVE  events' \in Seq(Event)
  BY AppendProperties DEF TypeOK, Emit, Posted

LEMMA SignalTypes ==
    ASSUME TypeOK
    PROVE  Pruned \in Event /\ \A o \in BOOLEAN : Totals(o) \in Event
  BY DEF TypeOK, Pruned, Totals, Event

\* Every step of the application thread preserves the type invariant.
LEMMA AppType == TypeOK /\ App => TypeOK'
<1> SUFFICES ASSUME TypeOK, App PROVE TypeOK'
  OBVIOUS
<1>1. CASE InitEngine
  <2>1. Queued = {} /\ current = NoTask
    BY <1>1, EmptyDistinct DEF InitEngine, TypeOK, OnePlace, Queued
  <2>2. OnePlace'
    BY <1>1, <2>1 DEF InitEngine, TypeOK, OnePlace, Queued
  <2> QED  BY <1>1, <2>2 DEF InitEngine, TypeOK, dbVars, engineVars
<1>2. CASE Push
  <2>1. /\ pending \in Task /\ pending \notin Queued /\ pending # current
        /\ current # NoTask => current \in Task \ Queued
    BY <1>2 DEF Push, TypeOK, OnePlace
  <2>2. /\ queue' \in Seq(Task) /\ IsInjective(queue')
        /\ Queued' = Queued \cup {pending}
    BY <1>2, <2>1, AppendDistinct DEF Push, Enqueued, TypeOK, OnePlace, Queued
  <2>3. OnePlace'
    BY <1>2, <2>1, <2>2 DEF Push, TypeOK, OnePlace
  <2> QED  BY <1>2, <2>3 DEF Push, TypeOK, dbVars, engineVars
<1>3. CASE Kick
  BY <1>3 DEF Kick, WakeOrStart, TypeOK, OnePlace, Queued, dbVars, engineVars
<1>4. CASE HandleTotals
  <2>1. events' \in Seq(Event)
    BY <1>4, HeadTailProperties DEF HandleTotals, TypeOK
  <2>2. OnePlace' /\ mainPc' \in {"idle", "push"}
        /\ prunning' \in BOOLEAN /\ lostPrune' \in BOOLEAN
    BY <1>4 DEF HandleTotals, TypeOK, OnePlace, Queued, Busy, engineVars
  <2> QED  BY <1>4, <2>1, <2>2 DEF HandleTotals, TypeOK, dbVars
<1>5. CASE HandlePruned
  <2>1. events' \in Seq(Event)
    BY <1>5, HeadTailProperties DEF HandlePruned, TypeOK
  <2>2. OnePlace'
    BY <1>5 DEF HandlePruned, TypeOK, OnePlace, Queued
  <2> QED  BY <1>5, <2>1, <2>2 DEF HandlePruned, AfterPruned, TypeOK, dbVars
<1>6. CASE Stop
  BY <1>6, EmptySeq DEF Stop, TypeOK, OnePlace, Queued, dbVars, engineVars
<1>7. ASSUME NEW t \in Task, Request(t) PROVE TypeOK'
  BY <1>7 DEF Request, TypeOK, OnePlace, Queued, Busy, dbVars, engineVars
<1> QED  BY <1>1, <1>2, <1>3, <1>4, <1>5, <1>6, <1>7 DEF App

\* Running a task preserves the type invariant.
LEMMA RunType == TypeOK /\ Run => TypeOK'
<1> SUFFICES ASSUME TypeOK, Run PROVE TypeOK'
  OBVIOUS
<1>1. workerPc = "run" /\ workerPc' \in {"post", "crashed"}
  BY DEF Run, RunInit, RunSave, RunPrune, RunReset, RunReplace, RunOther, Runs
<1>2. OnePlace'
  BY <1>1 DEF Run, TypeOK, OnePlace, Queued
<1>3. /\ valid' \in BOOLEAN /\ failed' \in BOOLEAN
      /\ db' \in {"null", "closed", "open"} /\ over' \in BOOLEAN
  <2>1. CASE RunReplace
    BY <2>1 DEF RunReplace, InitDB, Reconnect, dbVars, TypeOK
  <2>2. CASE RunReset
    BY <2>2 DEF RunReset, TypeOK
  <2>3. CASE RunInit \/ RunSave \/ RunPrune \/ RunOther
    BY <2>3 DEF RunInit, RunSave, RunPrune, RunOther, dbVars, TypeOK
  <2> QED  BY <2>1, <2>2, <2>3 DEF Run
<1>4. lostPrune' \in BOOLEAN /\ prunes' \in {0, 1}
  <2>1. CASE RunPrune
    <3>1. prunes' \in {prunes, 1 - prunes} /\ prunes \in {0, 1}
      BY <2>1 DEF RunPrune, TypeOK
    <3>2. prunes' \in {0, 1}
      BY <3>1
    <3>3. lostPrune' \in BOOLEAN
      BY <2>1 DEF RunPrune, TypeOK
    <3> QED  BY <3>2, <3>3
  <2>2. CASE ~RunPrune
    BY <2>2 DEF Run, RunInit, RunSave, RunReset, RunReplace, RunOther, TypeOK
  <2> QED  BY <2>1, <2>2
<1>5. events' \in Seq(Event)
  <2>1. CASE RunPrune
    BY <2>1, EmitType, SignalTypes DEF RunPrune, TypeOK
  <2>2. CASE RunOther
    <3>1. CASE UNCHANGED events
      BY <3>1 DEF TypeOK
    <3>2. CASE \E o \in BOOLEAN : Emit(Totals(o))
      BY <3>2, EmitType, SignalTypes
    <3> QED  BY <2>2, <3>1, <3>2 DEF RunOther
  <2> QED
    BY <2>1, <2>2 DEF Run, RunInit, RunSave, RunReset, RunReplace, TypeOK
<1> QED  BY <1>1, <1>2, <1>3, <1>4, <1>5 DEF Run, TypeOK, Serving

\* Every step of the worker thread preserves the type invariant.
LEMMA WorkerType == TypeOK /\ Worker => TypeOK'
<1> SUFFICES ASSUME TypeOK, Worker PROVE TypeOK'
  OBVIOUS
<1>1. CASE Boot
  <2>1. OnePlace'
    BY <1>1 DEF Boot, TypeOK, OnePlace, Queued
  <2>2. valid' \in BOOLEAN /\ failed' \in BOOLEAN /\ db' \in {"null", "closed", "open"}
    BY <1>1 DEF Boot, InitDB, TypeOK, dbVars
  <2> QED  BY <1>1, <2>1, <2>2 DEF Boot, TypeOK, engineVars, Serving
<1>2. CASE Connect
  BY <1>2 DEF Connect, ConnectDB, TypeOK, OnePlace, Queued, dbVars, engineVars, Serving
<1>3. CASE Dequeue
  <2>1. /\ Head(queue) \in Task /\ Head(queue) \in Queued
        /\ queue' \in Seq(Task) /\ IsInjective(queue')
        /\ Queued' = Queued \ {Head(queue)}
    BY <1>3, TailDistinct DEF Dequeue, TypeOK, OnePlace, Queued
  <2>2. OnePlace'
    BY <1>3, <2>1 DEF Dequeue, TypeOK, OnePlace
  <2> QED  BY <1>3, <2>2 DEF Dequeue, TypeOK, dbVars, engineVars, Serving
<1>4. CASE Idle
  BY <1>4 DEF Idle, TypeOK, OnePlace, Queued, dbVars, engineVars, Serving
<1>5. CASE WaitReturns
  BY <1>5 DEF WaitReturns, TypeOK, OnePlace, Queued, dbVars, engineVars, Serving
<1>6. CASE Woken
  BY <1>6 DEF Woken, LoopOrBreak, TypeOK, OnePlace, Queued, dbVars, engineVars, Serving
<1>7. CASE Disconnect
  BY <1>7 DEF Disconnect, TypeOK, OnePlace, Queued, engineVars, Serving
<1>8. CASE ThreadFinished
  BY <1>8 DEF ThreadFinished, TypeOK, OnePlace, Queued, dbVars, engineVars, Serving
<1>9. CASE Run
  BY <1>9, RunType
<1>10. CASE Post
  BY <1>10 DEF Post, Released, TypeOK, OnePlace, Queued, dbVars, engineVars, Serving
<1>11. CASE UpdateTotals
  <2>1. events' \in Seq(Event)
    BY <1>11, EmitType, SignalTypes DEF UpdateTotals, TypeOK
  <2> QED
    BY <1>11, <2>1 DEF UpdateTotals, TypeOK, OnePlace, Queued, dbVars, engineVars, Serving
<1> QED
  BY <1>1, <1>2, <1>3, <1>4, <1>5, <1>6, <1>7, <1>8, <1>9, <1>10, <1>11 DEF Worker

LEMMA StutterType == TypeOK /\ UNCHANGED vars => TypeOK'
  BY DEF TypeOK, OnePlace, Queued, vars, dbVars, engineVars

\* In every reachable state the variables have their types, and every task of
\* enqueueTask and run() is in one place only.
THEOREM TypeCorrect == Spec => []TypeOK
<1>1. Init => TypeOK
  BY InitType
<1>2. TypeOK /\ [Next]_vars => TypeOK'
  BY AppType, WorkerType, StutterType DEF Next, Terminated
<1> QED  BY <1>1, <1>2, PTL DEF Spec

-----------------------------------------------------------------------------
(* The connection *)

\* What makes OpenWhileServing and CrashNeedsFailedInit inductive: run() gets to
\* its loop without a connection object only if _init failed, in an earlier
\* run() or in an import that replaced the file.
ConnectionInv ==
    /\ OpenWhileServing
    /\ CrashNeedsFailedInit
    /\ workerPc \in Serving /\ db = "null" => failed
    /\ workerPc = "connect" /\ ~valid => failed

\* A step that leaves the connection alone and does not enter run()'s loop.
LEMMA ConnectionKept ==
    ASSUME ConnectionInv, UNCHANGED dbVars, touched => touched',
           workerPc' = workerPc \/ workerPc' \in {"boot", "exit", "finish", "off"}
           \/ (workerPc \in Serving /\ workerPc' \in Serving)
    PROVE  ConnectionInv'
  BY DEF ConnectionInv, OpenWhileServing, CrashNeedsFailedInit, Serving, dbVars

LEMMA AppConnection == ConnectionInv /\ App => ConnectionInv'
<1> SUFFICES ASSUME ConnectionInv, App PROVE ConnectionInv'
  OBVIOUS
<1>1. UNCHANGED <<dbVars, touched>> /\ workerPc' \in {workerPc, "boot"}
  BY DEF App, InitEngine, Push, Kick, WakeOrStart, HandleTotals, HandlePruned, Stop, Request
<1> QED  BY <1>1, ConnectionKept

\* A crash in _saveTile needs a connection lost to a failed initialisation.
LEMMA RunConnection == ConnectionInv /\ Run => ConnectionInv'
<1> SUFFICES ASSUME ConnectionInv, Run PROVE ConnectionInv'
  OBVIOUS
<1> USE DEF Runs
<1>1. CASE RunInit
  BY <1>1, ConnectionKept DEF RunInit, Run, Serving
<1>2. CASE RunSave
  <2>1. UNCHANGED <<dbVars, touched>> /\ workerPc = "run"
    BY <1>2 DEF RunSave, Run
  <2>2. CASE workerPc' = "post"
    BY <2>1, <2>2, ConnectionKept DEF Serving
  <2>3. CASE workerPc' = "crashed"
    <3>1. db = "null"
      BY <1>2, <2>3 DEF RunSave
    <3>2. failed /\ failed'
      BY <2>1, <3>1 DEF ConnectionInv, Serving, dbVars
    <3> QED
      BY <2>3, <3>2 DEF ConnectionInv, OpenWhileServing, CrashNeedsFailedInit, Serving
  <2> QED  BY <1>2, <2>2, <2>3 DEF RunSave
<1>3. CASE RunPrune
  BY <1>3, ConnectionKept DEF RunPrune, Run, Serving
<1>4. CASE RunReset
  <2>1. /\ workerPc = "run" /\ workerPc' = "post" /\ UNCHANGED <<failed, db, touched>>
        /\ valid' => valid
    BY <1>4 DEF RunReset, Run
  <2> QED
    BY <2>1 DEF ConnectionInv, OpenWhileServing, CrashNeedsFailedInit, Serving
<1>5. CASE RunReplace
  <2>1. workerPc = "run" /\ workerPc' = "post"
    BY <1>5 DEF RunReplace
  <2>2. \/ UNCHANGED dbVars
        \/ ~valid' /\ failed'
        \/ (valid' => db' = "open") /\ db' # "null"
    BY <1>5 DEF RunReplace, InitDB, Reconnect
  <2> QED
    BY <2>1, <2>2 DEF ConnectionInv, OpenWhileServing, CrashNeedsFailedInit, Serving, dbVars
<1>6. CASE RunOther
  BY <1>6, ConnectionKept DEF RunOther, Run, Serving
<1> QED  BY <1>1, <1>2, <1>3, <1>4, <1>5, <1>6 DEF Run

LEMMA WorkerConnection == TypeOK /\ ConnectionInv /\ Worker => ConnectionInv'
<1> SUFFICES ASSUME TypeOK, ConnectionInv, Worker PROVE ConnectionInv'
  OBVIOUS
<1>1. CASE Boot
  BY <1>1 DEF Boot, InitDB, ConnectionInv, OpenWhileServing, CrashNeedsFailedInit,
              Serving, dbVars
<1>2. CASE Connect
  BY <1>2 DEF Connect, ConnectDB, ConnectionInv, OpenWhileServing,
              CrashNeedsFailedInit, Serving, dbVars
<1>3. CASE Dequeue
  BY <1>3 DEF Dequeue, TypeOK, ConnectionInv, OpenWhileServing,
              CrashNeedsFailedInit, Serving, dbVars
<1>4. CASE Run
  BY <1>4, RunConnection
<1>5. CASE Disconnect
  BY <1>5 DEF Disconnect, ConnectionInv, OpenWhileServing, CrashNeedsFailedInit, Serving
<1>6. CASE Idle \/ WaitReturns \/ Woken \/ ThreadFinished \/ Post \/ UpdateTotals
  BY <1>6, ConnectionKept DEF Idle, WaitReturns, Woken, LoopOrBreak, ThreadFinished,
     Post, UpdateTotals, Serving
<1> QED  BY <1>1, <1>2, <1>3, <1>4, <1>5, <1>6 DEF Worker

\* While tasks are served and _valid is set the connection is open, and the
\* worker crashes only of a freed task or after a failed initialisation.
THEOREM ConnectionSafe == Spec => []OpenWhileServing /\ []CrashNeedsFailedInit
<1>1. Init => ConnectionInv
  BY DEF Init, ConnectionInv, OpenWhileServing, CrashNeedsFailedInit, Serving
<1>2. TypeOK /\ ConnectionInv /\ [Next]_vars => ConnectionInv'
  <2>1. ConnectionInv /\ UNCHANGED vars => ConnectionInv'
    BY ConnectionKept DEF vars
  <2> QED  BY <2>1, AppConnection, WorkerConnection DEF Next, Terminated
<1>3. ConnectionInv => OpenWhileServing /\ CrashNeedsFailedInit
  BY DEF ConnectionInv
<1> QED  BY <1>1, <1>2, <1>3, TypeCorrect, PTL DEF Spec

-----------------------------------------------------------------------------
(* Pruning *)

\* What makes PruneExact inductive: totals from before a prune have its pruned() signal
\* behind them, and only the end of the application deletes tasks and drops signals.
StaleHasPruned ==
    \A i \in DOMAIN events :
        events[i].kind = "totals" /\ events[i].gen # prunes => \E j \in PrunedSignals : i < j

PruneInv ==
    /\ PruneGuard /\ StaleHasPruned
    /\ freed # {} => mainPc = "gone"
    /\ mainPc = "gone" => events = <<>>

\* A stale totals signal has a pruned() signal behind it, which keeps m_prunning set.
LEMMA PruneInvSuffices == PruneInv => PruneExact
  BY DEF PruneInv, PruneGuard, FreshTotals, StaleHasPruned, PruneExact

\* The signals of a queue with one more at its end.
LEMMA SignalsAppended ==
    ASSUME TypeOK, NEW e \in Event, events' = Append(events, e)
    PROVE  /\ DOMAIN events' = DOMAIN events \cup {Len(events) + 1}
           /\ \A i \in DOMAIN events : events'[i] = events[i] /\ i < Len(events) + 1
           /\ events'[Len(events) + 1] = e
           /\ PrunedSignals' = PrunedSignals \cup
                  (IF e.kind = "pruned" THEN {Len(events) + 1} ELSE {})
<1>1. events \in Seq(Event) /\ Len(events) \in Nat /\ DOMAIN events = 1..Len(events)
  BY DEF TypeOK
<1>2. /\ Len(events') = Len(events) + 1 /\ DOMAIN events' = 1..Len(events')
      /\ \A i \in 1..Len(events) : events'[i] = events[i]
      /\ events'[Len(events) + 1] = e
  BY <1>1, AppendProperties
<1>3. DOMAIN events' = DOMAIN events \cup {Len(events) + 1}
  BY <1>1, <1>2
<1>4. \A i \in DOMAIN events : events'[i] = events[i] /\ i < Len(events) + 1
  BY <1>1, <1>2
<1> QED  BY <1>2, <1>3, <1>4 DEF PrunedSignals

\* The signals of a queue without its first.
LEMMA SignalsHandled ==
    ASSUME TypeOK, events # <<>>, events' = Tail(events)
    PROVE  /\ Head(events) = events[1] /\ 1 \in DOMAIN events
           /\ \A i \in DOMAIN events' : i + 1 \in DOMAIN events /\ events'[i] = events[i + 1]
           /\ \A i \in DOMAIN events : i # 1 => i - 1 \in DOMAIN events' /\ i \in Nat \ {0}
           /\ PrunedSignals' = {i \in DOMAIN events' : i + 1 \in PrunedSignals}
<1>1. /\ events \in Seq(Event) /\ Len(events) \in Nat /\ Len(events) # 0
      /\ DOMAIN events = 1..Len(events) /\ Head(events) = events[1]
  BY EmptySeq DEF TypeOK
<1>2. /\ Len(events') = Len(events) - 1 /\ DOMAIN events' = 1..Len(events')
      /\ \A i \in 1..Len(events') : events'[i] = events[i + 1]
  BY <1>1, HeadTailProperties
<1>3. /\ \A i \in DOMAIN events' : i + 1 \in DOMAIN events /\ events'[i] = events[i + 1]
      /\ \A i \in DOMAIN events : i # 1 => i - 1 \in DOMAIN events' /\ i \in Nat \ {0}
  BY <1>1, <1>2
<1> QED  BY <1>1, <1>3 DEF PrunedSignals

\* A step that moves no prune task and no signal.
LEMMA PruneKept ==
    ASSUME PruneInv, UNCHANGED <<events, prunes, prunning, freed>>,
           PrunesDue' = PrunesDue, lostPrune => lostPrune',
           mainPc' = "gone" <=> mainPc = "gone"
    PROVE  PruneInv'
<1>1. PrunedSignals' = PrunedSignals
  BY DEF PrunedSignals
<1> QED  BY <1>1 DEF PruneInv, PruneGuard, StaleHasPruned

\* A totals signal that is queued or dropped is fresh.
LEMMA TotalsKeep ==
    ASSUME TypeOK, PruneInv, NEW o \in BOOLEAN, Emit(Totals(o)),
           UNCHANGED <<prunes, prunning, freed, mainPc, lostPrune>>, PrunesDue' = PrunesDue
    PROVE  PruneInv'
<1>1. CASE mainPc = "gone"
  BY <1>1, PruneKept DEF Emit
<1>2. CASE mainPc # "gone"
  <2>1. Totals(o) \in Event /\ events' = Append(events, Totals(o))
    BY <1>2, SignalTypes DEF Emit, Posted
  <2>2. /\ DOMAIN events' = DOMAIN events \cup {Len(events) + 1}
        /\ \A i \in DOMAIN events : events'[i] = events[i] /\ i < Len(events) + 1
        /\ events'[Len(events) + 1] = Totals(o)
        /\ PrunedSignals' = PrunedSignals
    BY <2>1, SignalsAppended DEF Totals
  <2>3. StaleHasPruned'
    BY <2>2 DEF PruneInv, StaleHasPruned, Totals
  <2> QED  BY <1>2, <2>2, <2>3 DEF PruneInv, PruneGuard
<1> QED  BY <1>1, <1>2

\* A totals signal that is handled asks for a prune only when none is under way.
LEMMA HandleTotalsPrune == TypeOK /\ PruneInv /\ HandleTotals => PruneInv'
<1> SUFFICES ASSUME TypeOK, PruneInv, HandleTotals PROVE PruneInv'
  OBVIOUS
<1>1. /\ Head(events) = events[1] /\ 1 \in DOMAIN events
      /\ \A i \in DOMAIN events' : i + 1 \in DOMAIN events /\ events'[i] = events[i + 1]
      /\ \A i \in DOMAIN events : i # 1 => i - 1 \in DOMAIN events' /\ i \in Nat \ {0}
      /\ PrunedSignals' = {i \in DOMAIN events' : i + 1 \in PrunedSignals}
  BY SignalsHandled DEF HandleTotals
<1>2. mainPc = "idle" /\ events[1].kind = "totals" /\ pending = NoTask
      /\ UNCHANGED <<prunes, freed, queue, current, workerPc>>
  BY <1>1 DEF HandleTotals, TypeOK, OnePlace
<1>3. 1 \notin PrunedSignals /\ PrunedSignals \subseteq DOMAIN events
  BY <1>2 DEF PrunedSignals
<1>4. \A i \in PrunedSignals : i - 1 \in PrunedSignals' /\ i \in Nat
  BY <1>1, <1>3
<1>5. StaleHasPruned'
  <2> SUFFICES ASSUME NEW i \in DOMAIN events', events'[i].kind = "totals",
                      events'[i].gen # prunes
               PROVE  \E j \in PrunedSignals' : i < j
    BY <1>2 DEF StaleHasPruned
  <2>1. PICK j \in PrunedSignals : i + 1 < j
    BY <1>1 DEF PruneInv, StaleHasPruned
  <2>2. i \in Nat
    <3>1. events' \in Seq(Event)
      BY HeadTailProperties DEF HandleTotals, TypeOK
    <3> QED  BY <3>1
  <2> QED  BY <1>4, <2>1, <2>2
<1>6. /\ \A i, j \in PrunedSignals' : i = j
      /\ PrunedSignals' = {} <=> PrunedSignals = {}
  <2>1. \A i \in PrunedSignals' : i + 1 \in PrunedSignals /\ i \in Nat
    <3>1. events' \in Seq(Event)
      BY HeadTailProperties DEF HandleTotals, TypeOK
    <3> QED  BY <1>1, <3>1
  <2>2. \A i, j \in PrunedSignals : i = j
    BY <1>2 DEF PruneInv, PruneGuard
  <2> QED  BY <1>4, <2>1, <2>2
<1>7. CASE ~WantsPrune
  <2>1. UNCHANGED <<prunning, lostPrune, pending, mainPc>>
    BY <1>7 DEF HandleTotals, engineVars
  <2>2. PrunesDue' = PrunesDue
    BY <1>2, <2>1 DEF PrunesDue, Queued, Runs
  <2> QED  BY <1>2, <1>5, <1>6, <2>1, <2>2 DEF PruneInv, PruneGuard
<1>8. CASE WantsPrune
  <2>1. ~prunning /\ prunning' /\ PrunesDue = {} /\ PrunedSignals = {}
    BY <1>2, <1>8 DEF WantsPrune, HandleTotals, PruneInv, PruneGuard
  <2>2. \/ PrunesDue' = {} /\ lostPrune'
        \/ \E t \in Task : PrunesDue' = {t}
    <3>1. CASE Accepts
      <4>1. PICK t \in Task : KindOf[t] = "prune" /\ pending' = t
        BY <1>8, <3>1 DEF HandleTotals
      <4>2. PrunesDue' = PrunesDue \cup {t}
        BY <1>2, <4>1 DEF PrunesDue, Queued, Runs
      <4> QED  BY <2>1, <4>1, <4>2
    <3>2. CASE ~Accepts
      <4>1. lostPrune' /\ UNCHANGED pending
        BY <1>8, <3>2 DEF HandleTotals
      <4>2. PrunesDue' = PrunesDue
        BY <1>2, <4>1 DEF PrunesDue, Queued, Runs
      <4> QED  BY <2>1, <4>1, <4>2
    <3> QED  BY <3>1, <3>2
  <2>3. mainPc' # "gone" /\ (freed' # {} => mainPc' = "gone")
    BY <1>2, <1>8 DEF HandleTotals, PruneInv
  <2> QED  BY <1>5, <1>6, <2>1, <2>2, <2>3 DEF PruneInv, PruneGuard
<1> QED  BY <1>7, <1>8

\* The pruned() signal that is handled is the only one, and no prune is due.
LEMMA HandlePrunedPrune == TypeOK /\ PruneInv /\ HandlePruned => PruneInv'
<1> SUFFICES ASSUME TypeOK, PruneInv, HandlePruned PROVE PruneInv'
  OBVIOUS
<1>1. /\ Head(events) = events[1] /\ 1 \in DOMAIN events
      /\ \A i \in DOMAIN events' : i + 1 \in DOMAIN events /\ events'[i] = events[i + 1]
      /\ PrunedSignals' = {i \in DOMAIN events' : i + 1 \in PrunedSignals}
  BY SignalsHandled DEF HandlePruned
<1>2. mainPc = "idle" /\ 1 \in PrunedSignals /\ ~prunning'
      /\ UNCHANGED <<prunes, freed, queue, current, pending, workerPc, mainPc, lostPrune>>
  BY <1>1 DEF HandlePruned, AfterPruned, PrunedSignals
<1>3. PrunedSignals = {1} /\ PrunesDue = {}
  BY <1>2 DEF PruneInv, PruneGuard
<1>4. \A i \in DOMAIN events' : i \in Nat \ {0}
  <2>1. events' \in Seq(Event)
    BY HeadTailProperties DEF HandlePruned, TypeOK
  <2> QED  BY <2>1
<1>5. PrunedSignals' = {}
  BY <1>1, <1>3, <1>4
<1>6. PrunesDue' = {}
  BY <1>2, <1>3 DEF PrunesDue, Queued, Runs
<1>7. StaleHasPruned'
  BY <1>1, <1>2, <1>3, <1>4 DEF PruneInv, StaleHasPruned
<1> QED  BY <1>2, <1>5, <1>6, <1>7 DEF PruneInv, PruneGuard

\* Every other step of the application thread moves a task that prunes nothing, or a prune
\* task from enqueueTask into the queue.
LEMMA AppPrune == TypeOK /\ PruneInv /\ App => PruneInv'
<1> SUFFICES ASSUME TypeOK, PruneInv, App PROVE PruneInv'
  OBVIOUS
<1>1. CASE InitEngine
  <2>1. pending = NoTask /\ UNCHANGED <<queue, current, workerPc>>
        /\ \E t \in Task : KindOf[t] = "init" /\ pending' = t
    BY <1>1 DEF InitEngine, TypeOK, OnePlace
  <2>2. PrunesDue' = PrunesDue
    BY <2>1 DEF PrunesDue, Queued, Runs
  <2> QED  BY <1>1, <2>2, PruneKept DEF InitEngine, engineVars
<1>2. CASE Push
  <2>1. Queued' = Queued \cup {pending} /\ pending' = NoTask
    BY <1>2, AppendDistinct DEF Push, Enqueued, TypeOK, OnePlace, Queued
  <2>2. PrunesDue' = PrunesDue
    BY <1>2, <2>1 DEF Push, PrunesDue, Runs
  <2> QED  BY <1>2, <2>2, PruneKept DEF Push, engineVars
<1>3. CASE Kick
  <2>1. PrunesDue' = PrunesDue
    BY <1>3 DEF Kick, WakeOrStart, PrunesDue, Queued, Runs
  <2> QED  BY <1>3, <2>1, PruneKept DEF Kick, engineVars
<1>4. CASE HandleTotals
  BY <1>4, HandleTotalsPrune
<1>5. CASE HandlePruned
  BY <1>5, HandlePrunedPrune
<1>6. CASE Stop
  <2>1. mainPc' = "gone" /\ events' = <<>>
    BY <1>6 DEF Stop
  <2> QED  BY <2>1, EmptySeq DEF PruneInv, PruneGuard, StaleHasPruned
<1>7. ASSUME NEW t \in Task, Request(t) PROVE PruneInv'
  <2>1. pending = NoTask /\ KindOf[t] # "prune" /\ pending' = t
        /\ UNCHANGED <<queue, current, workerPc>>
    BY <1>7 DEF Request, TypeOK, OnePlace
  <2>2. PrunesDue' = PrunesDue
    BY <2>1 DEF PrunesDue, Queued, Runs
  <2> QED  BY <1>7, <2>2, PruneKept DEF Request, engineVars
<1> QED  BY <1>1, <1>2, <1>3, <1>4, <1>5, <1>6, <1>7 DEF App

\* The one prune task that was due is run: its signal takes its place, or it is lost.
LEMMA RunPrunePrune == TypeOK /\ PruneInv /\ Run /\ RunPrune => PruneInv'
<1> SUFFICES ASSUME TypeOK, PruneInv, Run, RunPrune PROVE PruneInv'
  OBVIOUS
<1>1. UNCHANGED <<queue, current, pending, mainPc, prunning, freed>> /\ Runs("prune")
      /\ workerPc' = "post" /\ current \notin Queued /\ current # pending
  BY DEF Run, RunPrune, Runs, TypeOK, OnePlace
<1>2. current \in PrunesDue /\ PrunesDue' = PrunesDue \ {current}
  BY <1>1 DEF PrunesDue, Runs, Queued
<1>3. CASE mainPc = "gone"
  <2>1. UNCHANGED events
    BY <1>3 DEF RunPrune, Emit
  <2> QED  BY <1>1, <1>3, <2>1, EmptySeq DEF PruneInv, PruneGuard, StaleHasPruned
<1>4. CASE mainPc # "gone"
  <2>1. PrunesDue' = {} /\ PrunedSignals = {} /\ prunning
    BY <1>2, <1>4 DEF PruneInv, PruneGuard
  <2>2. CASE valid /\ prunes' = 1 - prunes /\ Emit(Pruned)
    <3>1. Pruned \in Event /\ events' = Append(events, Pruned)
      BY <1>4, <2>2, SignalTypes DEF Emit, Posted
    <3>2. /\ DOMAIN events' = DOMAIN events \cup {Len(events) + 1}
          /\ \A i \in DOMAIN events : events'[i] = events[i] /\ i < Len(events) + 1
          /\ events'[Len(events) + 1] = Pruned
          /\ PrunedSignals' = {Len(events) + 1}
      BY <2>1, <3>1, SignalsAppended DEF Pruned
    <3>3. StaleHasPruned'
      BY <3>2 DEF StaleHasPruned, Pruned
    <3> QED  BY <1>1, <1>4, <2>1, <3>2, <3>3 DEF PruneInv, PruneGuard
  <2>3. CASE lostPrune' /\ UNCHANGED <<prunes, events>>
    <3>1. PrunedSignals' = PrunedSignals
      BY <2>3 DEF PrunedSignals
    <3> QED  BY <1>1, <1>4, <2>1, <2>3, <3>1 DEF PruneInv, PruneGuard, StaleHasPruned
  <2> QED  BY <2>2, <2>3 DEF RunPrune
<1> QED  BY <1>3, <1>4

\* Every other step of the worker thread carries a prune task on, or has nothing to do with
\* one; a freed task that crashes the worker is taken after the end of the application.
LEMMA WorkerPrune == TypeOK /\ PruneInv /\ Worker => PruneInv'
<1> SUFFICES ASSUME TypeOK, PruneInv, Worker PROVE PruneInv'
  OBVIOUS
<1>1. CASE Dequeue
  <2>1. Head(queue) \in Queued /\ Queued' = Queued \ {Head(queue)} /\ Head(queue) \in Task
    BY <1>1, TailDistinct DEF Dequeue, TypeOK, OnePlace, Queued
  <2>2. /\ UNCHANGED <<pending, mainPc, prunning, lostPrune, events, prunes>>
        /\ current' = Head(queue) /\ workerPc = "head"
        /\ workerPc' = "run" \/ (freed # {} /\ workerPc' = "crashed")
        /\ freed' = freed \ {Head(queue)}
    BY <1>1 DEF Dequeue, engineVars
  <2>3. CASE mainPc = "gone"
    BY <2>2, <2>3, EmptySeq DEF PruneInv, PruneGuard, StaleHasPruned
  <2>4. CASE mainPc # "gone"
    <3>1. freed = {} /\ UNCHANGED freed /\ workerPc' = "run"
      BY <2>2, <2>4 DEF PruneInv
    <3>2. NoTask # Head(queue)
      BY <2>1
    <3>3. PrunesDue' = PrunesDue
      BY <2>1, <2>2, <3>1, <3>2 DEF PrunesDue, Runs
    <3> QED  BY <2>2, <3>1, <3>3, PruneKept
  <2> QED  BY <2>3, <2>4
<1>2. CASE Run /\ RunPrune
  BY <1>2, RunPrunePrune
<1>3. CASE Run /\ ~RunPrune
  <2>1. /\ UNCHANGED <<queue, current, pending, mainPc, prunning, freed, lostPrune, prunes>>
        /\ workerPc' \in {"post", "crashed"} /\ ~Runs("prune")
    BY <1>3 DEF Run, RunInit, RunSave, RunReset, RunReplace, RunOther, Runs
  <2>2. PrunesDue' = PrunesDue
    BY <2>1 DEF PrunesDue, Queued, Runs
  <2>3. CASE UNCHANGED events
    BY <2>1, <2>2, <2>3, PruneKept
  <2>4. CASE \E o \in BOOLEAN : Emit(Totals(o))
    BY <2>1, <2>2, <2>4, TotalsKeep
  <2> QED  BY <1>3, <2>3, <2>4 DEF Run, RunInit, RunSave, RunReset, RunReplace, RunOther
<1>4. CASE UpdateTotals
  <2>1. PrunesDue' = PrunesDue
    BY <1>4 DEF UpdateTotals, PrunesDue, Queued, Runs
  <2> QED  BY <1>4, <2>1, TotalsKeep DEF UpdateTotals, engineVars, TypeOK
<1>5. CASE Boot \/ Connect \/ Idle \/ WaitReturns \/ Woken \/ Disconnect \/ ThreadFinished \/ Post
  <2>1. /\ UNCHANGED <<queue, pending, mainPc, prunning, lostPrune, freed, events, prunes>>
        /\ workerPc # "run" /\ workerPc' # "run"
    BY <1>5 DEF Boot, Connect, Idle, WaitReturns, Woken, LoopOrBreak, Disconnect, ThreadFinished,
       Post, engineVars
  <2>2. PrunesDue' = PrunesDue
    BY <2>1 DEF PrunesDue, Queued, Runs
  <2> QED  BY <2>1, <2>2, PruneKept
<1> QED  BY <1>1, <1>2, <1>3, <1>4, <1>5 DEF Worker

\* m_prunning is exact and totals are fresh, whatever signals and tasks are on their way
\* between the two threads and whichever prunes fail.
THEOREM PruneIsExact == Spec => []PruneExact
<1>1. Init => PruneInv
  <2> SUFFICES ASSUME Init PROVE PruneInv
    OBVIOUS
  <2>1. Queued = {} /\ DOMAIN events = {}
    BY EmptyDistinct, EmptySeq DEF Init, Queued
  <2>2. PrunesDue = {} /\ PrunedSignals = {}
    BY <2>1 DEF Init, PrunesDue, PrunedSignals, Runs
  <2> QED  BY <2>1, <2>2 DEF Init, PruneInv, PruneGuard, StaleHasPruned
<1>2. TypeOK /\ PruneInv /\ [Next]_vars => PruneInv'
  <2>1. PruneInv /\ UNCHANGED vars => PruneInv'
    BY PruneKept DEF vars, engineVars, PrunesDue, Queued, Runs
  <2> QED  BY <2>1, AppPrune, WorkerPrune DEF Next, Terminated
<1> QED  BY <1>1, <1>2, PruneInvSuffices, TypeCorrect, PTL DEF Spec

-----------------------------------------------------------------------------
(* The outage *)

\* No step leaves the outage: the application thread cannot enqueue, and only a
\* task starts the worker thread.
THEOREM OutageForever == Spec => OutageIsFinal
<1>1. ASSUME Outage, [Next]_vars PROVE Outage'
  <2>1. ~Worker
    BY <1>1 DEF Outage, Worker, Boot, Connect, Dequeue, Idle, WaitReturns, Woken,
       Disconnect, ThreadFinished, Run, RunInit, RunSave, RunPrune, RunReset,
       RunReplace, RunOther, Runs, Post, UpdateTotals
  <2>2. CASE App
    BY <1>1, <2>2 DEF Outage, App, InitEngine, Push, Kick, HandleTotals, WantsPrune,
       HandlePruned, Stop, Request, Accepts, dbVars
  <2>3. CASE UNCHANGED vars
    BY <1>1, <2>3 DEF Outage, vars, dbVars
  <2> QED  BY <1>1, <2>1, <2>2, <2>3 DEF Next, Terminated
<1>2. [Next]_vars => [Outage => Outage']_vars
  BY <1>1
<1> QED  BY <1>2, PTL DEF Spec, OutageIsFinal

-----------------------------------------------------------------------------
(* The worker implements TaskService *)

\* Steps that move no task are stuttering steps of the service.
LEMMA ServiceStutter ==
    ASSUME UNCHANGED <<queue, current>>
    PROVE  UNCHANGED Service!svars
  BY DEF Service!svars

LEMMA ServiceStep == TypeOK /\ [Next]_vars => [Service!Next]_Service!svars
<1> SUFFICES ASSUME TypeOK, [Next]_vars PROVE [Service!Next]_Service!svars
  OBVIOUS
<1>1. CASE Push
  <2>1. /\ pending \in Task
        /\ pending \notin Range(queue) \cup ({current} \ {NoTask})
    BY <1>1 DEF Push, TypeOK, OnePlace, Queued
  <2>2. queue' = Append(queue, pending) /\ current' = current
    BY <1>1 DEF Push, Enqueued
  <2>3. Service!Accept(pending)
    BY <2>1, <2>2 DEF Service!Accept, Service!Range, Range
  <2> QED  BY <2>1, <2>3 DEF Service!Next
<1>2. CASE Dequeue
  <2>1. current = NoTask /\ queue # <<>> /\ Head(queue) \in Task
    BY <1>2, HeadTailProperties DEF Dequeue, TypeOK, OnePlace
  <2>2. Service!Serve
    BY <1>2, <2>1 DEF Dequeue, Service!Serve
  <2> QED  BY <2>2 DEF Service!Next
<1>3. CASE Post
  <2>1. Service!Finish
    BY <1>3 DEF Post, Released, TypeOK, OnePlace, Service!Finish
  <2> QED  BY <2>1 DEF Service!Next
<1>4. CASE App /\ ~Push
  BY <1>4, ServiceStutter
     DEF App, InitEngine, Kick, HandleTotals, HandlePruned, Stop, Request
<1>5. CASE Worker /\ ~Dequeue /\ ~Post
  BY <1>5, ServiceStutter
     DEF Worker, Boot, Connect, Idle, WaitReturns, Woken, Disconnect,
         ThreadFinished, Run, UpdateTotals
<1>6. CASE UNCHANGED vars
  BY <1>6, ServiceStutter DEF vars
<1> QED  BY <1>1, <1>2, <1>3, <1>4, <1>5, <1>6 DEF Next, Terminated

\* Accepted tasks are run one at a time, in the order of their acceptance, each
\* acceptance at most once.
THEOREM ImplementsTaskService == Spec => ServesTasks
<1>1. Init => Service!Init
  BY DEF Init, Service!Init
<1> QED  BY <1>1, ServiceStep, TypeCorrect, PTL DEF Spec, ServesTasks, Service!Spec
=============================================================================
