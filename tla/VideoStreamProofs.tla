--------------------------- MODULE VideoStreamProofs ---------------------------
(***************************************************************************)
(* Proofs about VideoStream, for every set of sources and every budget.    *)
(***************************************************************************)
EXTENDS VideoStream, SequenceTheorems, TLAPS

SignalName == {"startOk", "startIgnored", "startFailed", "stopped"}
TaskName == {"start", "stop", "startDecoding", "startRecording", "stopRecording", "startServer",
             "stopServer", "eos", "shutdown"}

\* What the variables are made of
Types ==
    /\ uri \in Uris /\ pipeline \in Uris
    /\ tasks \in Seq(TaskName) /\ signals \in Seq(SignalName)
    /\ workerPc \in {"idle", "starting", "drain", "teardown", "decode", "ended"}
    /\ elements \in {"null", "live", "freed"} /\ pad \in {"none", "new", "linked"}
    /\ decoders \in Nat
    /\ {started, widget, serverOn, streaming, videoSink, decoding} \subseteq BOOLEAN
    /\ {fileEos, rtmpEos} \subseteq {"none", "sent", "arrived"}

\* A pipeline has its elements; what uses it has one
Built ==
    /\ pipeline # NoUri <=> elements = "live"
    /\ workerPc \in {"starting", "drain", "teardown"} => pipeline # NoUri
    /\ pad # "none" => pipeline # NoUri /\ streaming
    /\ elements = "freed" \/ crashed => failed

Has(q, x) == \E i \in 1..Len(q) : q[i] = x

\* What the manager will take to be started when it has handled the signals of q
Says(on, q) ==
    \/ on /\ ~Has(q, "stopped")
    \/ \E i \in 1..Len(q) : q[i] = "startOk" /\ \A j \in 1..Len(q) : j > i => q[j] # "stopped"
Told == Says(started, signals) <=> pipeline # NoUri /\ workerPc # "starting"

\* One decoder for the sink that was given, when there was a stream, and one for the stream
\* that came, when there was a sink
DecodersOfSink ==
    /\ ~videoSink \/ pipeline = NoUri => decoders = 0
    /\ workerPc = "decode" => videoSink
    /\ decoders <= (IF pad = "linked" THEN 1 ELSE 0) + (IF workerPc = "decode" THEN 0 ELSE 1)
    /\ pad = "linked" /\ videoSink /\ ~decoderFailed /\ workerPc # "decode" => decoders > 0

\* A pipeline that does not play what is set is about to be stopped
Stale ==
    ~overlapped /\ uri # NoUri /\ pipeline # NoUri /\ pipeline # uri
        => Has(tasks, "stop") \/ workerPc \in {"drain", "teardown"}

\* A branch has an end of stream only when it is being removed or stopped
Branches ==
    /\ fileEos # "none" =>
          recording /\ (removingRecorder \/ workerPc \in {"drain", "teardown"})
    /\ workerPc = "drain" => recording
    /\ rtmpEos # "none" => rtmpSink /\ removingRtmp
    /\ pipeline = NoUri \/ workerPc = "starting" => ~recording /\ rtmpEos = "none"

\* The ends of streams that are queued are those of branches of this pipeline, one each
Two(q) == \E i, j \in 1..Len(q) : i < j /\ q[i] = "eos" /\ q[j] = "eos"
Three(q) == \E i, j, k \in 1..Len(q) : i < j /\ j < k /\ q[i] = "eos" /\ q[j] = "eos" /\ q[k] = "eos"
Ends ==
    /\ pipeline = NoUri /\ ~leftOver => ~EndsQueued(tasks)
    /\ ~leftOver /\ ~endOfStream =>
          /\ EndsQueued(tasks) => fileEos = "arrived" \/ rtmpEos = "arrived"
          /\ Two(tasks) => fileEos = "arrived" /\ rtmpEos = "arrived"
          /\ ~Three(tasks)

IInv == Types /\ Built /\ Told /\ DecodersOfSink /\ Stale /\ Branches /\ Ends
USE VideoAssumption DEF manager, source, decoder, recorder, server, history

-----------------------------------------------------------------------------
(* Queues *)

\* What is in a queue after something has been put at its end.
LEMMA Appended ==
    ASSUME NEW S, NEW q \in Seq(S), NEW e \in S
    PROVE  /\ Append(q, e) \in Seq(S)
           /\ \A x : Has(Append(q, e), x) <=> Has(q, x) \/ e = x
           /\ Two(Append(q, e)) <=> Two(q) \/ (e = "eos" /\ EndsQueued(q))
           /\ Three(Append(q, e)) <=> Three(q) \/ (e = "eos" /\ Two(q))
           /\ EndsQueued(Append(q, e)) <=> EndsQueued(q) \/ e = "eos"
<1> DEFINE p == Append(q, e)
<1>1. /\ p \in Seq(S) /\ Len(q) \in Nat /\ Len(p) = Len(q) + 1
      /\ \A i \in 1..Len(q) : p[i] = q[i]
      /\ p[Len(q) + 1] = e
  BY AppendProperties
<1> HIDE DEF p
<1>2. \A i : i \in 1..Len(p) <=> i \in 1..Len(q) \/ i = Len(q) + 1
  BY <1>1
<1>3. \A x : Has(p, x) <=> Has(q, x) \/ e = x
  BY <1>1, <1>2 DEF Has
<1>4. EndsQueued(p) <=> EndsQueued(q) \/ e = "eos"
  BY <1>1, <1>2 DEF EndsQueued
<1>5. \A i \in 1..Len(q) : i < Len(q) + 1 /\ ~(Len(q) + 1 < i)
  BY <1>1
<1>6. Two(p) <=> Two(q) \/ (e = "eos" /\ EndsQueued(q))
  <2>1. ASSUME Two(p) PROVE Two(q) \/ (e = "eos" /\ EndsQueued(q))
    <3>1. PICK i \in 1..Len(p), j \in 1..Len(p) : i < j /\ p[i] = "eos" /\ p[j] = "eos"
      BY <2>1 DEF Two
    <3>2. i \in 1..Len(q)
      BY <1>1, <3>1
    <3> QED  BY <1>1, <1>2, <3>1, <3>2 DEF Two, EndsQueued
  <2>2. ASSUME Two(q) \/ (e = "eos" /\ EndsQueued(q)) PROVE Two(p)
    BY <1>1, <1>2, <1>5, <2>2 DEF Two, EndsQueued
  <2> QED  BY <2>1, <2>2
<1>7. Three(p) <=> Three(q) \/ (e = "eos" /\ Two(q))
  <2>1. ASSUME Three(p) PROVE Three(q) \/ (e = "eos" /\ Two(q))
    <3>1. PICK i \in 1..Len(p), j \in 1..Len(p), k \in 1..Len(p) :
             i < j /\ j < k /\ p[i] = "eos" /\ p[j] = "eos" /\ p[k] = "eos"
      BY <2>1 DEF Three
    <3>2. i \in 1..Len(q) /\ j \in 1..Len(q)
      BY <1>1, <3>1
    <3>3. p[i] = q[i] /\ p[j] = q[j]
      BY <1>1, <3>2
    <3>4. CASE k \in 1..Len(q)
      BY <1>1, <3>1, <3>2, <3>3, <3>4 DEF Three
    <3>5. CASE k = Len(q) + 1
      BY <1>1, <3>1, <3>2, <3>3, <3>5 DEF Two
    <3> QED  BY <1>2, <3>4, <3>5
  <2>2. ASSUME Three(q) PROVE Three(p)
    <3>1. PICK i \in 1..Len(q), j \in 1..Len(q), k \in 1..Len(q) :
             i < j /\ j < k /\ q[i] = "eos" /\ q[j] = "eos" /\ q[k] = "eos"
      BY <2>2 DEF Three
    <3>2. /\ i \in 1..Len(p) /\ j \in 1..Len(p) /\ k \in 1..Len(p)
          /\ p[i] = "eos" /\ p[j] = "eos" /\ p[k] = "eos"
      BY <1>1, <1>2, <3>1
    <3> QED  BY <3>1, <3>2 DEF Three
  <2>3. ASSUME e = "eos", Two(q) PROVE Three(p)
    <3>1. PICK i \in 1..Len(q), j \in 1..Len(q) : i < j /\ q[i] = "eos" /\ q[j] = "eos"
      BY <2>3 DEF Two
    <3>2. /\ i \in 1..Len(p) /\ j \in 1..Len(p) /\ Len(q) + 1 \in 1..Len(p) /\ j < Len(q) + 1
          /\ p[i] = "eos" /\ p[j] = "eos" /\ p[Len(q) + 1] = "eos"
      BY <1>1, <1>2, <1>5, <2>3, <3>1
    <3> QED  BY <3>1, <3>2 DEF Three
  <2> QED  BY <2>1, <2>2, <2>3
<1> QED  BY <1>1, <1>3, <1>4, <1>6, <1>7 DEF p

\* What is in a queue after its first element has been taken.
LEMMA Taken ==
    ASSUME NEW S, NEW q \in Seq(S), q # <<>>
    PROVE  /\ Head(q) \in S /\ Tail(q) \in Seq(S)
           /\ \A x : Has(q, x) <=> Has(Tail(q), x) \/ Head(q) = x
           /\ Two(q) <=> Two(Tail(q)) \/ (Head(q) = "eos" /\ EndsQueued(Tail(q)))
           /\ Three(q) <=> Three(Tail(q)) \/ (Head(q) = "eos" /\ Two(Tail(q)))
           /\ EndsQueued(q) <=> EndsQueued(Tail(q)) \/ Head(q) = "eos"
<1> DEFINE p == Tail(q)
           h == Head(q)
<1>1. /\ h \in S /\ p \in Seq(S) /\ Len(p) \in Nat /\ Len(q) = Len(p) + 1
      /\ \A i \in 1..Len(p) : p[i] = q[i + 1]
      /\ h = q[1]
  BY HeadTailProperties, EmptySeq
<1> HIDE DEF p, h
<1>2. /\ \A i \in 1..Len(q) : i = 1 \/ (i - 1 \in 1..Len(p) /\ p[i - 1] = q[i])
      /\ \A i \in 1..Len(p) : i + 1 \in 1..Len(q) /\ 1 < i + 1
      /\ 1 \in 1..Len(q)
      /\ \A i, j \in 1..Len(q) : i < j => j # 1 /\ i - 1 < j - 1
      /\ \A i, j \in 1..Len(p) : i < j => i + 1 < j + 1
  BY <1>1
<1>3. \A x : Has(q, x) <=> Has(p, x) \/ h = x
  BY <1>1, <1>2 DEF Has
<1>4. EndsQueued(q) <=> EndsQueued(p) \/ h = "eos"
  BY <1>1, <1>2 DEF EndsQueued
<1>5. Two(q) <=> Two(p) \/ (h = "eos" /\ EndsQueued(p))
  <2>1. ASSUME Two(q) PROVE Two(p) \/ (h = "eos" /\ EndsQueued(p))
    <3>1. PICK i \in 1..Len(q), j \in 1..Len(q) : i < j /\ q[i] = "eos" /\ q[j] = "eos"
      BY <2>1 DEF Two
    <3>2. j - 1 \in 1..Len(p) /\ p[j - 1] = "eos"
      BY <1>2, <3>1
    <3>3. CASE i = 1
      BY <1>1, <3>1, <3>2, <3>3 DEF EndsQueued
    <3>4. CASE i # 1
      BY <1>2, <3>1, <3>2, <3>4 DEF Two
    <3> QED  BY <3>3, <3>4
  <2>2. ASSUME Two(p) PROVE Two(q)
    <3>1. PICK i \in 1..Len(p), j \in 1..Len(p) : i < j /\ p[i] = "eos" /\ p[j] = "eos"
      BY <2>2 DEF Two
    <3>2. /\ i + 1 \in 1..Len(q) /\ j + 1 \in 1..Len(q) /\ i + 1 < j + 1
          /\ q[i + 1] = "eos" /\ q[j + 1] = "eos"
      BY <1>1, <1>2, <3>1
    <3> QED  BY <3>2 DEF Two
  <2>3. ASSUME h = "eos", EndsQueued(p) PROVE Two(q)
    <3>1. PICK i \in 1..Len(p) : p[i] = "eos"
      BY <2>3 DEF EndsQueued
    <3>2. /\ 1 \in 1..Len(q) /\ i + 1 \in 1..Len(q) /\ 1 < i + 1
          /\ q[1] = "eos" /\ q[i + 1] = "eos"
      BY <1>1, <1>2, <2>3, <3>1
    <3> QED  BY <3>2 DEF Two
  <2> QED  BY <2>1, <2>2, <2>3
<1>6. Three(q) <=> Three(p) \/ (h = "eos" /\ Two(p))
  <2>1. ASSUME Three(q) PROVE Three(p) \/ (h = "eos" /\ Two(p))
    <3>1. PICK i \in 1..Len(q), j \in 1..Len(q), k \in 1..Len(q) :
             i < j /\ j < k /\ q[i] = "eos" /\ q[j] = "eos" /\ q[k] = "eos"
      BY <2>1 DEF Three
    <3>2. /\ j - 1 \in 1..Len(p) /\ p[j - 1] = "eos" /\ k - 1 \in 1..Len(p) /\ p[k - 1] = "eos"
          /\ j - 1 < k - 1 /\ i - 1 < j - 1
      BY <1>2, <3>1
    <3>3. CASE i = 1
      BY <1>1, <3>1, <3>2, <3>3 DEF Two
    <3>4. CASE i # 1
      <4>1. i - 1 \in 1..Len(p) /\ p[i - 1] = "eos"
        BY <1>2, <3>1, <3>4
      <4> QED  BY <3>2, <4>1 DEF Three
    <3> QED  BY <3>3, <3>4
  <2>2. ASSUME Three(p) PROVE Three(q)
    <3>1. PICK i \in 1..Len(p), j \in 1..Len(p), k \in 1..Len(p) :
             i < j /\ j < k /\ p[i] = "eos" /\ p[j] = "eos" /\ p[k] = "eos"
      BY <2>2 DEF Three
    <3>2. /\ i + 1 \in 1..Len(q) /\ j + 1 \in 1..Len(q) /\ k + 1 \in 1..Len(q)
          /\ i + 1 < j + 1 /\ j + 1 < k + 1
          /\ q[i + 1] = "eos" /\ q[j + 1] = "eos" /\ q[k + 1] = "eos"
      BY <1>1, <1>2, <3>1
    <3> QED  BY <3>2 DEF Three
  <2>3. ASSUME h = "eos", Two(p) PROVE Three(q)
    <3>1. PICK i \in 1..Len(p), j \in 1..Len(p) : i < j /\ p[i] = "eos" /\ p[j] = "eos"
      BY <2>3 DEF Two
    <3>2. /\ 1 \in 1..Len(q) /\ i + 1 \in 1..Len(q) /\ j + 1 \in 1..Len(q)
          /\ 1 < i + 1 /\ i + 1 < j + 1
          /\ q[1] = "eos" /\ q[i + 1] = "eos" /\ q[j + 1] = "eos"
      BY <1>1, <1>2, <2>3, <3>1
    <3> QED  BY <3>2 DEF Three
  <2> QED  BY <2>1, <2>2, <2>3
<1> QED  BY <1>1, <1>3, <1>4, <1>5, <1>6 DEF p, h

\* What the manager will take to be started, when a signal joins the others and when the
\* first has been handled.
LEMMA SaysMore ==
    ASSUME NEW q \in Seq(SignalName), NEW e \in SignalName, NEW on
    PROVE  Says(on, Append(q, e)) <=> CASE e = "startOk" -> TRUE
                                        [] e = "stopped" -> FALSE
                                        [] OTHER -> Says(on, q)
<1> DEFINE p == Append(q, e)
<1>1. /\ Len(q) \in Nat /\ Len(p) = Len(q) + 1
      /\ \A i \in 1..Len(q) : p[i] = q[i] /\ i < Len(q) + 1 /\ ~(i > Len(q) + 1)
      /\ p[Len(q) + 1] = e
      /\ \A i : i \in 1..Len(p) <=> i \in 1..Len(q) \/ i = Len(q) + 1
  BY AppendProperties
<1>2. \A x : Has(p, x) <=> Has(q, x) \/ e = x
  BY Appended
<1> HIDE DEF p
<1>3. CASE e = "startOk"
  <2>1. Len(q) + 1 \in 1..Len(p) /\ p[Len(q) + 1] = "startOk"
    BY <1>1, <1>3
  <2>2. \A j \in 1..Len(p) : ~(j > Len(q) + 1)
    BY <1>1
  <2>3. Says(on, p)
    BY <2>1, <2>2 DEF Says
  <2> QED  BY <1>3, <2>3 DEF p
<1>4. CASE e = "stopped"
  <2>1. Len(q) + 1 \in 1..Len(p) /\ p[Len(q) + 1] = "stopped" /\ Has(p, "stopped")
    BY <1>1, <1>2, <1>4
  <2>2. \A i \in 1..Len(p) : p[i] = "startOk" => Len(q) + 1 > i
    BY <1>1, <1>4
  <2>3. ~Says(on, p)
    BY <2>1, <2>2 DEF Says
  <2> QED  BY <1>4, <2>3 DEF p
<1>5. CASE e # "startOk" /\ e # "stopped"
  <2>1. Has(p, "stopped") <=> Has(q, "stopped")
    BY <1>2, <1>5
  <2>2. \A i \in 1..Len(p) : p[i] = "startOk" => i \in 1..Len(q)
    BY <1>1, <1>5
  <2>3. \A i \in 1..Len(q) : (\A j \in 1..Len(p) : j > i => p[j] # "stopped")
                             <=> (\A j \in 1..Len(q) : j > i => q[j] # "stopped")
    BY <1>1, <1>5
  <2>4. Says(on, p) <=> Says(on, q)
    BY <1>1, <2>1, <2>2, <2>3 DEF Says
  <2> QED  BY <1>5, <2>4 DEF p
<1> QED  BY <1>3, <1>4, <1>5

LEMMA SaysLess ==
    ASSUME NEW q \in Seq(SignalName), q # <<>>, NEW on, NEW now,
           now <=> CASE Head(q) = "startOk" -> TRUE [] Head(q) = "stopped" -> FALSE [] OTHER -> on
    PROVE  Says(now, Tail(q)) <=> Says(on, q)
<1> DEFINE p == Tail(q)
           h == Head(q)
<1>1. /\ h \in SignalName /\ Len(p) \in Nat /\ Len(q) = Len(p) + 1
      /\ \A i \in 1..Len(p) : p[i] = q[i + 1]
      /\ h = q[1]
  BY HeadTailProperties, EmptySeq
<1>2. \A x : Has(q, x) <=> Has(p, x) \/ h = x
  BY Taken
<1>3. now <=> CASE h = "startOk" -> TRUE [] h = "stopped" -> FALSE [] OTHER -> on
  OBVIOUS
<1> HIDE DEF p, h
<1>4. /\ \A i \in 1..Len(q) : i = 1 \/ (i - 1 \in 1..Len(p) /\ p[i - 1] = q[i])
      /\ \A i \in 1..Len(p) : i + 1 \in 1..Len(q) /\ i + 1 > 1
      /\ 1 \in 1..Len(q)
  BY <1>1
<1> DEFINE Last(r) == \E i \in 1..Len(r) : r[i] = "startOk"
                                        /\ \A j \in 1..Len(r) : j > i => r[j] # "stopped"
<1>5. Last(q) <=> Last(p) \/ (h = "startOk" /\ ~Has(p, "stopped"))
  <2>1. ASSUME NEW i \in 1..Len(p)
        PROVE  (\A j \in 1..Len(q) : j > i + 1 => q[j] # "stopped")
               <=> (\A j \in 1..Len(p) : j > i => p[j] # "stopped")
    <3>1. ASSUME \A j \in 1..Len(q) : j > i + 1 => q[j] # "stopped",
                 NEW j \in 1..Len(p), j > i
          PROVE  p[j] # "stopped"
      <4>1. j + 1 \in 1..Len(q) /\ j + 1 > i + 1 /\ p[j] = q[j + 1]
        BY <1>1, <3>1
      <4> QED  BY <3>1, <4>1
    <3>2. ASSUME \A j \in 1..Len(p) : j > i => p[j] # "stopped",
                 NEW j \in 1..Len(q), j > i + 1
          PROVE  q[j] # "stopped"
      <4>1. j - 1 \in 1..Len(p) /\ j - 1 > i /\ p[j - 1] = q[j]
        BY <1>4, <3>2
      <4> QED  BY <3>2, <4>1
    <3> QED  BY <3>1, <3>2
  <2>2. (\A j \in 1..Len(q) : j > 1 => q[j] # "stopped") <=> ~Has(p, "stopped")
    <3>1. ASSUME \A j \in 1..Len(q) : j > 1 => q[j] # "stopped" PROVE ~Has(p, "stopped")
      BY <1>1, <1>4, <3>1 DEF Has
    <3>2. ASSUME ~Has(p, "stopped"), NEW j \in 1..Len(q), j > 1 PROVE q[j] # "stopped"
      BY <1>4, <3>2 DEF Has
    <3> QED  BY <3>1, <3>2
  <2>3. ASSUME Last(q) PROVE Last(p) \/ (h = "startOk" /\ ~Has(p, "stopped"))
    <3>1. PICK i \in 1..Len(q) :
             q[i] = "startOk" /\ \A j \in 1..Len(q) : j > i => q[j] # "stopped"
      BY <2>3
    <3>2. CASE i = 1
      BY <1>1, <2>2, <3>1, <3>2
    <3>3. CASE i # 1
      <4>1. i - 1 \in 1..Len(p) /\ p[i - 1] = "startOk" /\ (i - 1) + 1 = i
        BY <1>4, <3>1, <3>3
      <4> QED  BY <2>1, <3>1, <4>1
    <3> QED  BY <3>2, <3>3
  <2>4. ASSUME Last(p) PROVE Last(q)
    <3>1. PICK i \in 1..Len(p) :
             p[i] = "startOk" /\ \A j \in 1..Len(p) : j > i => p[j] # "stopped"
      BY <2>4
    <3>2. i + 1 \in 1..Len(q) /\ q[i + 1] = "startOk"
      BY <1>1, <1>4, <3>1
    <3> QED  BY <2>1, <3>1, <3>2
  <2>5. ASSUME h = "startOk", ~Has(p, "stopped") PROVE Last(q)
    BY <1>1, <1>4, <2>2, <2>5
  <2> QED  BY <2>3, <2>4, <2>5
<1>6. \A b : /\ Says(b, q) <=> (b /\ ~Has(q, "stopped")) \/ Last(q)
             /\ Says(b, p) <=> (b /\ ~Has(p, "stopped")) \/ Last(p)
  BY DEF Says
<1> HIDE DEF Last
<1>7. Says(now, p) <=> Says(on, q)
  <2>1. CASE h = "startOk"
    BY <1>2, <1>3, <1>5, <1>6, <2>1
  <2>2. CASE h = "stopped"
    BY <1>2, <1>3, <1>5, <1>6, <2>2
  <2>3. CASE h # "startOk" /\ h # "stopped"
    BY <1>2, <1>3, <1>5, <1>6, <2>3
  <2> QED  BY <2>1, <2>2, <2>3
<1> QED  BY <1>7 DEF p

-----------------------------------------------------------------------------
(* The steps *)

\* Nothing has been built, told or asked for but a start.
LEMMA InitIsSafe == Init => IInv
<1> SUFFICES ASSUME Init PROVE IInv
  OBVIOUS
<1>1. tasks \in Seq(TaskName) /\ \A x : Has(tasks, x) => x = "start"
  <2>1. <<>> \in Seq(TaskName) /\ <<"start">> \in Seq(TaskName)
    BY EmptySeq, ElementOfSeq DEF TaskName
  <2> QED  BY <2>1, EmptySeq DEF Init, Has
<1>2. ~EndsQueued(tasks) /\ ~Two(tasks) /\ ~Three(tasks)
  BY <1>1 DEF EndsQueued, Two, Three, Has
<1>3. signals = <<>> /\ signals \in Seq(SignalName) /\ Len(signals) = 0
  BY EmptySeq DEF Init
<1>4. ~started /\ pipeline = NoUri
  BY DEF Init
<1>5. Types
  BY <1>1, <1>3 DEF Init, Types, Uris
<1>6. Built
  BY DEF Init, Built
<1>7. Told
  BY <1>3, <1>4 DEF Told, Says
<1>8. DecodersOfSink /\ Stale /\ Branches
  BY DEF Init, DecodersOfSink, Stale, Branches
<1>9. Ends
  BY <1>2 DEF Ends
<1> QED  BY <1>5, <1>6, <1>7, <1>8, <1>9 DEF IInv

\* A task that is no end of a stream changes nothing before it is run.
LEMMA MoreTasks ==
    ASSUME IInv,
           UNCHANGED <<uri, started, signals, workerPc, source, decoder, recorder, server,
                       overlapped, leftOver, failed, crashed>>,
           widget' \in BOOLEAN, serverOn' \in BOOLEAN,
           tasks' \in Seq(TaskName), Has(tasks, "stop") => Has(tasks', "stop"),
           EndsQueued(tasks') <=> EndsQueued(tasks), Two(tasks') <=> Two(tasks),
           Three(tasks') <=> Three(tasks)
    PROVE  IInv'
<1>1. Types'
  BY DEF IInv, Types
<1>2. Built' /\ Told' /\ DecodersOfSink' /\ Branches'
  BY DEF IInv, Built, Told, DecodersOfSink, Branches
<1>3. Stale'
  BY DEF IInv, Stale
<1>4. Ends'
  BY DEF IInv, Ends
<1> QED  BY <1>1, <1>2, <1>3, <1>4 DEF IInv

\* A request is no end of a stream.
LEMMA Asked ==
    ASSUME tasks \in Seq(TaskName), UNCHANGED tasks \/ \E e \in TaskName \ {"eos"} : Dispatch(e)
    PROVE  /\ tasks' \in Seq(TaskName) /\ (Has(tasks, "stop") => Has(tasks', "stop"))
           /\ EndsQueued(tasks') <=> EndsQueued(tasks)
           /\ (Two(tasks') <=> Two(tasks)) /\ (Three(tasks') <=> Three(tasks))
           /\ Dispatch("stop") => Has(tasks', "stop")
<1>1. CASE UNCHANGED tasks /\ ~Dispatch("stop")
  BY <1>1
<1>2. ASSUME NEW e \in TaskName \ {"eos"}, Dispatch(e)
      PROVE  /\ tasks' \in Seq(TaskName) /\ (Has(tasks, "stop") => Has(tasks', "stop"))
             /\ EndsQueued(tasks') <=> EndsQueued(tasks)
             /\ (Two(tasks') <=> Two(tasks)) /\ (Three(tasks') <=> Three(tasks))
  <2>1. tasks' = Append(tasks, e)
    BY <1>2 DEF Dispatch
  <2> QED  BY <1>2, <2>1, Appended
<1>3. ASSUME Dispatch("stop") PROVE Has(tasks', "stop")
  <2>1. tasks' = Append(tasks, "stop")
    BY <1>3 DEF Dispatch
  <2> QED  BY <2>1, Appended DEF TaskName
<1>4. "stop" \in TaskName \ {"eos"}
  BY DEF TaskName
<1> QED  BY <1>1, <1>2, <1>3, <1>4

\* A request changes nothing else.
LEMMA OneMoreTask ==
    ASSUME IInv,
           UNCHANGED <<uri, started, signals, workerPc, source, decoder, recorder, server,
                       overlapped, leftOver, failed, crashed>>,
           widget' \in BOOLEAN, serverOn' \in BOOLEAN,
           UNCHANGED tasks \/ \E e \in TaskName \ {"eos"} : Dispatch(e)
    PROVE  IInv'
<1>1. tasks \in Seq(TaskName)
  BY DEF IInv, Types
<1> QED  BY <1>1, Asked, MoreTasks

\* What the manager and the bus only ask for.
LEMMA RequestsKeep ==
    ASSUME IInv, \/ ChangeLatency \/ StartVideo \/ StopVideo \/ StartRecording \/ StopRecording
                 \/ StartServer \/ StopServer \/ BusError
    PROVE  IInv'
<1>1. UNCHANGED <<uri, started, signals, workerPc, source, decoder, recorder, server, overlapped,
                  leftOver, failed, crashed>>
  BY DEF ChangeLatency, StartVideo, StopVideo, StartRecording, StopRecording, StartServer,
         StopServer, BusError
<1>2. widget' \in BOOLEAN /\ serverOn' \in BOOLEAN
  BY DEF ChangeLatency, StartVideo, StopVideo, StartRecording, StopRecording, StartServer,
         StopServer, BusError, IInv, Types
<1>3. \/ UNCHANGED tasks \/ Dispatch("start") \/ Dispatch("stop") \/ Dispatch("startDecoding")
      \/ Dispatch("startRecording") \/ Dispatch("stopRecording") \/ Dispatch("startServer")
      \/ Dispatch("stopServer")
  BY DEF ChangeLatency, StartVideo, StopVideo, StartRecording, StopRecording, StartServer,
         StopServer, BusError, RestartVideo, StartReceiver
<1> QED  BY <1>1, <1>2, <1>3, OneMoreTask DEF TaskName

\* The destruction asks for a stop and for the end of the worker.
LEMMA QuitKeeps == ASSUME IInv, Quit PROVE IInv'
<1>1. tasks \in Seq(TaskName)
  BY DEF IInv, Types
<1> DEFINE q == Append(tasks, "stop")
<1>2. tasks' = Append(q, "shutdown")
  BY <1>1 DEF Quit
<1>3. /\ q \in Seq(TaskName) /\ (Has(tasks, "stop") => Has(q, "stop"))
      /\ EndsQueued(q) <=> EndsQueued(tasks)
      /\ (Two(q) <=> Two(tasks)) /\ (Three(q) <=> Three(tasks))
  BY <1>1, Appended DEF TaskName
<1> HIDE DEF q
<1>4. /\ tasks' \in Seq(TaskName) /\ (Has(q, "stop") => Has(tasks', "stop"))
      /\ EndsQueued(tasks') <=> EndsQueued(q)
      /\ (Two(tasks') <=> Two(q)) /\ (Three(tasks') <=> Three(q))
  BY <1>2, <1>3, Appended DEF TaskName
<1>5. widget' \in BOOLEAN /\ serverOn' \in BOOLEAN
  BY DEF Quit, IInv, Types
<1>6. UNCHANGED <<uri, started, signals, workerPc, source, decoder, recorder, server, overlapped,
                  leftOver, failed, crashed>>
  BY DEF Quit
<1> QED  BY <1>3, <1>4, <1>5, <1>6, MoreTasks

\* A pipeline that plays another source is stopped: nothing is starting, so that the
\* manager knows it.
LEMMA ChangeSourceKeeps == ASSUME IInv, NEW u \in Uris, ChangeSource(u) PROVE IInv'
<1>1. tasks \in Seq(TaskName) /\ signals \in Seq(SignalName)
  BY DEF IInv, Types
<1>2. \/ UNCHANGED tasks \/ Dispatch("start") \/ Dispatch("stop")
  BY DEF ChangeSource, RestartVideo, StartReceiver
<1>3. /\ tasks' \in Seq(TaskName) /\ (Has(tasks, "stop") => Has(tasks', "stop"))
      /\ EndsQueued(tasks') <=> EndsQueued(tasks)
      /\ (Two(tasks') <=> Two(tasks)) /\ (Three(tasks') <=> Three(tasks))
      /\ Dispatch("stop") => Has(tasks', "stop")
  BY <1>1, <1>2, Asked DEF TaskName
<1>4. UNCHANGED <<started, widget, serverOn, signals, workerPc, source, decoder, recorder, server,
                  leftOver, failed, crashed>> /\ uri' = u
  BY DEF ChangeSource
<1>5. Types'
  BY <1>3, <1>4 DEF IInv, Types
<1>6. Built' /\ Told' /\ DecodersOfSink' /\ Branches'
  BY <1>4 DEF IInv, Built, Told, DecodersOfSink, Branches
<1>7. Stale'
  <2> SUFFICES ASSUME ~overlapped', u # NoUri, pipeline # NoUri
               PROVE  Has(tasks', "stop")
    BY <1>4 DEF Stale
  <2>1. ~Starting
    BY DEF ChangeSource
  <2>2. workerPc # "starting" /\ ~Has(signals, "startOk")
    BY <2>1 DEF Starting, Has
  <2>3. Says(started, signals)
    BY <2>2 DEF IInv, Told
  <2>4. started
    BY <2>2, <2>3 DEF Says, Has
  <2>5. Dispatch("stop")
    BY <2>4 DEF ChangeSource, RestartVideo
  <2> QED  BY <1>3, <2>5
<1>8. Ends'
  BY <1>3, <1>4 DEF IInv, Ends
<1> QED  BY <1>5, <1>6, <1>7, <1>8 DEF IInv

\* What a signal says has been counted when it was sent.
LEMMA HandleSignalKeeps == ASSUME IInv, HandleSignal PROVE IInv'
<1>1. tasks \in Seq(TaskName) /\ signals \in Seq(SignalName) /\ signals # <<>>
      /\ signals' = Tail(signals)
  BY DEF IInv, Types, HandleSignal
<1>2. Head(signals) \in SignalName /\ signals' \in Seq(SignalName)
  BY <1>1, Taken
<1>3. \/ UNCHANGED tasks \/ Dispatch("start") \/ Dispatch("stop") \/ Dispatch("startDecoding")
  BY <1>2 DEF HandleSignal, RestartVideo, StartReceiver, OnStopComplete, SignalName
<1>4. /\ tasks' \in Seq(TaskName) /\ (Has(tasks, "stop") => Has(tasks', "stop"))
      /\ EndsQueued(tasks') <=> EndsQueued(tasks)
      /\ (Two(tasks') <=> Two(tasks)) /\ (Three(tasks') <=> Three(tasks))
  BY <1>1, <1>3, Asked DEF TaskName
<1>5. UNCHANGED <<uri, widget, serverOn, workerPc, source, decoder, recorder, server, overlapped,
                  leftOver, failed, crashed>>
  BY DEF HandleSignal
<1>6. started' = CASE Head(signals) = "startOk" -> TRUE
                   [] Head(signals) = "stopped" -> FALSE
                   [] OTHER -> started
  BY <1>2 DEF HandleSignal, OnStopComplete, SignalName
<1>7. Types'
  <2>1. started' \in BOOLEAN
    BY <1>6 DEF IInv, Types
  <2> QED  BY <1>2, <1>4, <1>5, <2>1 DEF IInv, Types
<1>8. Built' /\ DecodersOfSink' /\ Branches'
  BY <1>5 DEF IInv, Built, DecodersOfSink, Branches
<1>9. Told'
  <2>1. Says(started', Tail(signals)) <=> Says(started, signals)
    BY <1>1, <1>6, SaysLess
  <2> QED  BY <1>1, <1>5, <2>1 DEF IInv, Told
<1>10. Stale'
  BY <1>4, <1>5 DEF IInv, Stale
<1>11. Ends'
  BY <1>4, <1>5 DEF IInv, Ends
<1> QED  BY <1>7, <1>8, <1>9, <1>10, <1>11 DEF IInv

\* A task is taken from the queue by an idle worker.
LEMMA TaskTaken ==
    ASSUME IInv, NEW t, Task(t)
    PROVE  /\ workerPc = "idle" /\ tasks' \in Seq(TaskName)
           /\ \A x : Has(tasks, x) <=> Has(tasks', x) \/ t = x
           /\ EndsQueued(tasks) <=> EndsQueued(tasks') \/ t = "eos"
           /\ Two(tasks) <=> Two(tasks') \/ (t = "eos" /\ EndsQueued(tasks'))
           /\ Three(tasks) <=> Three(tasks') \/ (t = "eos" /\ Two(tasks'))
<1>1. tasks \in Seq(TaskName) /\ tasks # <<>> /\ tasks' = Tail(tasks) /\ Head(tasks) = t
      /\ workerPc = "idle"
  BY DEF IInv, Types, Task
<1> QED  BY <1>1, Taken

\* A pipeline is built of what is set, after all that was told of another.
LEMMA RunStartKeeps == ASSUME IInv, RunStart PROVE IInv'
<1>1. /\ workerPc = "idle" /\ tasks' \in Seq(TaskName)
      /\ Has(tasks, "stop") <=> Has(tasks', "stop")
      /\ EndsQueued(tasks) <=> EndsQueued(tasks')
      /\ (Two(tasks) <=> Two(tasks')) /\ (Three(tasks) <=> Three(tasks'))
  BY TaskTaken DEF RunStart
<1>2. signals \in Seq(SignalName)
  BY DEF IInv, Types
<1>3. UNCHANGED <<manager, streaming, pad, decoder, recorder, server, overlapped, leftOver, failed,
                  crashed>>
  BY DEF RunStart
<1>4. CASE pipeline # NoUri \/ uri = NoUri
  <2>1. UNCHANGED <<workerPc, pipeline, elements, endOfStream>>
        /\ signals' = Append(signals, "startIgnored")
    BY <1>4 DEF RunStart, Emit
  <2>2. /\ signals' \in Seq(SignalName)
        /\ Says(started, signals') <=> Says(started, signals)
    BY <1>2, <2>1, Appended, SaysMore DEF SignalName
  <2>3. Types'
    BY <1>1, <1>3, <2>1, <2>2 DEF IInv, Types
  <2>4. Built' /\ DecodersOfSink' /\ Branches'
    BY <1>3, <2>1 DEF IInv, Built, DecodersOfSink, Branches
  <2>5. Told'
    BY <1>3, <2>1, <2>2 DEF IInv, Told
  <2>6. Stale' /\ Ends'
    BY <1>1, <1>3, <2>1 DEF IInv, Stale, Ends
  <2> QED  BY <2>3, <2>4, <2>5, <2>6 DEF IInv
<1>5. CASE pipeline = NoUri /\ uri # NoUri /\ SourceMade
  <2>1. /\ workerPc' = "starting" /\ pipeline' = uri /\ elements' = "live" /\ UNCHANGED signals
        /\ endOfStream' = FALSE
    BY <1>5 DEF RunStart, SourceMade
  <2>2. Types'
    BY <1>1, <1>3, <2>1 DEF IInv, Types
  <2>3. Built'
    BY <1>3, <1>5, <2>1 DEF IInv, Built
  <2>4. DecodersOfSink'
    BY <1>1, <1>3, <1>5, <2>1 DEF IInv, Types, DecodersOfSink
  <2>5. Branches'
    BY <1>1, <1>3, <1>5, <2>1 DEF IInv, Branches
  <2>6. Told'
    BY <1>1, <1>3, <1>5, <2>1 DEF IInv, Told
  <2>7. Stale'
    BY <1>3, <2>1 DEF Stale
  <2>8. Ends'
    <3>1. ~Two(tasks) \/ EndsQueued(tasks)
      BY DEF Two, EndsQueued
    <3>2. ~Three(tasks) \/ EndsQueued(tasks)
      BY DEF Three, EndsQueued
    <3> QED  BY <1>1, <1>3, <1>5, <2>1, <3>1, <3>2 DEF IInv, Ends
  <2> QED  BY <2>2, <2>3, <2>4, <2>5, <2>6, <2>7, <2>8 DEF IInv
<1>6. CASE pipeline = NoUri /\ uri # NoUri /\ SourceNotMade
  <2>1. /\ UNCHANGED <<workerPc, pipeline>> /\ elements' = "null" /\ endOfStream' = FALSE
        /\ signals' = Append(signals, "startFailed")
    BY <1>6 DEF RunStart, SourceNotMade, Emit
  <2>2. /\ signals' \in Seq(SignalName)
        /\ Says(started, signals') <=> Says(started, signals)
    BY <1>2, <2>1, Appended, SaysMore DEF SignalName
  <2>3. Types'
    BY <1>1, <1>3, <2>1, <2>2 DEF IInv, Types
  <2>4. Built' /\ DecodersOfSink' /\ Branches'
    BY <1>3, <1>6, <2>1 DEF IInv, Built, DecodersOfSink, Branches
  <2>5. Told'
    BY <1>3, <2>1, <2>2 DEF IInv, Told
  <2>6. Stale'
    BY <1>6, <2>1 DEF Stale
  <2>7. Ends'
    <3>1. ~Two(tasks) \/ EndsQueued(tasks)
      BY DEF Two, EndsQueued
    <3>2. ~Three(tasks) \/ EndsQueued(tasks)
      BY DEF Three, EndsQueued
    <3> QED  BY <1>1, <1>3, <1>6, <2>1, <3>1, <3>2 DEF IInv, Ends
  <2> QED  BY <2>3, <2>4, <2>5, <2>6, <2>7 DEF IInv
<1> QED  BY <1>4, <1>5, <1>6 DEF RunStart

\* The end of a start is told as it is, and an error of GStreamer asks for a stop.
LEMMA StartPlayingKeeps == ASSUME IInv, StartPlaying PROVE IInv'
<1>1. signals \in Seq(SignalName) /\ tasks \in Seq(TaskName) /\ workerPc = "starting"
      /\ pipeline # NoUri /\ workerPc' = "idle"
  BY DEF IInv, Types, Built, StartPlaying
<1>2. UNCHANGED <<manager, streaming, endOfStream, videoSink, decoding, recorder, server, overlapped,
                  crashed>>
  BY DEF StartPlaying
<1>3. CASE Emit("startOk") /\ UNCHANGED <<pipeline, elements, pad, decoders, decoderFailed, tasks,
                                          faults, leftOver, failed>>
  <2>1. /\ signals' = Append(signals, "startOk") /\ signals' \in Seq(SignalName)
        /\ Says(started, signals')
    BY <1>1, <1>3, Appended, SaysMore DEF SignalName, Emit
  <2>2. Types'
    BY <1>1, <1>2, <1>3, <2>1 DEF IInv, Types
  <2>3. Built' /\ Branches'
    BY <1>1, <1>2, <1>3 DEF IInv, Built, Branches
  <2>4. DecodersOfSink'
    BY <1>1, <1>2, <1>3 DEF IInv, DecodersOfSink
  <2>5. Told'
    BY <1>1, <1>2, <1>3, <2>1 DEF Told
  <2>6. Stale' /\ Ends'
    BY <1>1, <1>2, <1>3 DEF IInv, Stale, Ends
  <2> QED  BY <2>2, <2>3, <2>4, <2>5, <2>6 DEF IInv
<1>4. CASE ~(Emit("startOk") /\ UNCHANGED <<pipeline, elements, pad, decoders, decoderFailed, tasks,
                                            faults, leftOver, failed>>)
  <2>1. /\ failed' = TRUE /\ pipeline' = NoUri /\ elements' = "freed" /\ pad' = "none"
        /\ decoders' = 0 /\ decoderFailed' = FALSE /\ leftOver' = EndsQueued(tasks)
        /\ signals' = Append(signals, "startFailed")
        /\ Dispatch("stop") \/ UNCHANGED tasks
    BY <1>4 DEF StartPlaying, Emit
  <2>2. /\ signals' \in Seq(SignalName)
        /\ Says(started, signals') <=> Says(started, signals)
    BY <1>1, <2>1, Appended, SaysMore DEF SignalName
  <2>3. tasks' \in Seq(TaskName) /\ (EndsQueued(tasks') <=> EndsQueued(tasks))
    BY <1>1, <2>1, Asked DEF TaskName
  <2>4. Types'
    BY <1>1, <1>2, <2>1, <2>2, <2>3 DEF IInv, Types, Uris
  <2>5. Built'
    BY <1>1, <1>2, <2>1 DEF IInv, Built
  <2>6. DecodersOfSink'
    BY <1>1, <1>2, <2>1 DEF DecodersOfSink
  <2>7. Told'
    BY <1>1, <1>2, <2>1, <2>2 DEF IInv, Told
  <2>8. Stale'
    BY <2>1 DEF Stale
  <2>9. Branches'
    BY <1>1, <1>2, <2>1 DEF IInv, Branches
  <2>10. Ends'
    <3>1. Two(tasks') => EndsQueued(tasks')
      BY DEF Two, EndsQueued
    <3>2. Three(tasks') => EndsQueued(tasks')
      BY DEF Three, EndsQueued
    <3> QED  BY <2>1, <2>3, <3>1, <3>2 DEF Ends
  <2> QED  BY <2>4, <2>5, <2>6, <2>7, <2>8, <2>9, <2>10 DEF IInv
<1> QED  BY <1>3, <1>4

\* A stop that begins tells of its end or goes on to it.
LEMMA StopBegins ==
    ASSUME IInv, BeginStop, workerPc = "idle", tasks' \in Seq(TaskName), Ends',
           UNCHANGED <<manager, pipeline, elements, streaming, endOfStream, pad, decoder, fileSink,
                       recording, removingRecorder, server, overlapped, failed>>
    PROVE  IInv'
<1>1. signals \in Seq(SignalName)
  BY DEF IInv, Types
<1>2. CASE uri = NoUri
  <2>1. UNCHANGED <<workerPc, signals, crashed, fileEos>>
    BY <1>2 DEF BeginStop
  <2>2. Types'
    BY <2>1 DEF IInv, Types
  <2>3. Built' /\ Told' /\ DecodersOfSink' /\ Branches'
    BY <2>1 DEF IInv, Built, Told, DecodersOfSink, Branches
  <2>4. Stale'
    BY <1>2 DEF Stale
  <2> QED  BY <2>2, <2>3, <2>4 DEF IInv
<1>3. CASE uri # NoUri /\ pipeline = NoUri
  <2>1. /\ UNCHANGED <<workerPc, fileEos>> /\ crashed' = (probe /\ elements = "freed")
        /\ signals' = Append(signals, "stopped")
    BY <1>3 DEF BeginStop, Emit
  <2>2. signals' \in Seq(SignalName) /\ ~Says(started, signals')
    BY <1>1, <2>1, Appended, SaysMore DEF SignalName
  <2>3. Types'
    BY <2>1, <2>2 DEF IInv, Types
  <2>4. Built' /\ DecodersOfSink' /\ Branches'
    BY <2>1 DEF IInv, Built, DecodersOfSink, Branches
  <2>5. Told'
    BY <1>3, <2>2 DEF Told
  <2>6. Stale'
    BY <1>3 DEF Stale
  <2> QED  BY <2>3, <2>4, <2>5, <2>6 DEF IInv
<1>4. CASE uri # NoUri /\ pipeline # NoUri
  <2>1. /\ UNCHANGED signals /\ crashed' = (probe /\ elements = "freed")
        /\ workerPc' = IF recording /\ ~removingRecorder THEN "drain" ELSE "teardown"
        /\ fileEos' = IF recording /\ ~removingRecorder THEN "sent" ELSE fileEos
    BY <1>4 DEF BeginStop
  <2>2. Types'
    BY <2>1 DEF IInv, Types
  <2>3. Built'
    BY <1>4, <2>1 DEF IInv, Built
  <2>4. DecodersOfSink'
    BY <2>1 DEF IInv, DecodersOfSink
  <2>5. Branches'
    BY <1>4, <2>1 DEF IInv, Branches
  <2>6. Told'
    BY <1>4, <2>1 DEF IInv, Told
  <2>7. Stale'
    BY <2>1 DEF Stale
  <2> QED  BY <2>2, <2>3, <2>4, <2>5, <2>6, <2>7 DEF IInv
<1> QED  BY <1>2, <1>3, <1>4

\* A branch that is told of its end by a stop had not been told before.
LEMMA StopEnds ==
    ASSUME IInv, BeginStop, workerPc = "idle",
           UNCHANGED <<pipeline, endOfStream, rtmpEos, leftOver>>,
           EndsQueued(tasks') <=> EndsQueued(tasks), Two(tasks') <=> Two(tasks),
           Three(tasks') <=> Three(tasks)
    PROVE  Ends'
<1>1. fileEos = "arrived" => recording /\ removingRecorder
  BY DEF IInv, Branches
<1>2. fileEos = "arrived" => fileEos' = "arrived"
  BY <1>1 DEF BeginStop
<1> QED  BY <1>2 DEF IInv, Ends

\* A stop that is asked for is the same, whoever asked.
LEMMA RunStopKeeps == ASSUME IInv, RunStop PROVE IInv'
<1>1. /\ workerPc = "idle" /\ tasks' \in Seq(TaskName)
      /\ EndsQueued(tasks) <=> EndsQueued(tasks')
      /\ (Two(tasks) <=> Two(tasks')) /\ (Three(tasks) <=> Three(tasks'))
  BY TaskTaken DEF RunStop
<1>2. BeginStop /\ UNCHANGED <<manager, pipeline, elements, streaming, endOfStream, pad, decoder,
                               fileSink, recording, removingRecorder, server, overlapped, leftOver,
                               failed>>
  BY DEF RunStop
<1>3. Ends'
  BY <1>1, <1>2, StopEnds
<1> QED  BY <1>1, <1>2, <1>3, StopBegins

\* The watchdog stops what no frame comes from.
LEMMA WatchdogKeeps == ASSUME IInv, Watchdog PROVE IInv'
<1>1. /\ workerPc = "idle" /\ UNCHANGED tasks /\ tasks \in Seq(TaskName)
      /\ BeginStop /\ UNCHANGED <<manager, pipeline, elements, streaming, endOfStream, pad, decoder,
                                  fileSink, recording, removingRecorder, server, overlapped, leftOver,
                                  failed>>
  BY DEF Watchdog, IInv, Types
<1>2. Ends'
  BY <1>1, StopEnds
<1> QED  BY <1>1, <1>2, StopBegins

\* A recording is drained by its end.
LEMMA DrainedKeeps == ASSUME IInv, Drained PROVE IInv'
<1>1. /\ workerPc = "drain" /\ workerPc' = "teardown" /\ fileEos' = "arrived"
      /\ UNCHANGED <<manager, signals, tasks, source, decoder, fileSink, recording,
                     removingRecorder, server, history>>
  BY DEF Drained
<1>2. Types'
  BY <1>1 DEF IInv, Types
<1>3. Built' /\ Told' /\ DecodersOfSink'
  BY <1>1 DEF IInv, Built, Told, DecodersOfSink
<1>4. Stale' /\ Ends'
  BY <1>1 DEF IInv, Stale, Ends
<1>5. Branches'
  BY <1>1 DEF IInv, Branches, Built
<1> QED  BY <1>2, <1>3, <1>4, <1>5 DEF IInv

\* All is told and gone, but for the ends that are queued.
LEMMA TeardownKeeps == ASSUME IInv, Teardown PROVE IInv'
<1>1. /\ workerPc' = "idle" /\ videoSink' = FALSE /\ decoders' = 0 /\ decoding' = FALSE
      /\ recording' = FALSE /\ fileEos' = "none" /\ rtmpEos' = "none"
      /\ pipeline' = NoUri /\ elements' = "null" /\ streaming' = FALSE /\ pad' = "none"
      /\ leftOver' = EndsQueued(tasks) /\ signals' = Append(signals, "stopped")
      /\ UNCHANGED <<manager, tasks, failed, crashed>>
  BY DEF Teardown, ShutdownBranches, Emit
<1>2. signals \in Seq(SignalName)
  BY DEF IInv, Types
<1>3. signals' \in Seq(SignalName) /\ ~Says(started, signals')
  BY <1>1, <1>2, Appended, SaysMore DEF SignalName
<1>4. Types'
  BY <1>1, <1>3 DEF IInv, Types, Uris
<1>5. Built'
  BY <1>1 DEF IInv, Built
<1>6. Told'
  BY <1>1, <1>3 DEF Told
<1>7. DecodersOfSink' /\ Stale' /\ Branches'
  BY <1>1 DEF DecodersOfSink, Stale, Branches
<1>8. Ends'
  <2>1. (Two(tasks) => EndsQueued(tasks)) /\ (Three(tasks) => EndsQueued(tasks))
    BY DEF Two, Three, EndsQueued
  <2> QED  BY <1>1, <2>1 DEF Ends
<1> QED  BY <1>4, <1>5, <1>6, <1>7, <1>8 DEF IInv

\* A sink that is given had no decoder.
LEMMA RunStartDecodingKeeps == ASSUME IInv, RunStartDecoding PROVE IInv'
<1>1. /\ workerPc = "idle" /\ tasks' \in Seq(TaskName)
      /\ Has(tasks, "stop") <=> Has(tasks', "stop")
      /\ EndsQueued(tasks) <=> EndsQueued(tasks')
      /\ (Two(tasks) <=> Two(tasks')) /\ (Three(tasks) <=> Three(tasks'))
  BY TaskTaken DEF RunStartDecoding
<1>2. /\ UNCHANGED <<manager, signals, source, decoders, decoding, decoderFailed, recorder, server,
                     history>>
      /\ \/ UNCHANGED <<workerPc, videoSink>>
         \/ videoSink' = TRUE /\ workerPc' = "decode" /\ (pipeline = NoUri \/ ~videoSink)
  BY DEF RunStartDecoding, AlreadyDecoding
<1>3. Types'
  BY <1>1, <1>2 DEF IInv, Types
<1>4. Built' /\ Told' /\ Branches'
  BY <1>1, <1>2 DEF IInv, Built, Told, Branches
<1>5. DecodersOfSink'
  BY <1>1, <1>2 DEF IInv, DecodersOfSink
<1>6. Stale' /\ Ends'
  BY <1>1, <1>2 DEF IInv, Stale, Ends
<1> QED  BY <1>3, <1>4, <1>5, <1>6 DEF IInv

\* The stream has come, and is decoded, or comes after this and finds the sink.
LEMMA DecodeIfStreamingKeeps == ASSUME IInv, DecodeIfStreaming PROVE IInv'
<1>1. /\ workerPc = "decode" /\ workerPc' = "idle"
      /\ UNCHANGED <<manager, signals, tasks, source, videoSink, decoding, recorder, server,
                     overlapped, leftOver, failed>>
      /\ \/ streaming /\ elements = "live" /\ decoders' = decoders + 1 /\ UNCHANGED crashed
         \/ decoderFailed' = TRUE /\ UNCHANGED <<decoders, crashed>>
         \/ /\ ~(streaming /\ elements = "live") /\ UNCHANGED <<decoders, decoderFailed>>
            /\ crashed' = (streaming /\ elements = "freed")
  BY DEF DecodeIfStreaming, AddDecoder, DecoderNotMade
<1>2. Types'
  BY <1>1 DEF IInv, Types
<1>3. Built' /\ Told' /\ Branches'
  <2>1. crashed' => failed
    BY <1>1 DEF IInv, Built
  <2>2. Built'
    BY <1>1, <2>1 DEF IInv, Built
  <2> QED  BY <1>1, <2>2 DEF IInv, Told, Branches
<1>4. DecodersOfSink'
  BY <1>1 DEF IInv, Types, DecodersOfSink, Built
<1>5. Stale' /\ Ends'
  BY <1>1 DEF IInv, Stale, Ends
<1> QED  BY <1>2, <1>3, <1>4, <1>5 DEF IInv

\* A recording begins on a pipeline, without an end.
LEMMA RunStartRecordingKeeps == ASSUME IInv, RunStartRecording PROVE IInv'
<1>1. /\ workerPc = "idle" /\ tasks' \in Seq(TaskName)
      /\ Has(tasks, "stop") <=> Has(tasks', "stop")
      /\ EndsQueued(tasks) <=> EndsQueued(tasks')
      /\ (Two(tasks) <=> Two(tasks')) /\ (Three(tasks) <=> Three(tasks'))
  BY TaskTaken DEF RunStartRecording
<1>2. /\ UNCHANGED <<manager, signals, workerPc, source, decoder, server, overlapped, leftOver,
                     failed, crashed, fileEos>>
      /\ \/ UNCHANGED <<recording, removingRecorder>>
         \/ pipeline # NoUri /\ ~recording
  BY DEF RunStartRecording, FileSinkNotMade
<1>3. Types'
  BY <1>1, <1>2 DEF IInv, Types
<1>4. Built' /\ Told' /\ DecodersOfSink'
  BY <1>1, <1>2 DEF IInv, Built, Told, DecodersOfSink
<1>5. Branches'
  BY <1>1, <1>2 DEF IInv, Branches
<1>6. Stale' /\ Ends'
  BY <1>1, <1>2 DEF IInv, Stale, Ends
<1> QED  BY <1>3, <1>4, <1>5, <1>6 DEF IInv

\* A branch that is unlinked is told of its end once.
LEMMA RunStopRecordingKeeps == ASSUME IInv, RunStopRecording PROVE IInv'
<1>1. /\ workerPc = "idle" /\ tasks' \in Seq(TaskName)
      /\ Has(tasks, "stop") <=> Has(tasks', "stop")
      /\ EndsQueued(tasks) <=> EndsQueued(tasks')
      /\ (Two(tasks) <=> Two(tasks')) /\ (Three(tasks) <=> Three(tasks'))
  BY TaskTaken DEF RunStopRecording
<1>2. /\ UNCHANGED <<manager, signals, workerPc, source, decoder, server, history, recording>>
      /\ \/ UNCHANGED <<removingRecorder, fileEos>>
         \/ /\ pipeline # NoUri /\ recording /\ removingRecorder' = TRUE
            /\ fileEos' = IF removingRecorder THEN fileEos ELSE "sent"
  BY DEF RunStopRecording, UnlinkBranch
<1>3. fileEos = "arrived" => fileEos' = "arrived"
  BY <1>1, <1>2 DEF IInv, Branches
<1>4. Types'
  BY <1>1, <1>2 DEF IInv, Types
<1>5. Built' /\ Told' /\ DecodersOfSink'
  BY <1>1, <1>2 DEF IInv, Built, Told, DecodersOfSink
<1>6. Branches'
  BY <1>1, <1>2 DEF IInv, Branches
<1>7. Stale' /\ Ends'
  BY <1>1, <1>2, <1>3 DEF IInv, Stale, Ends
<1> QED  BY <1>4, <1>5, <1>6, <1>7 DEF IInv

\* A stream to the server begins on a pipeline.
LEMMA RunStartServerKeeps == ASSUME IInv, RunStartServer PROVE IInv'
<1>1. /\ workerPc = "idle" /\ tasks' \in Seq(TaskName)
      /\ Has(tasks, "stop") <=> Has(tasks', "stop")
      /\ EndsQueued(tasks) <=> EndsQueued(tasks')
      /\ (Two(tasks) <=> Two(tasks')) /\ (Three(tasks) <=> Three(tasks'))
  BY TaskTaken DEF RunStartServer
<1>2. /\ UNCHANGED <<manager, signals, workerPc, source, decoder, recorder, removingRtmp, rtmpEos,
                     overlapped, leftOver, failed, crashed>>
      /\ rtmpSink => rtmpSink'
  BY DEF RunStartServer, RtmpSinkNotMade
<1>3. Types'
  BY <1>1, <1>2 DEF IInv, Types
<1>4. Built' /\ Told' /\ DecodersOfSink'
  BY <1>1, <1>2 DEF IInv, Built, Told, DecodersOfSink
<1>5. Branches'
  BY <1>1, <1>2 DEF IInv, Branches
<1>6. Stale' /\ Ends'
  BY <1>1, <1>2 DEF IInv, Stale, Ends
<1> QED  BY <1>3, <1>4, <1>5, <1>6 DEF IInv

\* Its branch, too, is told of its end once.
LEMMA RunStopServerKeeps == ASSUME IInv, RunStopServer PROVE IInv'
<1>1. /\ workerPc = "idle" /\ tasks' \in Seq(TaskName)
      /\ Has(tasks, "stop") <=> Has(tasks', "stop")
      /\ EndsQueued(tasks) <=> EndsQueued(tasks')
      /\ (Two(tasks) <=> Two(tasks')) /\ (Three(tasks) <=> Three(tasks'))
  BY TaskTaken DEF RunStopServer
<1>2. /\ UNCHANGED <<manager, signals, workerPc, source, decoder, recorder, history, rtmpSink>>
      /\ \/ UNCHANGED <<removingRtmp, rtmpEos>>
         \/ /\ pipeline # NoUri /\ rtmpSink /\ removingRtmp' = TRUE
            /\ rtmpEos' = IF removingRtmp THEN rtmpEos ELSE "sent"
  BY DEF RunStopServer, UnlinkBranch
<1>3. rtmpEos = "arrived" => rtmpEos' = "arrived"
  BY <1>1, <1>2 DEF IInv, Branches
<1>4. Types'
  BY <1>1, <1>2 DEF IInv, Types
<1>5. Built' /\ Told' /\ DecodersOfSink'
  BY <1>1, <1>2 DEF IInv, Built, Told, DecodersOfSink
<1>6. Branches'
  BY <1>1, <1>2 DEF IInv, Branches
<1>7. Stale' /\ Ends'
  BY <1>1, <1>2, <1>3 DEF IInv, Stale, Ends
<1> QED  BY <1>4, <1>5, <1>6, <1>7 DEF IInv

\* An end of a stream that has come is of a branch of this pipeline, or of an earlier one.
LEMMA RunEosKeeps == ASSUME IInv, RunEos PROVE IInv'
<1>1. /\ workerPc = "idle" /\ tasks' \in Seq(TaskName)
      /\ Has(tasks, "stop") <=> Has(tasks', "stop")
      /\ EndsQueued(tasks)
      /\ Two(tasks) <=> Two(tasks') \/ EndsQueued(tasks')
      /\ Three(tasks) <=> Three(tasks') \/ Two(tasks')
  BY TaskTaken DEF RunEos
<1>2. /\ UNCHANGED <<manager, pipeline, elements, streaming, endOfStream, pad, decoder, overlapped,
                     failed>>
      /\ leftOver' = (leftOver /\ EndsQueued(tasks'))
  BY DEF RunEos
<1>3. fileEos # "none" => EndingRecording
  BY <1>1 DEF IInv, Branches, EndingRecording
<1>4. /\ Two(tasks') => EndsQueued(tasks')
      /\ Three(tasks') => EndsQueued(tasks')
  BY DEF Two, Three, EndsQueued
<1>5. CASE pipeline # NoUri /\ endOfStream
  <2>1. BeginStop /\ UNCHANGED <<fileSink, recording, removingRecorder, server>>
    BY <1>5 DEF RunEos
  <2>2. Ends'
    BY <1>2, <1>5 DEF Ends
  <2> QED  BY <1>1, <1>2, <2>1, <2>2, StopBegins
<1>7. CASE pipeline # NoUri /\ ~endOfStream /\ EndingRecording
  <2>1. /\ recording' = FALSE /\ removingRecorder' = FALSE /\ fileEos' = "none"
        /\ UNCHANGED <<workerPc, signals, crashed, server>>
    BY <1>7 DEF RunEos, EndingRecording
  <2>2. Types'
    BY <1>1, <1>2, <2>1 DEF IInv, Types
  <2>3. Built' /\ Told' /\ DecodersOfSink'
    BY <1>2, <2>1 DEF IInv, Built, Told, DecodersOfSink
  <2>4. Branches' /\ Stale'
    BY <1>1, <1>2, <2>1 DEF IInv, Branches, Stale
  <2>5. Ends'
    BY <1>1, <1>2, <1>4, <1>7, <2>1 DEF IInv, Ends
  <2> QED  BY <2>2, <2>3, <2>4, <2>5 DEF IInv
<1>8. CASE pipeline # NoUri /\ ~endOfStream /\ ~EndingRecording /\ rtmpSink /\ removingRtmp
  <2>1. /\ rtmpSink' = FALSE /\ removingRtmp' = FALSE /\ rtmpEos' = "none"
        /\ UNCHANGED <<workerPc, signals, crashed, recorder>>
    BY <1>8 DEF RunEos, EndingRecording
  <2>2. Types'
    BY <1>1, <1>2, <2>1 DEF IInv, Types
  <2>3. Built' /\ Told' /\ DecodersOfSink'
    BY <1>2, <2>1 DEF IInv, Built, Told, DecodersOfSink
  <2>4. Branches' /\ Stale'
    BY <1>1, <1>2, <2>1 DEF IInv, Branches, Stale
  <2>5. Ends'
    BY <1>1, <1>2, <1>3, <1>4, <1>8, <2>1 DEF IInv, Ends
  <2> QED  BY <2>2, <2>3, <2>4, <2>5 DEF IInv
<1>9. CASE \/ pipeline = NoUri
           \/ ~endOfStream /\ ~EndingRecording /\ ~(rtmpSink /\ removingRtmp)
  <2>1. UNCHANGED <<workerPc, signals, crashed, recorder, server>>
    BY <1>9 DEF RunEos, EndingRecording
  <2>2. Types'
    BY <1>1, <1>2, <2>1 DEF IInv, Types
  <2>3. Built' /\ Told' /\ DecodersOfSink'
    BY <1>2, <2>1 DEF IInv, Built, Told, DecodersOfSink
  <2>4. Branches' /\ Stale'
    BY <1>1, <1>2, <2>1 DEF IInv, Branches, Stale
  <2>5. leftOver
    <3>1. pipeline # NoUri => fileEos = "none" /\ rtmpEos = "none"
      BY <1>3, <1>9 DEF IInv, Branches
    <3> QED  BY <1>1, <1>9, <3>1 DEF IInv, Ends
  <2>6. Ends'
    BY <1>2, <1>4, <2>5 DEF Ends
  <2> QED  BY <2>2, <2>3, <2>4, <2>6 DEF IInv
<1> QED  BY <1>5, <1>7, <1>8, <1>9

\* The worker ends with nothing to put in order.
LEMMA RunShutdownKeeps == ASSUME IInv, RunShutdown PROVE IInv'
<1>1. /\ workerPc = "idle" /\ tasks' \in Seq(TaskName)
      /\ Has(tasks, "stop") <=> Has(tasks', "stop")
      /\ EndsQueued(tasks) <=> EndsQueued(tasks')
      /\ (Two(tasks) <=> Two(tasks')) /\ (Three(tasks) <=> Three(tasks'))
  BY TaskTaken DEF RunShutdown
<1>2. /\ UNCHANGED <<manager, signals, source, decoder, recorder, server, history>>
      /\ workerPc' = "ended"
  BY DEF RunShutdown
<1>3. Types'
  BY <1>1, <1>2 DEF IInv, Types
<1>4. Built' /\ Told' /\ DecodersOfSink'
  BY <1>1, <1>2 DEF IInv, Built, Told, DecodersOfSink
<1>5. Branches'
  BY <1>1, <1>2 DEF IInv, Branches
<1>6. Stale' /\ Ends'
  BY <1>1, <1>2 DEF IInv, Stale, Ends
<1> QED  BY <1>3, <1>4, <1>5, <1>6 DEF IInv

\* The pad of the source appears, and the stream is noted before the sink is looked for.
LEMMA NewSourcePadKeeps == ASSUME IInv, NewSourcePad PROVE IInv'
<1>1. /\ UNCHANGED <<manager, signals, tasks, workerPc, pipeline, elements, endOfStream, decoder,
                     recorder, server, history>>
      /\ pipeline # NoUri /\ pad = "none" /\ pad' = "new" /\ streaming' = TRUE
  BY DEF NewSourcePad
<1>2. Types'
  BY <1>1 DEF IInv, Types
<1>3. Built' /\ Told' /\ DecodersOfSink'
  BY <1>1 DEF IInv, Built, Told, DecodersOfSink
<1>4. Stale' /\ Branches' /\ Ends'
  BY <1>1 DEF IInv, Stale, Branches, Ends
<1> QED  BY <1>2, <1>3, <1>4 DEF IInv

\* The sink was given before, and the stream is decoded, or is given after this and finds
\* the stream.
LEMMA SourceLinkedKeeps == ASSUME IInv, SourceLinked PROVE IInv'
<1>1. /\ UNCHANGED <<manager, signals, tasks, workerPc, pipeline, elements, streaming, endOfStream,
                     videoSink, decoding, recorder, server, overlapped, leftOver, failed, crashed>>
      /\ pad = "new" /\ pad' = "linked"
      /\ \/ videoSink /\ decoders' = decoders + 1
         \/ videoSink /\ decoderFailed' = TRUE /\ UNCHANGED decoders
         \/ ~videoSink /\ UNCHANGED decoders
  BY DEF SourceLinked, AddDecoder, DecoderNotMade
<1>2. Types'
  BY <1>1 DEF IInv, Types
<1>3. Built' /\ Told'
  BY <1>1 DEF IInv, Built, Told
<1>4. DecodersOfSink'
  BY <1>1 DEF IInv, Types, Built, DecodersOfSink
<1>5. Stale' /\ Branches' /\ Ends'
  BY <1>1 DEF IInv, Stale, Branches, Ends
<1> QED  BY <1>2, <1>3, <1>4, <1>5 DEF IInv

\* A frame is only noted.
LEMMA FrameKeeps == ASSUME IInv, Frame PROVE IInv'
<1>1. /\ UNCHANGED <<manager, signals, tasks, workerPc, source, videoSink, decoders, decoderFailed,
                     recorder, server, history>>
      /\ decoding' = TRUE
  BY DEF Frame
<1>2. Types'
  BY <1>1 DEF IInv, Types
<1>3. Built' /\ Told' /\ DecodersOfSink'
  BY <1>1 DEF IInv, Built, Told, DecodersOfSink
<1>4. Stale' /\ Branches' /\ Ends'
  BY <1>1 DEF IInv, Stale, Branches, Ends
<1> QED  BY <1>2, <1>3, <1>4 DEF IInv

\* The end of the source is noted before it is queued.
LEMMA SourceEndsKeeps == ASSUME IInv, SourceEnds PROVE IInv'
<1>1. /\ UNCHANGED <<manager, signals, workerPc, pipeline, elements, streaming, pad, decoder, recorder,
                     server, overlapped, leftOver, failed, crashed>>
      /\ pad = "linked" /\ endOfStream' = TRUE /\ tasks' = Append(tasks, "eos")
  BY DEF SourceEnds, Dispatch
<1>2. tasks' \in Seq(TaskName) /\ (Has(tasks', "stop") <=> Has(tasks, "stop"))
  BY <1>1, Appended DEF IInv, Types, TaskName
<1>3. Types'
  BY <1>1, <1>2 DEF IInv, Types
<1>4. Built' /\ Told' /\ DecodersOfSink'
  BY <1>1 DEF IInv, Built, Told, DecodersOfSink
<1>5. Stale' /\ Branches'
  BY <1>1, <1>2 DEF IInv, Stale, Branches
<1>6. Ends'
  BY <1>1 DEF IInv, Built, Ends
<1> QED  BY <1>3, <1>4, <1>5, <1>6 DEF IInv

\* The end of a branch is noted as it is queued.
LEMMA BranchEndsKeeps == ASSUME IInv, BranchEnds PROVE IInv'
<1>1. /\ UNCHANGED <<manager, signals, workerPc, source, decoder, fileSink, recording,
                     removingRecorder, rtmpSink, removingRtmp, history>>
      /\ workerPc \notin {"drain", "teardown", "ended"} /\ tasks' = Append(tasks, "eos")
      /\ \/ fileEos = "sent" /\ fileEos' = "arrived" /\ UNCHANGED rtmpEos
         \/ rtmpEos = "sent" /\ rtmpEos' = "arrived" /\ UNCHANGED fileEos
  BY DEF BranchEnds, Dispatch
<1>2. /\ tasks' \in Seq(TaskName) /\ (Has(tasks', "stop") <=> Has(tasks, "stop"))
      /\ Two(tasks') <=> Two(tasks) \/ EndsQueued(tasks)
      /\ Three(tasks') <=> Three(tasks) \/ Two(tasks)
  BY <1>1, Appended DEF IInv, Types, TaskName
<1>3. Types'
  BY <1>1, <1>2 DEF IInv, Types
<1>4. Built' /\ Told' /\ DecodersOfSink'
  BY <1>1 DEF IInv, Built, Told, DecodersOfSink
<1>5. Stale' /\ Branches'
  BY <1>1, <1>2 DEF IInv, Stale, Branches
<1>6. Ends'
  <2>1. pipeline # NoUri
    BY <1>1 DEF IInv, Branches
  <2>2. fileEos = "sent" \/ rtmpEos = "sent"
    BY <1>1
  <2> QED  BY <1>1, <1>2, <2>1, <2>2 DEF IInv, Ends
<1> QED  BY <1>3, <1>4, <1>5, <1>6 DEF IInv

\* Every step keeps the invariant.
LEMMA NextIsSafe == IInv /\ [Next]_vars => IInv'
<1> SUFFICES ASSUME IInv, [Next]_vars PROVE IInv'
  OBVIOUS
<1>1. CASE Main
  BY <1>1, RequestsKeep, ChangeSourceKeeps, HandleSignalKeeps, QuitKeeps DEF Main
<1>2. CASE Worker
  BY <1>2, RunStartKeeps, StartPlayingKeeps, RunStopKeeps, DrainedKeeps, TeardownKeeps,
     RunStartDecodingKeeps, DecodeIfStreamingKeeps, RunStartRecordingKeeps, RunStopRecordingKeeps,
     RunStartServerKeeps, RunStopServerKeeps, RunEosKeeps, RunShutdownKeeps DEF Worker
<1>3. CASE Pipeline
  BY <1>3, RequestsKeep, NewSourcePadKeeps, SourceLinkedKeeps, FrameKeeps, SourceEndsKeeps,
     BranchEndsKeeps DEF Pipeline
<1>4. CASE UNCHANGED vars
  <2>1. UNCHANGED <<manager, signals, tasks, workerPc, source, decoder, recorder, server, history>>
    BY <1>4 DEF vars
  <2> QED  BY <2>1 DEF IInv, Types, Built, Told, DecodersOfSink, Stale, Branches, Ends
<1> QED  BY <1>1, <1>2, <1>3, <1>4, WatchdogKeeps DEF Next, Alive

\* It holds throughout.
LEMMA Consistent == Spec => []IInv
<1> QED  BY InitIsSafe, NextIsSafe, PTL DEF Spec

-----------------------------------------------------------------------------
(* What follows from it *)

\* VideoManager::onStartComplete, onStopComplete and GstVideoReceiver's _streaming and
\* _videoSink: the flags of the two threads say what the pipeline has.
THEOREM ThreadsAgree == Spec => []Inv
<1>1. IInv => Inv
  <2> SUFFICES ASSUME IInv PROVE Inv
    OBVIOUS
  <2>1. TypeOK
    <3>1. \A i \in DOMAIN signals :
             signals[i] \in {"startOk", "startIgnored", "startFailed", "stopped"}
      BY ElementOfSeq, LenProperties DEF IInv, Types, SignalName
    <3>2. decoders \in 0..2
      BY DEF IInv, Types, DecodersOfSink
    <3> QED  BY <3>1, <3>2 DEF IInv, Types, Built, TypeOK
  <2>2. StartedIsPipeline
    <3> SUFFICES ASSUME Quiet PROVE started <=> pipeline # NoUri
      BY DEF StartedIsPipeline
    <3>1. Len(signals) = 0 /\ workerPc = "idle"
      BY EmptySeq DEF Quiet
    <3>2. Says(started, signals) <=> started
      BY <3>1 DEF Says, Has
    <3> QED  BY <3>1, <3>2 DEF IInv, Told
  <2>3. SinkHasDecoder
    BY DEF SinkHasDecoder, Quiet, IInv, DecodersOfSink
  <2>4. FreedOnlyByFailedStart
    BY DEF FreedOnlyByFailedStart, IInv, Built
  <2> QED  BY <2>1, <2>2, <2>3, <2>4 DEF Inv
<1> QED  BY <1>1, Consistent, PTL

\* VideoManager::_videoSourceChanged and GstVideoReceiver::start and stop: what is shown is
\* what is set, but for the cases that are named.
THEOREM SourceIsShown == Spec => []ShowsSource
<1>1. IInv => ShowsSource
  <2> SUFFICES ASSUME IInv, Quiet, uri # NoUri, pipeline # NoUri, ~overlapped
               PROVE  pipeline = uri
    BY DEF ShowsSource
  <2>1. Len(tasks) = 0 /\ workerPc = "idle"
    BY EmptySeq DEF Quiet
  <2> QED  BY <2>1 DEF IInv, Stale, Has
<1> QED  BY <1>1, Consistent, PTL

\* GstVideoReceiver::_handleEOS: a recording that ends on a pipeline that goes on has had an
\* end of stream.
THEOREM RecordingsAreFinished == Spec => RecordingIsFinished
<1> DEFINE Finished == recording /\ ~recording' /\ pipeline' # NoUri =>
                          \/ fileEos = "arrived" \/ (removingRecorder /\ rtmpEos = "arrived")
                          \/ leftOver
<1>1. IInv /\ [Next]_vars => [Finished]_vars
  <2> SUFFICES ASSUME IInv, Next, recording, ~recording', pipeline' # NoUri, ~leftOver
               PROVE  fileEos = "arrived" \/ (removingRecorder /\ rtmpEos = "arrived")
    OBVIOUS
  <2>1. ~UNCHANGED recording
    OBVIOUS
  <2>2. CASE RunEos
    <3>1. EndsQueued(tasks) /\ UNCHANGED pipeline
      BY <2>2, TaskTaken DEF RunEos
    <3>2. ~endOfStream /\ removingRecorder
      BY <2>1, <2>2, <3>1 DEF RunEos, EndingRecording
    <3> QED  BY <3>1, <3>2 DEF IInv, Ends
  <2>3. CASE Main
    BY <2>1, <2>3 DEF Main, ChangeSource, ChangeLatency, StartVideo, StopVideo, StartRecording,
       StopRecording, StartServer, StopServer, HandleSignal, Quit
  <2>4. CASE Watchdog
    BY <2>1, <2>4 DEF Watchdog
  <2>5. CASE Pipeline
    BY <2>1, <2>5 DEF Pipeline, NewSourcePad, SourceLinked, Frame, BusError, SourceEnds, BranchEnds
  <2>6. CASE RunStartRecording
    BY <2>1, <2>6 DEF RunStartRecording, FileSinkNotMade
  <2>7. CASE Teardown
    BY <2>7 DEF Teardown
  <2>8. CASE RunStart \/ StartPlaying \/ RunStop \/ Drained \/ RunStartDecoding \/ DecodeIfStreaming
    BY <2>1, <2>8 DEF RunStart, StartPlaying, RunStop, Drained, RunStartDecoding, DecodeIfStreaming
  <2>9. CASE RunStopRecording \/ RunStartServer \/ RunStopServer \/ RunShutdown
    BY <2>1, <2>9 DEF RunStopRecording, RunStartServer, RunStopServer, RunShutdown
  <2> QED  BY <2>2, <2>3, <2>4, <2>5, <2>6, <2>7, <2>8, <2>9 DEF Next, Alive, Worker
<1> QED  BY <1>1, Consistent, PTL DEF Spec, RecordingIsFinished
=============================================================================
