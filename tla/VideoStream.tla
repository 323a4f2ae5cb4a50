---------------------------- MODULE VideoStream ----------------------------
(***************************************************************************)
(* VideoManager and one GstVideoReceiver.  The manager runs on the main    *)
(* thread; what it asks of the receiver is a task for the receiver's       *)
(* worker thread, and what the receiver reports is a signal queued for the *)
(* main thread.  The threads of GStreamer link the source when its pad     *)
(* appears, note the first frame and post errors and ends of streams.      *)
(*                                                                         *)
(* The URI is written by the main thread at once and read by the worker    *)
(* when a task runs.  (The second receiver, for thermal video, is never    *)
(* given a URI and so never starts.)                                       *)
(***************************************************************************)
EXTENDS Naturals, Sequences, FiniteSets

CONSTANTS Source,      \* the URIs a source can have
          NoUri,       \* the empty URI, and no pipeline
          Budgets      \* bounds, of which a behaviour has one: on the changes of the
                       \* settings, on what goes wrong in GStreamer, on recordings
                       \* and on streams to the server

ASSUME VideoAssumption ==
    /\ NoUri \notin Source /\ Source # {}
    /\ Budgets \subseteq [changes : Nat, faults : Nat, recordings : Nat, servers : Nat]

VARIABLES
    uri,         \* _uri of the receiver: what the settings say
    started,     \* _started of the receiver, kept by the manager
    widget,      \* startVideo has given the receiver its widget
    serverOn,    \* _isStreamingToServer of the manager
    quitting,    \* the receiver is being destroyed
    signals,     \* signals queued for the main thread
    tasks,       \* _taskQueue of the worker
    workerPc,    \* worker: between tasks, inside one of them, or ended
    pipeline,    \* the URI the pipeline plays, NoUri for no pipeline
    elements,    \* _tee, the valves and _source: "null", "live" or "freed"
    probe,       \* _teeProbeId is set
    streaming,   \* _streaming
    endOfStream, \* _endOfStream
    videoSink, decoders, decoding,              \* _videoSink, linked _decoders, _decoding
    fileSink, recording, removingRecorder,      \* _fileSink, _recording, _removingRecorder
    rtmpSink, removingRtmp,                     \* _rtmpSink, _removingRtmp
    pad,         \* the source pad: not there yet, being handled, linked
    fileEos, rtmpEos,  \* the end of stream sent into a branch: "none", "sent", "arrived"
    budget, changes, faults, recordings, servers,
    overlapped,  \* the source was changed while a start was under way
    leftOver,    \* a pipeline ended with ends of streams queued, of which one is still there
    failed,      \* a start failed when its pipeline was built
    decoderFailed, \* _addDecoder failed on this pipeline
    crashed      \* an element was used that had been freed

manager == <<uri, started, widget, serverOn, quitting>>
source == <<pipeline, elements, probe, streaming, endOfStream, pad>>
decoder == <<videoSink, decoders, decoding, decoderFailed>>
recorder == <<fileSink, recording, removingRecorder, fileEos>>
server == <<rtmpSink, removingRtmp, rtmpEos>>
history == <<changes, faults, recordings, servers, overlapped, leftOver, failed, crashed>>
vars == <<budget, manager, signals, tasks, workerPc, source, decoder, recorder, server, history>>

\* _updateSettings: the URI of the source in use, empty when there is none, when it
\* is not configured, or when it is of a kind that is not known
Uris == Source \cup {NoUri}

Init ==
    /\ uri \in Uris
    /\ started = FALSE /\ widget = FALSE /\ serverOn = FALSE /\ quitting = FALSE
    /\ signals = <<>> /\ tasks = IF uri = NoUri THEN <<>> ELSE <<"start">>
    /\ workerPc = "idle"
    /\ pipeline = NoUri /\ elements = "null" /\ probe = FALSE /\ streaming = FALSE
    /\ endOfStream = FALSE /\ pad = "none"
    /\ videoSink = FALSE /\ decoders = 0 /\ decoding = FALSE /\ decoderFailed = FALSE
    /\ fileSink = FALSE /\ recording = FALSE /\ removingRecorder = FALSE /\ fileEos = "none"
    /\ rtmpSink = FALSE /\ removingRtmp = FALSE /\ rtmpEos = "none"
    /\ budget \in Budgets /\ changes = 0 /\ faults = 0 /\ recordings = 0 /\ servers = 0
    /\ overlapped = FALSE /\ leftOver = FALSE /\ failed = FALSE /\ crashed = FALSE

Dispatch(task) == tasks' = Append(tasks, task)
Emit(signal) == signals' = Append(signals, signal)

\* A start has been asked for, and the manager has not been told of its end
Starting ==
    \/ workerPc = "starting"
    \/ \E i \in 1..Len(tasks) : tasks[i] = "start"
    \/ \E i \in 1..Len(signals) : signals[i] \in {"startOk", "startFailed", "startIgnored"}

-----------------------------------------------------------------------------
\* The main thread: VideoManager

\* _startReceiver and _restartVideo, with the receiver's flag and URI as they are then
StartReceiver(on, source_) ==
    IF on \/ source_ = NoUri THEN UNCHANGED tasks ELSE Dispatch("start")

StartOnly(on, source_) == StartReceiver(on, source_)   \* mutant: one that runs goes on
RestartVideo(on, source_) ==
    IF on THEN Dispatch("stop") ELSE StartReceiver(on, source_)

\* _videoSourceChanged: the new URI is in the receiver before it is stopped or restarted;
\* the setting streamEnabled, which hasVideo() also looks at, is taken to be on
ChangeSource(u) ==
    /\ ~quitting /\ changes < budget.changes /\ u # uri
    /\ uri' = u /\ changes' = changes + 1
    /\ overlapped' = (overlapped \/ Starting)
    /\ IF u # NoUri THEN RestartVideo(started, u)
       ELSE IF started THEN Dispatch("stop") ELSE UNCHANGED tasks
    /\ UNCHANGED <<started, widget, serverOn, quitting, signals, workerPc, source, decoder, recorder,
                   server, faults, recordings, servers, leftOver, failed, crashed>>

\* lowLatencyMode was changed: everything is restarted
ChangeLatency ==
    /\ ~quitting /\ changes < budget.changes /\ changes' = changes + 1
    /\ RestartVideo(started, uri)
    /\ UNCHANGED <<manager, signals, workerPc, source, decoder, recorder, server, faults, recordings,
                   servers, overlapped, leftOver, failed, crashed>>

\* startVideo, when the user interface is there
StartVideo ==
    /\ ~quitting /\ ~widget /\ uri # NoUri
    /\ widget' = TRUE
    /\ IF started THEN Dispatch("startDecoding") ELSE UNCHANGED tasks
    /\ UNCHANGED <<uri, started, serverOn, quitting, signals, workerPc, source, decoder, recorder,
                   server, history>>

StopVideo ==
    /\ ~quitting /\ started /\ changes < budget.changes /\ changes' = changes + 1
    /\ Dispatch("stop")
    /\ UNCHANGED <<manager, signals, workerPc, source, decoder, recorder, server, faults, recordings,
                   servers, overlapped, leftOver, failed, crashed>>

\* The user interface asks in turn for the start and the end of a recording
StartRecording ==
    /\ ~quitting /\ recordings < 2 * budget.recordings /\ recordings % 2 = 0 /\ recordings' = recordings + 1
    /\ IF started THEN Dispatch("startRecording") ELSE UNCHANGED tasks
    /\ UNCHANGED <<manager, signals, workerPc, source, decoder, recorder, server, changes, faults,
                   servers, overlapped, leftOver, failed, crashed>>

StopRecording ==
    /\ ~quitting /\ recordings % 2 = 1 /\ recordings' = recordings + 1
    /\ Dispatch("stopRecording")
    /\ UNCHANGED <<manager, signals, workerPc, source, decoder, recorder, server, changes, faults,
                   servers, overlapped, leftOver, failed, crashed>>

StartServer ==
    /\ ~quitting /\ ~serverOn /\ servers < budget.servers /\ servers' = servers + 1
    /\ serverOn' = TRUE
    /\ Dispatch("startServer")
    /\ UNCHANGED <<uri, started, widget, quitting, signals, workerPc, source, decoder, recorder, server,
                   changes, faults, recordings, overlapped, leftOver, failed, crashed>>

StopServer ==
    /\ ~quitting /\ serverOn /\ serverOn' = FALSE
    /\ Dispatch("stopServer")
    /\ UNCHANGED <<uri, started, widget, quitting, signals, workerPc, source, decoder, recorder, server,
                   history>>
OnlyStopped == started' = FALSE /\ UNCHANGED tasks      \* mutant: it stays stopped
OnStopComplete == started' = FALSE /\ StartReceiver(FALSE, uri)

\* onStartComplete and onStopComplete
HandleSignal ==
    /\ ~quitting /\ signals # <<>> /\ signals' = Tail(signals)
    /\ CASE Head(signals) = "startOk" -> started' = TRUE /\ Dispatch("startDecoding")
         [] Head(signals) = "startIgnored" -> UNCHANGED <<started, tasks>>
         [] Head(signals) = "startFailed" -> RestartVideo(started, uri) /\ UNCHANGED started
         [] Head(signals) = "stopped" -> OnStopComplete
    /\ UNCHANGED <<uri, widget, serverOn, quitting, workerPc, source, decoder, recorder, server, history>>

OnlyStop ==                                   \* mutant: the worker is not told to end
    /\ ~quitting /\ quitting' = TRUE
    /\ Dispatch("stop")
    /\ UNCHANGED <<uri, started, widget, serverOn, signals, workerPc, source, decoder, recorder, server,
                   history>>
\* ~GstVideoReceiver: stop(), and shutdown() of the worker, which is waited for, but not
\* longer than two seconds: what the destructor does to a worker that is late is left out
Quit ==
    /\ ~quitting /\ quitting' = TRUE
    /\ tasks' = tasks \o <<"stop", "shutdown">>
    /\ UNCHANGED <<uri, started, widget, serverOn, signals, workerPc, source, decoder, recorder, server,
                   history>>

Main ==
    \/ \E u \in Uris : ChangeSource(u)
    \/ ChangeLatency \/ StartVideo \/ StopVideo \/ StartRecording \/ StopRecording
    \/ StartServer \/ StopServer \/ HandleSignal \/ Quit

-----------------------------------------------------------------------------
\* The worker thread: GstVideoReceiver

Task(task) ==
    /\ workerPc = "idle" /\ tasks # <<>> /\ Head(tasks) = task
    /\ tasks' = Tail(tasks)

EndsQueued(queue) == \E i \in 1..Len(queue) : queue[i] = "eos"

\* An element that GStreamer cannot make, link or play
Fault == faults < budget.faults /\ faults' = faults + 1

\* _makeSource: the source of its kind (rtsp, tcp, udp), a demultiplexer, a jitter
\* buffer and a parser, in one bin or none at all
SourceMade == workerPc' = "starting" /\ pipeline' = uri /\ elements' = "live" /\ UNCHANGED <<signals, faults>>
SourceNotMade == Fault /\ elements' = "null" /\ Emit("startFailed") /\ UNCHANGED <<workerPc, pipeline>>

\* start(): refused with a pipeline or without a URI
RunStart ==
    /\ Task("start")
    /\ IF pipeline # NoUri \/ uri = NoUri
       THEN /\ Emit("startIgnored")
            /\ UNCHANGED <<workerPc, pipeline, elements, probe, endOfStream, faults>>
       ELSE /\ endOfStream' = FALSE /\ probe' = TRUE
            /\ SourceMade \/ SourceNotMade
    /\ UNCHANGED <<manager, streaming, pad, decoder, recorder, server, changes, recordings, servers,
                   overlapped, leftOver, failed, crashed>>

\* The elements are linked and the pipeline is set to play.  When that fails the
\* pipeline is released with the elements in it, but the members still point to them;
\* GStreamer may have posted an error, which stops the receiver.
StartPlaying ==
    /\ workerPc = "starting" /\ pad # "new"
    /\ workerPc' = "idle"
    /\ \/ /\ Emit("startOk")
          /\ UNCHANGED <<pipeline, elements, pad, decoders, decoderFailed, tasks, faults, leftOver,
                         failed>>
       \/ /\ Fault /\ failed' = TRUE
          /\ pipeline' = NoUri /\ elements' = "freed" /\ pad' = "none"
          /\ decoders' = 0 /\ decoderFailed' = FALSE
          /\ leftOver' = EndsQueued(tasks)
          /\ Emit("startFailed")
          /\ Dispatch("stop") \/ UNCHANGED tasks
    /\ UNCHANGED <<manager, probe, streaming, endOfStream, videoSink, decoding, recorder, server, changes,
                   recordings, servers, overlapped, crashed>>

\* stop(): nothing at all without a URI.  The probe is taken from the tee.  An open
\* recording is ended first; the call waits for the end of the stream, or an error.
BeginStop ==
    IF uri = NoUri
    THEN UNCHANGED <<workerPc, probe, signals, crashed, fileEos>>
    ELSE /\ probe' = FALSE
         /\ crashed' = (probe /\ elements = "freed")
         /\ IF pipeline = NoUri
            THEN Emit("stopped") /\ UNCHANGED <<workerPc, fileEos>>
            ELSE /\ workerPc' = IF recording /\ ~removingRecorder THEN "drain" ELSE "teardown"
                 /\ fileEos' = IF recording /\ ~removingRecorder THEN "sent" ELSE fileEos
                 /\ UNCHANGED signals

RunStop ==
    /\ Task("stop")
    /\ BeginStop
    /\ UNCHANGED <<manager, pipeline, elements, streaming, endOfStream, pad, decoder, fileSink, recording,
                   removingRecorder, server, changes, faults, recordings, servers, overlapped, leftOver,
                   failed>>

Drained ==
    /\ workerPc = "drain" /\ workerPc' = "teardown"
    /\ fileEos' = "arrived"
    /\ UNCHANGED <<manager, signals, tasks, source, decoder, fileSink, recording, removingRecorder,
                   server, history>>

\* _shutdownRecordingBranch, _shutdownRtmpBranch and _shutdownDecodingBranch
ShutdownBranches ==
    /\ videoSink' = FALSE /\ decoders' = 0 /\ decoding' = FALSE /\ decoderFailed' = FALSE
    /\ fileSink' = FALSE /\ recording' = FALSE /\ removingRecorder' = FALSE /\ fileEos' = "none"
    /\ rtmpSink' = FALSE /\ removingRtmp' = FALSE /\ rtmpEos' = "none"

SilentTeardown ==                             \* mutant: the end is not reported
    /\ workerPc = "teardown" /\ pad # "new" /\ workerPc' = "idle"
    /\ ShutdownBranches
    /\ pipeline' = NoUri /\ elements' = "null" /\ streaming' = FALSE /\ pad' = "none"
    /\ overlapped' = FALSE /\ leftOver' = EndsQueued(tasks)
    /\ UNCHANGED <<manager, signals, tasks, probe, endOfStream, changes, faults, recordings, servers,
                   failed, crashed>>
\* The rest of stop(): the threads of the pipeline have ended when it is set to NULL
Teardown ==
    /\ workerPc = "teardown" /\ pad # "new" /\ workerPc' = "idle"
    /\ ShutdownBranches
    /\ pipeline' = NoUri /\ elements' = "null" /\ streaming' = FALSE /\ pad' = "none"
    /\ overlapped' = FALSE /\ leftOver' = EndsQueued(tasks)
    /\ Emit("stopped")
    /\ UNCHANGED <<manager, tasks, probe, endOfStream, changes, faults, recordings, servers, failed, crashed>>

\* _watchdog, a task of every second, when no frame has come for too long
Watchdog ==
    /\ workerPc = "idle" /\ pipeline # NoUri /\ Fault
    /\ BeginStop
    /\ UNCHANGED <<manager, tasks, pipeline, elements, streaming, endOfStream, pad, decoder, fileSink,
                   recording, removingRecorder, server, changes, recordings, servers, overlapped,
                   leftOver, failed>>

AlreadyDecoding == (pipeline # NoUri /\ videoSink) \/ decoding

\* startDecoding(): the sink is set, and then _streaming is read
RunStartDecoding ==
    /\ Task("startDecoding")
    /\ IF ~widget \/ AlreadyDecoding
       THEN UNCHANGED <<workerPc, videoSink>>
       ELSE videoSink' = TRUE /\ workerPc' = "decode"
    /\ UNCHANGED <<manager, signals, source, decoders, decoding, decoderFailed, recorder, server, history>>

\* _makeDecoder, or a link of its bin, fails: the sink is left without one
DecoderNotMade == Fault /\ decoderFailed' = TRUE /\ UNCHANGED decoders

\* _addDecoder and the opening of its valve
AddDecoder ==
    \/ decoders' = decoders + 1 /\ UNCHANGED <<decoderFailed, faults>>
    \/ DecoderNotMade

DecodeIfStreaming ==
    /\ workerPc = "decode" /\ workerPc' = "idle"
    /\ IF streaming /\ elements = "live"
       THEN AddDecoder /\ UNCHANGED crashed
       ELSE /\ crashed' = (streaming /\ elements = "freed")
            /\ UNCHANGED <<decoders, decoderFailed, faults>>
    /\ UNCHANGED <<manager, signals, tasks, source, videoSink, decoding, recorder, server, changes,
                   recordings, servers, overlapped, leftOver, failed>>

\* _makeFileSink: a muxer and a file sink, in one bin or none at all
FileSinkNotMade == Fault /\ fileSink' = FALSE /\ UNCHANGED <<recording, removingRecorder>>

RunStartRecording ==
    /\ Task("startRecording")
    /\ IF pipeline = NoUri \/ recording
       THEN UNCHANGED <<recorder, faults>>
       ELSE /\ UNCHANGED <<fileEos>>
            /\ \/ fileSink' = TRUE /\ removingRecorder' = FALSE /\ recording' = TRUE /\ UNCHANGED faults
               \/ Fault /\ fileSink' = TRUE /\ removingRecorder' = FALSE /\ UNCHANGED recording
               \/ FileSinkNotMade
    /\ UNCHANGED <<manager, signals, workerPc, source, decoder, server, changes, recordings, servers,
                   overlapped, leftOver, failed, crashed>>

\* An end of stream is sent into the branch; one that is unlinked already has no peer
UnlinkBranch(removing, eos) == IF removing THEN eos ELSE "sent"

\* _recording stays until the end of the stream has come through
RunStopRecording ==
    /\ Task("stopRecording")
    /\ IF pipeline = NoUri \/ ~recording
       THEN UNCHANGED recorder
       ELSE /\ removingRecorder' = TRUE
            /\ fileEos' = UnlinkBranch(removingRecorder, fileEos)
            /\ UNCHANGED <<fileSink, recording>>
    /\ UNCHANGED <<manager, signals, workerPc, source, decoder, server, history>>

\* _makeRtmpSink: from a parser to the rtmp sink, in one bin or none at all
RtmpSinkNotMade == Fault /\ pipeline # NoUri /\ ~rtmpSink /\ UNCHANGED rtmpSink

RunStartServer ==
    /\ Task("startServer")
    /\ \/ rtmpSink' = (rtmpSink \/ pipeline # NoUri) /\ UNCHANGED faults
       \/ RtmpSinkNotMade
    /\ UNCHANGED <<manager, signals, workerPc, source, decoder, recorder, removingRtmp, rtmpEos, changes,
                   recordings, servers, overlapped, leftOver, failed, crashed>>

RunStopServer ==
    /\ Task("stopServer")
    /\ IF pipeline = NoUri \/ ~rtmpSink
       THEN UNCHANGED server
       ELSE removingRtmp' = TRUE /\ rtmpEos' = UnlinkBranch(removingRtmp, rtmpEos) /\ UNCHANGED rtmpSink
    /\ UNCHANGED <<manager, signals, workerPc, source, decoder, recorder, history>>

AnyRecording == recording                     \* mutant: whether or not it is being ended
EndingRecording == recording /\ removingRecorder

\* _handleEOS: the source has ended, or else one of the branches that are being
\* removed; it is not looked at which
RunEos ==
    /\ Task("eos")
    /\ CASE pipeline # NoUri /\ endOfStream ->
               /\ BeginStop
               /\ UNCHANGED <<fileSink, recording, removingRecorder, server>>
         [] pipeline # NoUri /\ ~endOfStream /\ EndingRecording ->
               /\ fileSink' = FALSE /\ recording' = FALSE /\ removingRecorder' = FALSE
               /\ fileEos' = "none"
               /\ UNCHANGED <<workerPc, probe, signals, crashed, server>>
         [] pipeline # NoUri /\ ~endOfStream /\ ~EndingRecording /\ rtmpSink /\ removingRtmp ->
               /\ rtmpSink' = FALSE /\ removingRtmp' = FALSE /\ rtmpEos' = "none"
               /\ UNCHANGED <<workerPc, probe, signals, crashed, recorder>>
         [] OTHER -> UNCHANGED <<workerPc, probe, signals, crashed, recorder, server>>
    /\ leftOver' = (leftOver /\ EndsQueued(tasks'))
    /\ UNCHANGED <<manager, pipeline, elements, streaming, endOfStream, pad, decoder, changes, faults,
                   recordings, servers, overlapped, failed>>

RunShutdown ==
    /\ Task("shutdown") /\ workerPc' = "ended"
    /\ UNCHANGED <<manager, signals, source, decoder, recorder, server, history>>

Worker ==
    \/ RunStart \/ StartPlaying \/ RunStop \/ Drained \/ Teardown \/ RunStartDecoding \/ DecodeIfStreaming
    \/ RunStartRecording \/ RunStopRecording \/ RunStartServer \/ RunStopServer \/ RunEos \/ RunShutdown

-----------------------------------------------------------------------------
\* GStreamer's threads

\* _onNewSourcePad, once for a pipeline: the source is linked and _streaming is set,
\* and then _videoSink is read.  A link of source and tee that fails changes nothing: then
\* this step is not taken.
NewSourcePad ==
    /\ pipeline # NoUri /\ pad = "none" /\ workerPc # "ended" /\ pad' = "new"
    /\ streaming' = TRUE
    /\ UNCHANGED <<manager, signals, tasks, workerPc, pipeline, elements, probe, endOfStream, decoder,
                   recorder, server, history>>

SourceLinked ==
    /\ pad = "new" /\ pad' = "linked"
    /\ IF videoSink THEN AddDecoder ELSE UNCHANGED <<decoders, decoderFailed, faults>>
    /\ UNCHANGED <<manager, signals, tasks, workerPc, pipeline, elements, probe, streaming, endOfStream,
                   videoSink, decoding, recorder, server, changes, recordings, servers, overlapped, leftOver,
                   failed, crashed>>

\* The probe of the sink sees a frame
Frame ==
    /\ decoders > 0 /\ pad = "linked" /\ ~decoding /\ workerPc # "ended" /\ decoding' = TRUE
    /\ UNCHANGED <<manager, signals, tasks, workerPc, source, videoSink, decoders, decoderFailed, recorder,
                   server, history>>

\* An error on the bus; it is not listened to any more once a stop has begun
BusError ==
    /\ pipeline # NoUri /\ workerPc \notin {"drain", "teardown", "ended"}
    /\ Fault
    /\ Dispatch("stop")
    /\ UNCHANGED <<manager, signals, workerPc, source, decoder, recorder, server, changes, recordings,
                   servers, overlapped, leftOver, failed, crashed>>

SourceEnds ==
    /\ pad = "linked" /\ ~endOfStream /\ workerPc \notin {"drain", "teardown", "ended"}
    /\ Fault
    /\ endOfStream' = TRUE /\ Dispatch("eos")
    /\ UNCHANGED <<manager, signals, workerPc, pipeline, elements, probe, streaming, pad, decoder, recorder,
                   server, changes, recordings, servers, overlapped, leftOver, failed, crashed>>

\* The end of stream has come through a branch that was unlinked
BranchEnds ==
    /\ workerPc \notin {"drain", "teardown", "ended"}
    /\ \/ fileEos = "sent" /\ fileEos' = "arrived" /\ UNCHANGED rtmpEos
       \/ rtmpEos = "sent" /\ rtmpEos' = "arrived" /\ UNCHANGED fileEos
    /\ Dispatch("eos")
    /\ UNCHANGED <<manager, signals, workerPc, source, decoder, fileSink, recording, removingRecorder,
                   rtmpSink, removingRtmp, history>>

Pipeline == NewSourcePad \/ SourceLinked \/ Frame \/ BusError \/ SourceEnds \/ BranchEnds

\* Nothing is modelled after the use of a freed element
Alive(A) == ~crashed /\ UNCHANGED budget /\ A

Next == Alive(Main \/ Worker \/ Watchdog \/ Pipeline)

Spec == Init /\ [][Next]_vars

\* Both threads run, and so do the threads of a pipeline; a stop that waits for the
\* end of a recording gets it, or an error
Fairness ==
    /\ WF_vars(Alive(HandleSignal))
    /\ WF_vars(Alive(Worker))
    /\ WF_vars(Alive(SourceLinked))

FairSpec == Spec /\ Fairness

-----------------------------------------------------------------------------
\* The members are of their kinds; no more than two decoders are ever linked.
TypeOK ==
    /\ uri \in Uris /\ pipeline \in Uris
    /\ workerPc \in {"idle", "starting", "drain", "teardown", "decode", "ended"}
    /\ elements \in {"null", "live", "freed"} /\ (pipeline # NoUri => elements = "live")
    /\ pad \in {"none", "new", "linked"} /\ (pipeline = NoUri => pad = "none")
    /\ decoders \in 0..2 /\ {started, widget, serverOn, streaming, videoSink, decoding} \subseteq BOOLEAN
    /\ {fileEos, rtmpEos} \subseteq {"none", "sent", "arrived"}
    /\ \A i \in DOMAIN signals : signals[i] \in {"startOk", "startIgnored", "startFailed", "stopped"}

Quiet == tasks = <<>> /\ signals = <<>> /\ workerPc = "idle" /\ ~quitting /\ ~crashed

\* When both threads have nothing left to do, the manager's flag says whether there
\* is a pipeline, whatever starts, stops, errors and timeouts have crossed.
StartedIsPipeline == Quiet => (started <=> pipeline # NoUri)

\* The source that is shown is the one that is set, unless it was changed while a
\* start was under way (the second start is refused and nothing restarts the first)
\* or was switched off (stop() does nothing without a URI).
ShowsSource == Quiet /\ uri # NoUri /\ pipeline # NoUri /\ ~overlapped => pipeline = uri

\* The sink is given by the worker and the stream noted by a thread of the pipeline,
\* each reading the other's flag after setting its own: one of them adds the decoder.
SinkHasDecoder ==
    Quiet /\ pad = "linked" /\ videoSink /\ ~decoderFailed => decoders > 0

\* Only a start that failed after its pipeline was built leaves pointers to freed
\* elements behind for a later task to use.
FreedOnlyByFailedStart == crashed => failed

\* The two threads agree: the flags of the manager and of the receiver say what the
\* pipeline has.
Inv == TypeOK /\ StartedIsPipeline /\ SinkHasDecoder /\ FreedOnlyByFailedStart

\* A recording that is ended while the pipeline goes on has had its end of stream.  The
\* ends of streams are not told apart, so that it may also have been ended by that of
\* a stream to the server, or by one that was queued when an earlier pipeline ended.
RecordingIsFinished ==
    [][recording /\ ~recording' /\ pipeline' # NoUri =>
          \/ fileEos = "arrived" \/ (removingRecorder /\ rtmpEos = "arrived")
          \/ leftOver]_vars

\* After whatever goes wrong there is video again as long as a source is set.
VideoReturns == <>[](pipeline # NoUri \/ uri = NoUri \/ quitting \/ crashed)

\* The destruction of the receiver ends its worker.
WorkerEnds == quitting ~> (workerPc = "ended" \/ crashed)
=============================================================================
