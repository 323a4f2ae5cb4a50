SPECIFICATION FairSpec
CONSTANTS
    NoUri = NoUri
    Source = {"rtsp", "udp"}
    Budgets <- SomeBudgets
CHECK_DEADLOCK FALSE
INVARIANTS Inv ShowsSource
PROPERTIES RecordingIsFinished VideoReturns WorkerEnds
