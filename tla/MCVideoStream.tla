--------------------------- MODULE MCVideoStream ---------------------------
(* Small instances of VideoStream with two sources: many changes of the    *)
(* settings, faults and changes, and faults while recording and streaming. *)
EXTENDS VideoStream

Budget(c, f, r, s) == [changes |-> c, faults |-> f, recordings |-> r, servers |-> s]

SomeBudgets == {Budget(3, 0, 0, 0), Budget(1, 2, 0, 0), Budget(0, 1, 1, 0), Budget(0, 1, 0, 1),
                Budget(0, 0, 1, 1)}
=============================================================================
