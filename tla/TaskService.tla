---------------------------- MODULE TaskService ----------------------------
(***************************************************************************)
(* What the tile cache worker promises to the code that hands it tasks:    *)
(* accepted tasks wait in line, are served one at a time in the order they *)
(* were accepted, and each acceptance is served at most once.  Nothing is  *)
(* promised about when, or that the last ones are served at all.           *)
(***************************************************************************)
EXTENDS Sequences, Functions

CONSTANT Task           \* the task objects

VARIABLES waiting,      \* accepted and not yet started, oldest first
          serving       \* the task being served: a set of at most one

svars == <<waiting, serving>>

Init == waiting = <<>> /\ serving = {}

Accept(t) ==
    /\ t \notin Range(waiting) \cup serving
    /\ waiting' = Append(waiting, t)
    /\ UNCHANGED serving

Serve ==
    /\ serving = {}
    /\ waiting # <<>>
    /\ serving' = {Head(waiting)}
    /\ waiting' = Tail(waiting)

Finish ==
    /\ serving # {}
    /\ serving' = {}
    /\ UNCHANGED waiting

Next == Serve \/ Finish \/ \E t \in Task : Accept(t)

Spec == Init /\ [][Next]_svars
=============================================================================
