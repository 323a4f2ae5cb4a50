------------------------- MODULE MCTileCacheWorker -------------------------
(* Small instances of TileCacheWorker: which task objects there are. *)
EXTENDS TileCacheWorker, TLC

CONSTANTS i1, s1, s2, p1, p2, x1, o1, r1

\* The life cycle of the worker: a save, a replacing import, a reset
LifeKinds == (i1 :> "init") @@ (s1 :> "save") @@ (x1 :> "replace") @@ (r1 :> "reset")
             @@ (p1 :> "prune")

\* The pruning protocol: two prune objects, so that a second one can be asked for
PruneKinds == (i1 :> "init") @@ (s1 :> "save") @@ (o1 :> "other")
              @@ (p1 :> "prune") @@ (p2 :> "prune")
=============================================================================
