--------------------------- MODULE MCTaskRuntime ---------------------------
(* Instances of TaskRuntime for TLC: the actors whose code spawns, and the  *)
(* symmetries of the model.                                                 *)
EXTENDS TaskRuntime, TLC

CONSTANTS m, t1, t2, w1, w2, g1, g2

\* Only the main thread has scopes, as in prototypes/concurrent-pipeline.
MainOnly == {m}

\* The first task's body opens a scope of its own.
MainAndFirst == {m, t1}

\* Where liveness is checked, TLC must not use symmetry; instead g2 is opened
\* after g1, and w1 is the first worker to lock the receiver.  Every behaviour
\* is one of these up to the names of groups and workers.
InOrder ==
    /\ Opened(g2) => Opened(g1)
    /\ pc[w2] = "recv" => \E t \in Tasks : state[t] # "Unspawned" /\ t \notin Elems(queue)

\* Neither groups nor workers are named by Spawners or by a property.
PoolSymmetry == Permutations(Workers) \cup Permutations(Groups)
=============================================================================
