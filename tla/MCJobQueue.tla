----------------------------- MODULE MCJobQueue -----------------------------
(* Instances of JobQueue for TLC. *)
EXTENDS JobQueue, TLC

CONSTANTS n1, c1, w1, w2

\* A plain job, a scheduled one that depends on it, and one that depends on
\* both and needs a capability.
MCRequests ==
    LET plain == [ns |-> n1, prio |-> 2, sched |-> 0, deps |-> {}, caps |-> {}]
    IN {plain, [plain EXCEPT !.deps = {1}, !.sched = 1],
        [plain EXCEPT !.deps = {1, 2}, !.caps = {c1}, !.prio = 1]}

\* The workers are interchangeable.
MCSymmetry == Permutations(Workers)

MCCapLists == {{c1}}

MCConfig == [active |-> 3, dead |-> 1, attempts |-> 1]

MCConfigs == {[active |-> 2, dead |-> 1, attempts |-> 2]}
=============================================================================
