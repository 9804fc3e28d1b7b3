------------------------------ MODULE TaskCell ------------------------------
(***************************************************************************)
(* What the task runtime promises about results: every task has a cell     *)
(* that is created empty, filled at most once and emptied for good at most *)
(* once.  Emptying a full cell may deliver the result to one actor.        *)
(***************************************************************************)
CONSTANTS Tasks, Actors

VARIABLES cell,  \* "Unspawned", "Pending", "Completed" or "Taken"
          got    \* the actors that received the result of each task

cellVars == <<cell, got>>

CellInit ==
    /\ cell = [t \in Tasks |-> "Unspawned"]
    /\ got = [t \in Tasks |-> {}]

Create(t) ==
    /\ cell[t] = "Unspawned"
    /\ cell' = [cell EXCEPT ![t] = "Pending"]
    /\ UNCHANGED got

Fill(t) ==
    /\ cell[t] = "Pending"
    /\ cell' = [cell EXCEPT ![t] = "Completed"]
    /\ UNCHANGED got

\* The result goes to the actor that empties the cell.
Deliver(t, a) ==
    /\ cell[t] = "Completed" /\ got[t] = {}
    /\ cell' = [cell EXCEPT ![t] = "Taken"]
    /\ got' = [got EXCEPT ![t] = {a}]

\* The result is dropped: by a detach, by a group's join, or because there is
\* none: the task was cancelled, or its body returns unit.
Drop(t) ==
    /\ cell[t] \in {"Pending", "Completed"}
    /\ cell' = [cell EXCEPT ![t] = "Taken"]
    /\ UNCHANGED got

CellNext ==
    \E t \in Tasks :
        \/ Create(t) \/ Fill(t) \/ Drop(t)
        \/ \E a \in Actors : Deliver(t, a)

Spec == CellInit /\ [][CellNext]_cellVars
=============================================================================
