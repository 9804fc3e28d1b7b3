---------------------------- MODULE TaskRuntime ----------------------------
(***************************************************************************)
(* The Task/Executor runtime of Edda programs (crates/edda-rt/src/task.rs):*)
(* a bounded pool of worker threads that take jobs from one shared queue,  *)
(* and the handles, task groups and cancellation flags that generated code *)
(* uses to spawn, await, detach, cancel and join tasks.                    *)
(*                                                                         *)
(* An actor is a thread of generated code: the main thread, or a task body *)
(* that a worker is running.  Each critical section on a task's state      *)
(* mutex is one step; waiting on the condition variable, waking up and     *)
(* notifying are steps of their own, because other threads run in between. *)
(***************************************************************************)
EXTENDS Naturals, Sequences, FiniteSets

CONSTANTS
    Tasks,          \* the tasks a run of the program may spawn, each once
    Groups,         \* the scope(exec) groups it may open, each once
    Workers,        \* the worker threads of the pool
    Main,           \* the main thread
    None,           \* no thread, task, group or worker
    Spawners,       \* the actors whose code opens scopes and spawns
    UnitTasks,      \* the tasks whose body has no result (returns unit or never)
    MovesHandles,   \* does a spawn hand an existing task handle to the child?
    EarlyExits      \* does generated code leave a scope by `return`?

Actors == {Main} \cup Tasks

ASSUME TaskAssumption ==
    /\ Main \notin Tasks
    /\ None \notin Actors \cup Groups \cup Workers
    /\ Spawners \subseteq Actors
    /\ MovesHandles \in BOOLEAN
    /\ EarlyExits \in BOOLEAN

ASSUME UnitAssumption == UnitTasks \subseteq Tasks

VARIABLES
    state,      \* TaskShared.state of every task, "Unspawned" before the spawn
    result,     \* the pointer the job produced: "null" or "buf"
    cancelled,  \* TaskShared.cancelled
    queue,      \* the jobs in the pool's channel
    rx,         \* the worker that holds the mutex around the receiver
    pc,         \* where each worker is in worker_loop and in its job
    job,        \* the task of the job each worker holds
    handle,     \* the actor that owns each TaskHandle, None once consumed
    group,      \* the group each task was spawned under, None without one
    children,   \* TaskGroup.children of every group
    scopes,     \* the stack of scopes each actor has open, innermost last
    todo,       \* the tasks an actor still has to wait for in its blocking call
    asleep,     \* is the actor blocked in cond.wait?
    joining,    \* the group an actor is joining, None when it is awaiting
    detached,   \* the tasks that were detached
    ran,        \* the tasks whose body was called
    delivered,  \* who received a pointer from awaiting each task, and which
    left        \* the groups whose scope was left

taskVars   == <<state, result, cancelled>>
poolVars   == <<queue, rx, pc, job>>
clientVars == <<handle, group, children, scopes, left>>
waitVars   == <<todo, asleep, joining>>
histVars   == <<detached, ran, delivered>>
vars == <<taskVars, poolVars, clientVars, waitVars, histVars>>

Pcs == {"idle", "recv", "check", "body", "complete", "notify"}

\* The values of the variables; a worker has the receiver's mutex only while
\* it is in recv, has a job exactly while it works on one, and an actor
\* sleeps only on a task it waits for.
TypeOK ==
    /\ state \in [Tasks -> {"Unspawned", "Pending", "Completed", "Taken"}]
    /\ result \in [Tasks -> {"null", "buf"}]
    /\ cancelled \in [Tasks -> BOOLEAN]
    /\ queue \in Seq(Tasks)
    /\ rx \in Workers \cup {None}
    /\ pc \in [Workers -> Pcs]
    /\ job \in [Workers -> Tasks \cup {None}]
    /\ handle \in [Tasks -> Actors \cup {None}]
    /\ group \in [Tasks -> Groups \cup {None}]
    /\ children \in [Groups -> Seq(Tasks)]
    /\ scopes \in [Actors -> Seq(Groups)]
    /\ todo \in [Actors -> Seq(Tasks)]
    /\ asleep \in [Actors -> BOOLEAN]
    /\ joining \in [Actors -> Groups \cup {None}]
    /\ detached \subseteq Tasks
    /\ ran \subseteq Tasks
    /\ delivered \in [Tasks -> SUBSET (Actors \X {"null", "buf"})]
    /\ left \subseteq Groups
    /\ \A w \in Workers :
          /\ pc[w] = "recv" <=> rx = w
          /\ pc[w] \in {"idle", "recv"} <=> job[w] = None
    /\ \A a \in Actors :
          /\ asleep[a] => todo[a] # <<>>
          /\ joining[a] # None => scopes[a] # <<>>

Init ==
    /\ state = [t \in Tasks |-> "Unspawned"]
    /\ result = [t \in Tasks |-> "null"]
    /\ cancelled = [t \in Tasks |-> FALSE]
    /\ queue = <<>>
    /\ rx = None
    /\ pc = [w \in Workers |-> "idle"]
    /\ job = [w \in Workers |-> None]
    /\ handle = [t \in Tasks |-> None]
    /\ group = [t \in Tasks |-> None]
    /\ children = [g \in Groups |-> <<>>]
    /\ scopes = [a \in Actors |-> <<>>]
    /\ todo = [a \in Actors |-> <<>>]
    /\ asleep = [a \in Actors |-> FALSE]
    /\ joining = [a \in Actors |-> None]
    /\ detached = {}
    /\ ran = {}
    /\ delivered = [t \in Tasks |-> {}]
    /\ left = {}

Elems(s) == {s[i] : i \in 1..Len(s)}

\* An actor runs its own code: it is the main thread or a body some worker
\* is inside of, and it is not in a blocking call of the runtime.
Runs(a) ==
    /\ a = Main \/ \E w \in Workers : pc[w] = "body" /\ job[w] = a
    /\ todo[a] = <<>> /\ joining[a] = None

Opened(g) == g \in left \/ \E a \in Actors : g \in Elems(scopes[a])

-----------------------------------------------------------------------------
(* Calls of generated code into the runtime.                               *)

\* __edda_task_group_open, called on entry to `scope(exec) g { ... }`.
GroupOpen(a, g) ==
    /\ Runs(a) /\ a \in Spawners
    /\ ~Opened(g)
    /\ scopes' = [scopes EXCEPT ![a] = Append(@, g)]
    /\ UNCHANGED <<taskVars, poolVars, handle, group, children, left,
                   waitVars, histVars>>

\* Mutant of Spawn: the child is not pushed onto the group's list.
SpawnUnregistered(a, g, t, moved) ==
    /\ Runs(a) /\ a \in Spawners
    /\ state[t] = "Unspawned"
    /\ g \in Elems(scopes[a]) \cup {None}
    /\ moved # None => MovesHandles /\ handle[moved] = a
    /\ state' = [state EXCEPT ![t] = "Pending"]
    /\ queue' = Append(queue, t)
    /\ handle' = [x \in Tasks |-> IF x = t THEN a
                                  ELSE IF x = moved THEN t ELSE handle[x]]
    /\ group' = [group EXCEPT ![t] = g]
    /\ UNCHANGED <<result, cancelled, rx, pc, job, scopes, left, waitVars,
                   histVars, children>>

\* __edda_task_spawn: register the task with the group, submit its job and
\* hand the handle to the caller.  moved is a handle the child's arguments
\* take over from the caller, None when there is none.
Spawn(a, g, t, moved) ==
    /\ Runs(a) /\ a \in Spawners
    /\ state[t] = "Unspawned"
    /\ g \in Elems(scopes[a]) \cup {None}
    /\ moved # None => MovesHandles /\ handle[moved] = a
    /\ state' = [state EXCEPT ![t] = "Pending"]
    /\ children' = IF g = None THEN children
                               ELSE [children EXCEPT ![g] = Append(@, t)]
    /\ queue' = Append(queue, t)
    /\ handle' = [x \in Tasks |-> IF x = t THEN a
                                  ELSE IF x = moved THEN t ELSE handle[x]]
    /\ group' = [group EXCEPT ![t] = g]
    /\ UNCHANGED <<result, cancelled, rx, pc, job, scopes, left, waitVars,
                   histVars>>

\* __edda_task_await consumes the handle and enters wait_and_take.
Await(a, t) ==
    /\ Runs(a) /\ handle[t] = a
    /\ handle' = [handle EXCEPT ![t] = None]
    /\ todo' = [todo EXCEPT ![a] = <<t>>]
    /\ UNCHANGED <<taskVars, poolVars, group, children, scopes, left,
                   asleep, joining, histVars>>

\* __edda_task_cancel_and_await: set the flag, then as await.
CancelAndAwait(a, t) ==
    /\ Runs(a) /\ handle[t] = a
    /\ handle' = [handle EXCEPT ![t] = None]
    /\ cancelled' = [cancelled EXCEPT ![t] = TRUE]
    /\ todo' = [todo EXCEPT ![a] = <<t>>]
    /\ UNCHANGED <<state, result, poolVars, group, children, scopes, left,
                   asleep, joining, histVars>>

\* __edda_task_cancel: only the flag; the caller keeps the handle.
Cancel(a, t) ==
    /\ Runs(a) /\ handle[t] = a
    /\ cancelled' = [cancelled EXCEPT ![t] = TRUE]
    /\ UNCHANGED <<state, result, poolVars, clientVars, waitVars, histVars>>

\* __edda_task_detach: the state becomes Taken whatever it was, nobody is
\* notified.
Detach(a, t) ==
    /\ Runs(a) /\ handle[t] = a
    /\ handle' = [handle EXCEPT ![t] = None]
    /\ state' = [state EXCEPT ![t] = "Taken"]
    /\ detached' = detached \cup {t}
    /\ UNCHANGED <<result, cancelled, poolVars, group, children, scopes,
                   left, waitVars, ran, delivered>>

Innermost(a) == scopes[a][Len(scopes[a])]
PopScope(a)  == [scopes EXCEPT ![a] = SubSeq(@, 1, Len(@) - 1)]

\* Handles are bound inside the scope's block; at its end those that were
\* not consumed go out of reach.
DropHandles(a) ==
    [t \in Tasks |-> IF handle[t] = a /\ group[t] = Innermost(a)
                     THEN None ELSE handle[t]]

\* __edda_task_group_join at the end of a scope: take the children out of
\* the group and wait for each in turn.
JoinStart(a) ==
    /\ Runs(a) /\ scopes[a] # <<>>
    /\ todo' = [todo EXCEPT ![a] = children[Innermost(a)]]
    /\ joining' = [joining EXCEPT ![a] = Innermost(a)]
    /\ children' = [children EXCEPT ![Innermost(a)] = <<>>]
    /\ handle' = DropHandles(a)
    /\ UNCHANGED <<taskVars, poolVars, group, scopes, left, asleep,
                   histVars>>

\* The drain loop is over: the group is freed and the scope is left.
JoinEnd(a) ==
    /\ joining[a] # None /\ todo[a] = <<>>
    /\ joining' = [joining EXCEPT ![a] = None]
    /\ scopes' = PopScope(a)
    /\ left' = left \cup {joining[a]}
    /\ UNCHANGED <<taskVars, poolVars, handle, group, children, todo,
                   asleep, histVars>>

\* A scope body that ends in `return` has no current block any more, so the
\* lowering emits no join and control leaves the scope at once.
EarlyExit(a) ==
    /\ EarlyExits
    /\ Runs(a) /\ scopes[a] # <<>>
    /\ scopes' = PopScope(a)
    /\ left' = left \cup {Innermost(a)}
    /\ handle' = DropHandles(a)
    /\ UNCHANGED <<taskVars, poolVars, group, children, waitVars, histVars>>

-----------------------------------------------------------------------------
(* wait_and_take, the loop both await and join block in.                   *)

\* Sleep while the task is Pending.
WaitSleep(a) ==
    /\ todo[a] # <<>> /\ ~asleep[a]
    /\ state[Head(todo[a])] = "Pending"
    /\ asleep' = [asleep EXCEPT ![a] = TRUE]
    /\ UNCHANGED <<taskVars, poolVars, clientVars, todo, joining, histVars>>

\* The pointer an actor gets: the result if it is the first to see
\* Completed, null if somebody took it.  Only await has a caller to give the
\* pointer to; join drops it.
TakeResult(t) == IF state[t] = "Completed" THEN result[t] ELSE "null"

\* Mutant of Take: `if` instead of `loop` around the wait, so a thread that
\* wakes up spuriously takes a Pending task.
TakeUnchecked(a) ==
    /\ todo[a] # <<>> /\ ~asleep[a]
    /\ LET t == Head(todo[a])
       IN  /\ state' = [state EXCEPT ![t] = "Taken"]
           /\ delivered' = IF joining[a] = None
                           THEN [delivered EXCEPT ![t] = @ \cup {<<a, TakeResult(t)>>}]
                           ELSE delivered
    /\ todo' = [todo EXCEPT ![a] = Tail(@)]
    /\ UNCHANGED <<result, cancelled, poolVars, clientVars, asleep, joining,
                   detached, ran>>

Take(a) ==
    /\ todo[a] # <<>> /\ ~asleep[a]
    /\ LET t == Head(todo[a])
       IN  /\ state[t] # "Pending"
           /\ state' = [state EXCEPT ![t] = "Taken"]
           /\ delivered' = IF joining[a] = None
                           THEN [delivered EXCEPT ![t] = @ \cup {<<a, TakeResult(t)>>}]
                           ELSE delivered
    /\ todo' = [todo EXCEPT ![a] = Tail(@)]
    /\ UNCHANGED <<result, cancelled, poolVars, clientVars, asleep, joining,
                   detached, ran>>

\* Condvar::wait may return without a notification.
SpuriousWake(a) ==
    /\ asleep[a]
    /\ asleep' = [asleep EXCEPT ![a] = FALSE]
    /\ UNCHANGED <<taskVars, poolVars, clientVars, todo, joining, histVars>>

-----------------------------------------------------------------------------
(* worker_loop and the job closure of __edda_task_spawn.                   *)

\* Lock the receiver.
WorkerLock(w) ==
    /\ pc[w] = "idle" /\ rx = None
    /\ rx' = w
    /\ pc' = [pc EXCEPT ![w] = "recv"]
    /\ UNCHANGED <<taskVars, queue, job, clientVars, waitVars, histVars>>

\* Mutant of WorkerRecv: the guard lives as long as the job it received.
RecvHoldingLock(w) ==
    /\ pc[w] = "recv" /\ queue # <<>>
    /\ queue' = Tail(queue)
    /\ job' = [job EXCEPT ![w] = Head(queue)]
    /\ pc' = [pc EXCEPT ![w] = "check"]
    /\ UNCHANGED <<taskVars, rx, clientVars, waitVars, histVars>>

\* Mutant of WorkerRecv: the job is read but not removed.
RecvPeeking(w) ==
    /\ pc[w] = "recv" /\ queue # <<>>
    /\ job' = [job EXCEPT ![w] = Head(queue)]
    /\ rx' = None
    /\ pc' = [pc EXCEPT ![w] = "check"]
    /\ UNCHANGED <<taskVars, queue, clientVars, waitVars, histVars>>

\* recv returns a job; the guard is dropped before the job runs.
WorkerRecv(w) ==
    /\ pc[w] = "recv" /\ queue # <<>>
    /\ queue' = Tail(queue)
    /\ job' = [job EXCEPT ![w] = Head(queue)]
    /\ rx' = None
    /\ pc' = [pc EXCEPT ![w] = "check"]
    /\ UNCHANGED <<taskVars, clientVars, waitVars, histVars>>

\* Mutant of JobCheck: a cancelled job is dropped without complete().
CheckDroppingJob(w) ==
    /\ pc[w] = "check"
    /\ IF cancelled[job[w]]
       THEN /\ pc' = [pc EXCEPT ![w] = "idle"]
            /\ job' = [job EXCEPT ![w] = None]
            /\ UNCHANGED ran
       ELSE /\ pc' = [pc EXCEPT ![w] = "body"]
            /\ ran' = ran \cup {job[w]}
            /\ UNCHANGED job
    /\ UNCHANGED <<taskVars, queue, rx, clientVars, waitVars, detached,
                   delivered>>

\* The job reads the flag: a cancelled task is skipped with a null result.
JobCheck(w) ==
    /\ pc[w] = "check"
    /\ IF cancelled[job[w]]
       THEN /\ pc' = [pc EXCEPT ![w] = "complete"]
            /\ result' = [result EXCEPT ![job[w]] = "null"]
            /\ UNCHANGED ran
       ELSE /\ pc' = [pc EXCEPT ![w] = "body"]
            /\ ran' = ran \cup {job[w]}
            /\ UNCHANGED result
    /\ UNCHANGED <<state, cancelled, queue, rx, job, clientVars, waitVars,
                   detached, delivered>>

\* What the spawn shim of a task returns once the body ran: a heap buffer
\* with the result, or null when the body's type is unit or never.
BodyResult(t) == IF t \in UnitTasks THEN "null" ELSE "buf"

\* body_fn returns; its scopes are all left.
BodyReturn(w) ==
    /\ pc[w] = "body" /\ Runs(job[w])
    /\ scopes[job[w]] = <<>>
    /\ result' = [result EXCEPT ![job[w]] = BodyResult(job[w])]
    /\ pc' = [pc EXCEPT ![w] = "complete"]
    /\ UNCHANGED <<state, cancelled, queue, rx, job, clientVars, waitVars,
                   histVars>>

\* Mutant of Complete: a detached task's result is stored all the same.
CompleteTaken(w) ==
    /\ pc[w] = "complete"
    /\ pc' = [pc EXCEPT ![w] = "notify"]
    /\ state' = [state EXCEPT ![job[w]] = "Completed"]
    /\ UNCHANGED <<result, cancelled, queue, rx, job, clientVars, waitVars,
                   histVars>>

\* Mutant of Complete: no notification after the store.
CompleteSilent(w) ==
    /\ pc[w] = "complete"
    /\ pc' = [pc EXCEPT ![w] = "idle"]
    /\ job' = [job EXCEPT ![w] = None]
    /\ state' = [state EXCEPT ![job[w]] =
                    IF @ = "Taken" THEN "Taken" ELSE "Completed"]
    /\ UNCHANGED <<result, cancelled, queue, rx, clientVars, waitVars,
                   histVars>>

\* complete(): drop the result of a task that is already Taken, store it
\* otherwise.
Complete(w) ==
    /\ pc[w] = "complete"
    /\ IF state[job[w]] = "Taken"
       THEN /\ pc' = [pc EXCEPT ![w] = "idle"]
            /\ job' = [job EXCEPT ![w] = None]
            /\ UNCHANGED state
       ELSE /\ pc' = [pc EXCEPT ![w] = "notify"]
            /\ state' = [state EXCEPT ![job[w]] = "Completed"]
            /\ UNCHANGED job
    /\ UNCHANGED <<result, cancelled, queue, rx, clientVars, waitVars,
                   histVars>>

\* complete(): the mutex is released; wake every waiter of the task.
Notify(w) ==
    /\ pc[w] = "notify"
    /\ asleep' = [a \in Actors |->
                    asleep[a] /\ Head(todo[a]) # job[w]]
    /\ pc' = [pc EXCEPT ![w] = "idle"]
    /\ job' = [job EXCEPT ![w] = None]
    /\ UNCHANGED <<taskVars, queue, rx, clientVars, todo, joining, histVars>>

-----------------------------------------------------------------------------
Call(a) ==
    \/ \E g \in Groups : GroupOpen(a, g)
    \/ \E g \in Groups \cup {None}, t \in Tasks, m \in Tasks \cup {None} :
          Spawn(a, g, t, m)
    \/ \E t \in Tasks : Await(a, t)
    \/ \E t \in Tasks : CancelAndAwait(a, t)
    \/ \E t \in Tasks : Cancel(a, t)
    \/ \E t \in Tasks : Detach(a, t)
    \/ EarlyExit(a)

Wait(a) == WaitSleep(a) \/ Take(a) \/ JoinEnd(a)

Worker(w) ==
    \/ WorkerLock(w) \/ WorkerRecv(w) \/ JobCheck(w)
    \/ BodyReturn(w) \/ Complete(w) \/ Notify(w)

Next ==
    \/ \E a \in Actors : Call(a) \/ JoinStart(a) \/ Wait(a) \/ SpuriousWake(a)
    \/ \E w \in Workers : Worker(w)

Spec == Init /\ [][Next]_vars

\* The OS runs every thread that is not blocked.  A body that is free to
\* return does so, and code inside a scope reaches the scope's end: a task
\* that loops forever would keep its awaiter waiting by design.
Fairness ==
    /\ \A a \in Actors : WF_vars(Wait(a)) /\ WF_vars(JoinStart(a))
    /\ \A w \in Workers : WF_vars(Worker(w))

FairSpec == Spec /\ Fairness
-----------------------------------------------------------------------------
(* Properties.                                                             *)

\* The worker still has to finish the job of task t: run it or store its
\* result.
Busy(w, t) == job[w] = t /\ pc[w] \in {"check", "body", "complete"}

\* A task whose state is Pending is queued or in the hands of a worker that
\* has not completed it: neither the channel nor complete() loses a job, so
\* whoever waits for the task waits for something that can still happen.
NoJobLost ==
    \A t \in Tasks : state[t] = "Pending" =>
        t \in Elems(queue) \/ \E w \in Workers : Busy(w, t)

\* A job is in one place only: it is not queued twice, no two workers have
\* it, and a worker never has a job that is still queued.  So no body runs
\* twice and no two threads complete one task.
OneJobPerTask ==
    /\ \A i, j \in 1..Len(queue) : queue[i] = queue[j] => i = j
    /\ \A w \in Workers : job[w] \notin Elems(queue)
    /\ \A v, w \in Workers : job[v] = job[w] /\ job[v] # None => v = w

\* A scope that was left has no child that is queued or running, except the
\* detached ones: "the scope cannot exit while children run".
ScopeWaitsForChildren ==
    \A t \in Tasks \ detached : group[t] \in left =>
        /\ t \notin Elems(queue)
        /\ \A w \in Workers : ~Busy(w, t)

\* Nobody sleeps on a task that is past Pending unless a worker is about to
\* notify its waiters: the store and the notification of complete() cannot
\* miss a consumer that checked the state and went to sleep.
NoLostWakeup ==
    \A a \in Actors : asleep[a] =>
        \/ state[Head(todo[a])] = "Pending"
        \/ \E w \in Workers : pc[w] = "notify" /\ job[w] = Head(todo[a])

\* Awaiting a task whose body ran returns what the body returned: the result
\* buffer, or null for a body without a result.  Awaiting one whose body did
\* not run returns null, and only a task that was cancelled before it started
\* is not run.  So neither a join nor a detach takes a result from under an
\* await, and a caller that reads the buffer reads one that was written.
AwaitReturnsResult ==
    \A t \in Tasks : \A a \in Actors : \A r \in {"null", "buf"} :
        <<a, r>> \in delivered[t] =>
            IF t \in ran THEN r = BodyResult(t)
                         ELSE r = "null" /\ cancelled[t]

\* Every worker is held by a body that waits for a task that is not done.
Starved ==
    \A w \in Workers :
        /\ pc[w] = "body" /\ todo[job[w]] # <<>>
        /\ state[Head(todo[job[w]])] = "Pending"

\* Every blocking call (await, cancel_and_await, group_join) returns, unless the
\* pool is starved: a body that blocks in wait_and_take keeps its worker, and
\* when all workers wait for queued tasks nothing moves.  No other order of
\* completions, cancels and sleeps holds a call up.
CallsReturn ==
    \A a \in Actors :
        (todo[a] # <<>> \/ joining[a] # None)
            ~> (todo[a] = <<>> /\ joining[a] = None) \/ Starved

-----------------------------------------------------------------------------
(* The runtime implements the one-shot cells of TaskCell.                  *)

Got == [t \in Tasks |-> {a \in Actors : <<a, "buf">> \in delivered[t]}]

Cell == INSTANCE TaskCell WITH cell <- state, got <- Got

\* Every step of the runtime is, for each task, a step of a one-shot result
\* cell: created once, filled at most once, emptied for good at most once,
\* and delivered to the one actor that empties it while it is full.
ImplementsCell == Cell!Spec
=============================================================================
