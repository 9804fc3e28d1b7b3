------------------------------- MODULE JobQueue -------------------------------
(***************************************************************************)
(* The persistent leased job queue of comparisons/job-queue/rust.          *)
(*                                                                         *)
(* Every call takes the queue's mutex, ticks the state (State::tick),      *)
(* changes it in memory and saves a snapshot of all of it before it        *)
(* returns, so one call is one action.  A call that is refused returns     *)
(* after the tick and saves nothing.  A save can fail after the change in  *)
(* memory, before or after the new snapshot got its name, and the process  *)
(* can be killed at any time and reopened on the last snapshot.            *)
(*                                                                         *)
(* Left out: payloads, reasons and error kinds, the audit log, and the     *)
(* counters that are not about a job's end (nothing reads them back).      *)
(* A dependency list is a set: `validate_dependencies` refuses duplicates. *)
(* A job's sequence number is its id: both counters advance together.      *)
(***************************************************************************)
EXTENDS Naturals, FiniteSets, Sequences

CONSTANTS
    MaxJobs,        \* bound: jobs enqueued in a behaviour
    MaxTime,        \* bound: instants
    Workers,
    NoWorker,
    Namespaces,
    Caps,           \* capabilities
    CapLists,       \* what register_worker is called with
    Priorities,     \* a set of numbers
    Requests,       \* what enqueue is called with
    Leases,         \* durations that acquire and heartbeat are called with
    NsConfigs,      \* configurations register_namespace is called with
    DefaultConfig,  \* Config::namespace_config of an unregistered namespace
    BackoffBase,
    BackoffCap,
    JitterPercent,  \* Config::jitter_fraction
    RequireRegistration,
    MaxFaults       \* bound: saves that fail and clocks that start again

Ids == 1 .. MaxJobs

Configs == [active : Nat, dead : Nat, attempts : Nat]

ASSUME QueueAssumption ==
    /\ MaxJobs \in Nat
    /\ MaxTime \in Nat
    /\ NoWorker \notin Workers
    /\ Priorities \subseteq Nat
    /\ Requests \subseteq [ns : Namespaces, prio : Priorities, sched : Nat,
                            deps : SUBSET Ids, caps : SUBSET Caps]
    /\ CapLists \subseteq SUBSET Caps
    /\ Leases \subseteq Nat
    /\ NsConfigs \cup {DefaultConfig} \subseteq Configs
    /\ BackoffBase \in Nat
    /\ BackoffCap \in Nat
    /\ JitterPercent \in 0 .. 100
    /\ RequireRegistration \in BOOLEAN
    /\ MaxFaults \in Nat

\* No namespace drops a dead job at once: see GiveUp.
ASSUME RingAssumption ==
    \A config \in NsConfigs \cup {DefaultConfig} : config.dead > 0

VARIABLES
    mem,    \* Inner.state
    disk,   \* the snapshot a restart loads
    now,    \* what the process's clock shows
    epoch,  \* the instant at which that clock started
    faults, \* how many saves failed and clocks started again
    told,   \* observer: what successful replies told the clients
    held    \* observer: until when a worker counts on its lease, 0 for not

vars == <<mem, disk, now, epoch, faults, told, held>>

-----------------------------------------------------------------------------
(* Jobs and states *)

Terminal == {"completed", "cancelled", "dead"}

Active == {"pending", "retry", "scheduled"}

JobStates == Terminal \cup Active \cup {"leased"}

Job == [ns : Namespaces, prio : Nat, fails : Nat, sched : Nat,
        deps : SUBSET Ids, kids : SUBSET Ids, left : Nat,
        caps : SUBSET Caps, st : JobStates, at : Nat,
        by : Workers \cup {NoWorker}]

\* The jobs of s that have not ended.
Live(s) == {i \in DOMAIN s.jobs : s.jobs[i].st \notin Terminal}

\* A job in a new state, without lease, retry or schedule.
Moved(j, st) == [j EXCEPT !.st = st, !.at = 0, !.by = NoWorker]

Empty == [next |-> 1, jobs |-> <<>>, ns |-> <<>>, workers |-> <<>>]

\* State::namespace_mut.
EnsureNs(s, n, config) ==
    IF n \in DOMAIN s.ns
    THEN s
    ELSE [s EXCEPT !.ns = [m \in DOMAIN s.ns \cup {n} |->
             IF m = n
             THEN [config |-> config, ring |-> <<>>, enqueued |-> 0,
                   completed |-> 0, cancelled |-> 0, dead |-> 0]
             ELSE s.ns[m]]]

\* Mutant of Tick: what is due at the next instant is moved now.
TickEarly(s, t) ==
    [s EXCEPT !.jobs = [i \in DOMAIN s.jobs |->
        LET j == s.jobs[i]
        IN IF j.st \in {"scheduled", "retry", "leased"} /\ j.at <= t + 1
           THEN Moved(j, "pending")
           ELSE j]]

\* State::tick: due schedules and retries become pending, as do expired leases.
Tick(s, t) ==
    [s EXCEPT !.jobs = [i \in DOMAIN s.jobs |->
        LET j == s.jobs[i]
        IN IF j.st \in {"scheduled", "retry", "leased"} /\ j.at <= t
           THEN Moved(j, "pending")
           ELSE j]]

ActiveIn(s, n) ==
    {i \in DOMAIN s.jobs : s.jobs[i].ns = n /\ s.jobs[i].st \in Active}

\* State::is_acquirable for a worker with these capabilities.
Acquirable(s, caps) ==
    {i \in DOMAIN s.jobs : /\ s.jobs[i].st = "pending"
                           /\ s.jobs[i].left = 0
                           /\ s.jobs[i].caps \subseteq caps}

\* State::next_acquirable: the oldest of the highest priority.
Precedes(s, i, k) ==
    \/ s.jobs[i].prio > s.jobs[k].prio
    \/ s.jobs[i].prio = s.jobs[k].prio /\ i <= k

\* resolve_worker_caps.
CapsOf(s, w) == IF w \in DOMAIN s.workers THEN s.workers[w] ELSE {}

IsHolder(s, w, i) ==
    i \in DOMAIN s.jobs /\ s.jobs[i].st = "leased" /\ s.jobs[i].by = w

\* Mutant of Cascade: dependents of dependents are not collected.
CascadeShallow(s, roots) == roots \cap Live(s)

\* Mutant of Cascade: the roots are collected whether they have ended or not.
CascadeEnded(s, roots) == roots \cap DOMAIN s.jobs

\* State::cascade_collect from several roots: what can be reached from them
\* through dependents without passing a job that has ended.
Cascade(s, roots) ==
    {i \in Live(s) :
        \A S \in SUBSET Live(s) :
            (/\ roots \cap Live(s) \subseteq S
             /\ \A k \in S : s.jobs[k].kids \cap Live(s) \subseteq S)
            => i \in S}

\* Mutant of CascadeCancel: only the roots are counted.
CancelUncounted(s, roots) ==
    [s EXCEPT
       !.jobs = [i \in DOMAIN s.jobs |->
           IF i \in Cascade(s, roots) THEN Moved(s.jobs[i], "cancelled") ELSE s.jobs[i]],
       !.ns = [n \in DOMAIN s.ns |->
           [s.ns[n] EXCEPT !.cancelled =
               @ + Cardinality({i \in roots \cap Live(s) : s.jobs[i].ns = n})]]]

\* cascade_cancel.
CascadeCancel(s, roots) ==
    LET gone == Cascade(s, roots)
    IN [s EXCEPT
          !.jobs = [i \in DOMAIN s.jobs |->
              IF i \in gone THEN Moved(s.jobs[i], "cancelled") ELSE s.jobs[i]],
          !.ns = [n \in DOMAIN s.ns |->
              [s.ns[n] EXCEPT !.cancelled =
                  @ + Cardinality({i \in gone : s.jobs[i].ns = n})]]]

\* terminal_dead_letter: the ring drops its oldest entries, jobs included.
RingOf(s, i) == Append(s.ns[s.jobs[i].ns].ring, i)

Over(s, i) ==
    LET n == Len(RingOf(s, i))
        room == s.ns[s.jobs[i].ns].config.dead
    IN IF n > room THEN n - room ELSE 0

Dropped(s, i) == {RingOf(s, i)[k] : k \in 1 .. Over(s, i)}

DeadLetter(s, i) ==
    [s EXCEPT
       !.jobs = [k \in DOMAIN s.jobs \ Dropped(s, i) |->
           IF k = i THEN Moved([s.jobs[i] EXCEPT !.fails = s.jobs[i].fails + 1], "dead")
           ELSE s.jobs[k]],
       !.ns = [s.ns EXCEPT
           ![s.jobs[i].ns].ring = SubSeq(RingOf(s, i), Over(s, i) + 1, Len(RingOf(s, i))),
           ![s.jobs[i].ns].dead = @ + 1]]

\* compute_backoff: doubling up to the cap, and at most JitterPercent more.
Backoff(attempt) ==
    LET unbounded == BackoffBase * 2^(attempt - 1)
        bounded == IF unbounded > BackoffCap THEN BackoffCap ELSE unbounded
    IN {d \in 0 .. 2 * BackoffCap :
           bounded <= d /\ d <= bounded + (bounded * JitterPercent) \div 100}

-----------------------------------------------------------------------------
(* What each operation makes of a ticked state *)

\* validate_dependencies; a cycle cannot close, because a new job's
\* dependencies exist before it does.
ValidDeps(s, r) ==
    /\ r.deps \subseteq DOMAIN s.jobs
    /\ \A d \in r.deps : s.jobs[d].ns = r.ns

\* Mutant of Admit: the id counter stays.
AdmitSameId(s, r, t) ==
    [s EXCEPT !.jobs = [i \in DOMAIN s.jobs \cup {s.next} |->
                   IF i = s.next
                   THEN [ns |-> r.ns, prio |-> r.prio, fails |-> 0, sched |-> r.sched,
                         deps |-> {}, kids |-> {}, left |-> 0, caps |-> r.caps,
                         by |-> NoWorker, st |-> "pending", at |-> 0]
                   ELSE s.jobs[i]],
              !.ns[r.ns].enqueued = @ + 1]

NewJob(s, r, t) ==
    [ns |-> r.ns, prio |-> r.prio, fails |-> 0, sched |-> r.sched,
     deps |-> r.deps, kids |-> {}, left |-> Cardinality(r.deps \cap Live(s)),
     caps |-> r.caps, by |-> NoWorker,
     st |-> IF r.sched > t THEN "scheduled" ELSE "pending",
     at |-> IF r.sched > t THEN r.sched ELSE 0]

\* The new job is a dependent of the dependencies that are still open.
Added(s, r, t) ==
    [s EXCEPT
       !.next = s.next + 1,
       !.jobs = [i \in DOMAIN s.jobs \cup {s.next} |->
           IF i = s.next THEN NewJob(s, r, t)
           ELSE IF i \in r.deps \cap Live(s)
                THEN [s.jobs[i] EXCEPT !.kids = s.jobs[i].kids \cup {s.next}]
                ELSE s.jobs[i]],
       !.ns = [s.ns EXCEPT ![r.ns].enqueued = @ + 1]]

\* The rest of enqueue: the new job is cancelled at once if one of its
\* dependencies has already ended unsuccessfully.
Admit(s, r, t) ==
    IF \E d \in r.deps : s.jobs[d].st \in {"cancelled", "dead"}
    THEN CascadeCancel(Added(s, r, t), {s.next})
    ELSE Added(s, r, t)

\* acquire and heartbeat write the same lease.
Lease(s, i, w, until) ==
    [s EXCEPT !.jobs[i].st = "leased", !.jobs[i].at = until, !.jobs[i].by = w]

\* complete: `remaining_deps` of the dependents goes down, but not below zero.
Finish(s, i) ==
    [s EXCEPT
       !.jobs = [k \in DOMAIN s.jobs |->
           IF k = i THEN Moved(s.jobs[i], "completed")
           ELSE IF k \in s.jobs[i].kids /\ s.jobs[k].left > 0
                THEN [s.jobs[k] EXCEPT !.left = s.jobs[k].left - 1]
                ELSE s.jobs[k]],
       !.ns = [s.ns EXCEPT ![s.jobs[i].ns].completed = @ + 1]]

\* fail on the last attempt: the dependents are read after the ring was
\* trimmed, so none are found when the ring has no room even for this job.
GiveUp(s, i) ==
    LET d == DeadLetter(s, i)
    IN CascadeCancel(d, IF i \in DOMAIN d.jobs THEN d.jobs[i].kids ELSE {})

\* fail on an earlier attempt.
Retried(j, ready) ==
    [j EXCEPT !.st = "retry", !.by = NoWorker, !.fails = j.fails + 1,
              !.at = IF j.sched > ready THEN j.sched ELSE ready]

Retry(s, i, ready) == [s EXCEPT !.jobs[i] = Retried(s.jobs[i], ready)]

\* WorkerRegistry::register.
Register(s, w, caps) ==
    [s EXCEPT !.workers = [v \in DOMAIN s.workers \cup {w} |->
                               IF v = w THEN caps ELSE s.workers[v]]]

\* deregister_worker: every lease it holds ends.
Release(s, w) ==
    [s EXCEPT
       !.jobs = [i \in DOMAIN s.jobs |->
           IF IsHolder(s, w, i) THEN Moved(s.jobs[i], "pending") ELSE s.jobs[i]],
       !.workers = [v \in DOMAIN s.workers \ {w} |-> s.workers[v]]]

-----------------------------------------------------------------------------
(* The calls.  ok says whether the save of the new state succeeded. *)

Ticked == Tick(mem, now)

\* What real time it is.
Instant == epoch + now

\* Until when a lease of duration d, given now, is counted on.
Until(d) == IF d = 0 THEN 0 ELSE Instant + d

\* Mutant of Save: success is reported before the rename is sure.
SaveUnsynced(s, ok) ==
    /\ mem' = s
    /\ disk' \in {disk, s}
    /\ UNCHANGED <<now, epoch, faults>>

\* save: write a temporary file, sync it, rename it, sync the directory.  An
\* error leaves either snapshot; the change in memory stays.
Save(s, ok) ==
    /\ mem' = s
    /\ IF ok
       THEN disk' = s /\ UNCHANGED faults
       ELSE /\ faults < MaxFaults
            /\ disk' \in {disk, s}
            /\ faults' = faults + 1
    /\ UNCHANGED <<now, epoch>>

\* A call that returns early has ticked and saved nothing.
Refuse(s) ==
    /\ mem' = s
    /\ UNCHANGED <<disk, now, epoch, faults, told>>

Enqueue(r, ok) ==
    LET s == EnsureNs(Ticked, r.ns, DefaultConfig)
        full == Cardinality(ActiveIn(s, r.ns)) >= s.ns[r.ns].config.active
    IN /\ UNCHANGED held
       /\ \/ /\ full \/ ~ValidDeps(s, r)
             /\ Refuse(s)
          \/ /\ ~full /\ ValidDeps(s, r)
             /\ s.next \in Ids
             /\ Save(Admit(s, r, now), ok)
             /\ told' = IF ok THEN [told EXCEPT !.ids = @ \cup {s.next}] ELSE told

Acquire(w, d, ok) ==
    LET known == w \in DOMAIN Ticked.workers
        offer == IF RequireRegistration /\ ~known
                 THEN {} ELSE Acquirable(Ticked, CapsOf(Ticked, w))
    IN \/ /\ offer = {}
          /\ Refuse(Ticked)
          /\ UNCHANGED held
       \/ \E i \in offer :
             /\ \A k \in offer : Precedes(Ticked, i, k)
             /\ Save(Lease(Ticked, i, w, now + d), ok)
             /\ held' = IF ok THEN [held EXCEPT ![w][i] = Until(d)] ELSE held
             /\ UNCHANGED told

Heartbeat(w, i, d, ok) ==
    \/ /\ ~IsHolder(Ticked, w, i)
       /\ Refuse(Ticked)
       /\ UNCHANGED held
    \/ /\ IsHolder(Ticked, w, i)
       /\ Save(Lease(Ticked, i, w, now + d), ok)
       /\ held' = IF ok \/ Instant + d < held[w][i]
                  THEN [held EXCEPT ![w][i] = Until(d)] ELSE held
       /\ UNCHANGED told

\* A worker that calls complete or fail works on the job no more.
Complete(w, i, ok) ==
    /\ held' = [held EXCEPT ![w][i] = 0]
    /\ \/ ~IsHolder(Ticked, w, i) /\ Refuse(Ticked)
       \/ /\ IsHolder(Ticked, w, i)
          /\ Save(Finish(Ticked, i), ok)
          /\ told' = IF ok THEN [told EXCEPT !.done = @ \cup {i}] ELSE told

Fail(w, i, ok) ==
    /\ held' = [held EXCEPT ![w][i] = 0]
    /\ \/ ~IsHolder(Ticked, w, i) /\ Refuse(Ticked)
       \/ /\ IsHolder(Ticked, w, i)
          /\ LET fails == Ticked.jobs[i].fails + 1
             IN IF fails >= Ticked.ns[Ticked.jobs[i].ns].config.attempts
                THEN Save(GiveUp(Ticked, i), ok)
                ELSE \E delay \in Backoff(fails) :
                        Save(Retry(Ticked, i, now + delay), ok)
          /\ UNCHANGED told

\* cancel saves even when there is nothing to cancel.
Cancel(i, ok) ==
    /\ Save(CascadeCancel(Ticked, {i}), ok)
    /\ UNCHANGED <<told, held>>

Promote(i, p, ok) ==
    LET may == /\ i \in DOMAIN Ticked.jobs
               /\ Ticked.jobs[i].st \in {"pending", "scheduled"}
               /\ p > Ticked.jobs[i].prio
    IN /\ UNCHANGED held
       /\ \/ ~may /\ Refuse(Ticked)
          \/ /\ may
             /\ Save([Ticked EXCEPT !.jobs[i].prio = p], ok)
             /\ UNCHANGED told

RegisterWorker(w, caps, ok) ==
    /\ Save(Register(Ticked, w, caps), ok)
    /\ UNCHANGED <<told, held>>

\* A worker is deregistered by someone who knows that it has stopped.
DeregisterWorker(w, ok) ==
    /\ Save(Release(Ticked, w), ok)
    /\ held' = [held EXCEPT ![w] = [i \in Ids |-> 0]]
    /\ UNCHANGED told

\* register_namespace does not tick.
RegisterNamespace(n, config, ok) ==
    /\ Save([EnsureNs(mem, n, config) EXCEPT !.ns[n].config = config], ok)
    /\ UNCHANGED <<told, held>>

\* metrics, active_count and leased_count tick the state they read.
Observe ==
    /\ Refuse(Ticked)
    /\ UNCHANGED held

AdvanceClock ==
    /\ Instant < MaxTime
    /\ now' = now + 1
    /\ held' = [w \in Workers |-> [i \in Ids |->
                   IF held[w][i] > Instant + 1 THEN held[w][i] ELSE 0]]
    /\ UNCHANGED <<mem, disk, epoch, faults, told>>

\* The process is killed and the queue opened again on its last snapshot.  The
\* caller supplies the clock: one that went on, or a SystemClock, which counts
\* from the start of its process.
Reopen ==
    /\ mem' = disk
    /\ \/ UNCHANGED <<now, epoch, faults>>
       \/ /\ faults < MaxFaults
          /\ faults' = faults + 1
          /\ now' = 0
          /\ epoch' = Instant
    /\ UNCHANGED <<disk, told, held>>

-----------------------------------------------------------------------------
Init ==
    /\ mem = Empty
    /\ disk = Empty
    /\ now = 0
    /\ epoch = 0
    /\ faults = 0
    /\ told = [ids |-> {}, done |-> {}]
    /\ held = [w \in Workers |-> [i \in Ids |-> 0]]

Next ==
    \/ \E ok \in BOOLEAN :
          \/ \E r \in Requests : Enqueue(r, ok)
          \/ \E w \in Workers, d \in Leases : Acquire(w, d, ok)
          \/ \E w \in Workers, i \in Ids, d \in Leases : Heartbeat(w, i, d, ok)
          \/ \E w \in Workers, i \in Ids : Complete(w, i, ok)
          \/ \E w \in Workers, i \in Ids : Fail(w, i, ok)
          \/ \E i \in Ids : Cancel(i, ok)
          \/ \E i \in Ids, p \in Priorities : Promote(i, p, ok)
          \/ \E w \in Workers, caps \in CapLists : RegisterWorker(w, caps, ok)
          \/ \E w \in Workers : DeregisterWorker(w, ok)
          \/ \E n \in Namespaces, c \in NsConfigs : RegisterNamespace(n, c, ok)
    \/ Observe
    \/ AdvanceClock
    \/ Reopen

Spec == Init /\ [][Next]_vars

-----------------------------------------------------------------------------
(* Properties *)

NsState == [config : Configs, ring : Seq(Ids), enqueued : Nat,
            completed : Nat, cancelled : Nat, dead : Nat]

\* A well-formed State.
StateOK(s) ==
    /\ s = [next |-> s.next, jobs |-> s.jobs, ns |-> s.ns, workers |-> s.workers]
    /\ s.next \in 1 .. MaxJobs + 1
    /\ DOMAIN s.jobs \subseteq 1 .. s.next - 1
    /\ \A i \in DOMAIN s.jobs : s.jobs[i] \in Job /\ s.jobs[i].ns \in DOMAIN s.ns
    /\ DOMAIN s.ns \subseteq Namespaces
    /\ \A n \in DOMAIN s.ns : s.ns[n] \in NsState
    /\ DOMAIN s.workers \subseteq Workers
    /\ \A w \in DOMAIN s.workers : s.workers[w] \subseteq Caps

\* Types: the live state and the snapshot are well formed, and every job's
\* namespace exists (the `expect("namespace exists")` calls of queue.rs).
TypeOK ==
    /\ StateOK(mem)
    /\ StateOK(disk)
    /\ now \in Nat
    /\ epoch \in Nat
    /\ faults \in Nat
    /\ told \in [ids : SUBSET Ids, done : SUBSET Ids]
    /\ held \in [Workers -> [Ids -> Nat]]

\* The dependency gate of a job that has not ended: every dependency is still
\* there and has not failed, one that is open knows the job as a dependent,
\* and `remaining_deps` counts those that are open.
Gated(s, i) ==
    LET deps == s.jobs[i].deps
    IN /\ deps \subseteq DOMAIN s.jobs
       /\ \A d \in deps : /\ s.jobs[d].st \notin {"cancelled", "dead"}
                          /\ d \in Live(s) => i \in s.jobs[d].kids
       /\ s.jobs[i].left = Cardinality(deps \cap Live(s))

\* remaining_deps is a count kept by hand across enqueue, complete, cascades,
\* dead-letter drops, failed saves and restarts.  It is always exact, so a job
\* is offered exactly when its dependencies have completed, and none waits on
\* a dependency that will never complete.
DependenciesCounted ==
    \A s \in {mem, disk} : \A i \in Live(s) : Gated(s, i)

\* No two workers may count on a lease on the same job at the same instant:
\* the lease survives restarts and failed saves (test t19_lease_survives_restart).
ExclusiveHold ==
    \A i \in Ids, v, w \in Workers : held[v][i] > 0 /\ held[w][i] > 0 => v = w

\* What a successful reply said survives a kill and every failed save after
\* it ("SIGKILL-safe", queue.rs:7): a completed job stays completed, and no
\* later job gets an id that a client has been given.
AckedIsDurable ==
    \A s \in {mem, disk} :
        /\ \A i \in told.done : i \in DOMAIN s.jobs /\ s.jobs[i].st = "completed"
        /\ \A i \in told.ids : i < s.next

InState(s, n, st) ==
    {i \in DOMAIN s.jobs : s.jobs[i].ns = n /\ s.jobs[i].st = st}

\* Every job ever admitted is accounted for in the persisted counters, once:
\* it is live, or it ended in the one way that was counted; the dead-letter
\* ring lists exactly the dead jobs that were kept.
JobsAccounted ==
    \A s \in {mem, disk} : \A n \in DOMAIN s.ns :
        LET c == s.ns[n]
        IN /\ c.completed = Cardinality(InState(s, n, "completed"))
           /\ c.cancelled = Cardinality(InState(s, n, "cancelled"))
           /\ {c.ring[k] : k \in DOMAIN c.ring} = InState(s, n, "dead")
           /\ Len(c.ring) = Cardinality(InState(s, n, "dead"))
           /\ c.enqueued = c.completed + c.cancelled + c.dead
                + Cardinality({i \in Live(s) : s.jobs[i].ns = n})

\* u comes after s: a job that had ended stays as it ended, unless it is dead
\* and a ring dropped it; what was dropped does not come back, and no id that
\* was given out is given out again.
Final(s, u) ==
    /\ s.next <= u.next
    /\ \A i \in DOMAIN u.jobs : i \in DOMAIN s.jobs \/ i >= s.next
    /\ \A i \in DOMAIN s.jobs \ Live(s) :
          IF i \in DOMAIN u.jobs
          THEN u.jobs[i].st = s.jobs[i].st
          ELSE s.jobs[i].st = "dead"

\* Terminal states are final in the snapshot (rust/README.md:68 and :100),
\* whatever saves fail and whenever the process is killed: no late complete,
\* fail, cancel or cascade, and no state written by a process that knew more or
\* less than the snapshot it was started from, undoes an end that was saved.
EndsAreFinal == [][Final(disk, disk')]_vars
=============================================================================
