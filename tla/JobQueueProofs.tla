--------------------------- MODULE JobQueueProofs ---------------------------
(* Proofs about the job queue. *)
EXTENDS JobQueue, FiniteSetTheorems, TLAPS

\* `dependents` lists only jobs that name this one in `depends_on`.
Links(s) ==
    \A i \in DOMAIN s.jobs :
        /\ s.jobs[i].kids \subseteq 1 .. s.next - 1
        /\ \A k \in s.jobs[i].kids \cap DOMAIN s.jobs : i \in s.jobs[k].deps

\* A dead-letter ring lists only jobs that are dead, if they are still there.
Rings(s) ==
    \A n \in DOMAIN s.ns :
        /\ s.ns[n].config.dead > 0
        /\ \A k \in DOMAIN s.ns[n].ring :
              /\ s.ns[n].ring[k] < s.next
              /\ s.ns[n].ring[k] \in DOMAIN s.jobs
                    => s.jobs[s.ns[n].ring[k]].st = "dead"

\* A sound state in which the jobs of roots may not be gated.
Almost(s, roots) ==
    /\ StateOK(s)
    /\ Links(s)
    /\ Rings(s)
    /\ \A i \in Live(s) \ roots : Gated(s, i)

Good(s) == Almost(s, {})

\* Nothing that was promised is taken back.
Keeps(s, u) ==
    /\ s.next <= u.next
    /\ \A i \in DOMAIN s.jobs : s.jobs[i].st = "completed"
          => i \in DOMAIN u.jobs /\ u.jobs[i].st = "completed"

-----------------------------------------------------------------------------
\* There are finitely many job ids.
LEMMA IdsFinite == IsFiniteSet(Ids)
BY FS_Interval, QueueAssumption DEF Ids

\* A change of jobs only, job by job, that keeps the graph and the ends.
LEMMA SameGraph ==
    ASSUME NEW s, NEW u, NEW roots, Almost(s, roots),
           u.next = s.next, u.ns = s.ns,
           DOMAIN u.jobs = DOMAIN s.jobs, StateOK(u),
           \A i \in DOMAIN s.jobs :
              /\ u.jobs[i].deps = s.jobs[i].deps
              /\ u.jobs[i].kids = s.jobs[i].kids
              /\ u.jobs[i].left = s.jobs[i].left
              /\ u.jobs[i].st \in Terminal \/ s.jobs[i].st \in Terminal
                    => u.jobs[i].st = s.jobs[i].st
    PROVE  Almost(u, roots) /\ Keeps(s, u)
<1>1. Live(u) = Live(s)
  BY DEF Live
<1>2. Links(u)
  BY DEF Links, Almost
<1>3. Rings(u)
  BY DEF Rings, Almost, Terminal
<1>4. ASSUME NEW i \in Live(u) \ roots PROVE Gated(u, i)
  <2>1. i \in DOMAIN s.jobs /\ Gated(s, i)
    BY <1>1, <1>4 DEF Almost, Live
  <2>2. \A d \in s.jobs[i].deps : d \in DOMAIN s.jobs
    BY <2>1 DEF Gated
  <2> QED  BY <1>1, <2>1, <2>2 DEF Gated, Terminal
<1>5. Keeps(s, u)
  <2>1. s.next \in Nat
    BY QueueAssumption DEF Almost, StateOK
  <2> QED  BY <2>1 DEF Keeps, Terminal
<1> QED  BY <1>2, <1>3, <1>4, <1>5 DEF Almost

\* What tick leaves of a job.
LEMMA TickFields ==
    ASSUME NEW s, StateOK(s), NEW t
    PROVE  /\ Tick(s, t).next = s.next
           /\ Tick(s, t).ns = s.ns
           /\ Tick(s, t).workers = s.workers
           /\ DOMAIN Tick(s, t).jobs = DOMAIN s.jobs
           /\ Tick(s, t) = [next |-> s.next, jobs |-> Tick(s, t).jobs,
                            ns |-> s.ns, workers |-> s.workers]
           /\ \A i \in DOMAIN s.jobs : Tick(s, t).jobs[i] =
                 IF s.jobs[i].st \in {"scheduled", "retry", "leased"} /\ s.jobs[i].at <= t
                 THEN Moved(s.jobs[i], "pending") ELSE s.jobs[i]
<1> DEFINE jobs == [i \in DOMAIN s.jobs |->
        IF s.jobs[i].st \in {"scheduled", "retry", "leased"} /\ s.jobs[i].at <= t
        THEN Moved(s.jobs[i], "pending") ELSE s.jobs[i]]
<1>1. Tick(s, t) = [s EXCEPT !.jobs = jobs]
  BY DEF Tick
<1> HIDE DEF jobs
<1>2. Tick(s, t) = [next |-> s.next, jobs |-> jobs, ns |-> s.ns, workers |-> s.workers]
  BY <1>1 DEF StateOK
<1> QED  BY <1>2 DEF jobs

\* What a move to another state leaves of a job.
LEMMA MovedFields ==
    ASSUME NEW j \in Job, NEW st \in JobStates
    PROVE  /\ Moved(j, st) \in Job
           /\ Moved(j, st).st = st
           /\ Moved(j, st).ns = j.ns
           /\ Moved(j, st).deps = j.deps
           /\ Moved(j, st).kids = j.kids
           /\ Moved(j, st).left = j.left
BY DEF Moved, Job

\* Ticking keeps a good state good.
LEMMA TickGood ==
    ASSUME NEW s, Good(s), NEW t
    PROVE  Good(Tick(s, t)) /\ Keeps(s, Tick(s, t))
<1> DEFINE u == Tick(s, t)
<1>1. StateOK(s)
  BY DEF Good, Almost
<1> HIDE DEF u
<1>2. /\ u.next = s.next /\ u.ns = s.ns /\ u.workers = s.workers
      /\ DOMAIN u.jobs = DOMAIN s.jobs
      /\ u = [next |-> s.next, jobs |-> u.jobs, ns |-> s.ns, workers |-> s.workers]
  BY <1>1, TickFields DEF u
<1>3. ASSUME NEW i \in DOMAIN s.jobs
      PROVE  /\ u.jobs[i] \in Job
             /\ u.jobs[i].ns = s.jobs[i].ns
             /\ u.jobs[i].deps = s.jobs[i].deps
             /\ u.jobs[i].kids = s.jobs[i].kids
             /\ u.jobs[i].left = s.jobs[i].left
             /\ u.jobs[i].st \in Terminal \/ s.jobs[i].st \in Terminal
                    => u.jobs[i].st = s.jobs[i].st
  <2>1. s.jobs[i] \in Job
    BY <1>1 DEF StateOK
  <2>2. "pending" \in JobStates
    BY DEF JobStates, Active
  <2>3. \/ u.jobs[i] = s.jobs[i]
        \/ /\ s.jobs[i].st \in {"scheduled", "retry", "leased"}
           /\ u.jobs[i] = Moved(s.jobs[i], "pending")
    BY <1>1, TickFields DEF u
  <2> QED  BY <2>1, <2>2, <2>3, MovedFields DEF Terminal
<1>4. StateOK(u)
  BY <1>1, <1>2, <1>3 DEF StateOK
<1> QED  BY <1>2, <1>3, <1>4, SameGraph DEF u, Good

-----------------------------------------------------------------------------
(* Changes of one job, of the workers and of the namespaces *)

\* A new record for one job.
LEMMA OneJob ==
    ASSUME NEW s, StateOK(s), NEW i \in DOMAIN s.jobs, NEW j \in Job,
           j.ns = s.jobs[i].ns
    PROVE  LET u == [s EXCEPT !.jobs[i] = j]
           IN /\ StateOK(u)
              /\ u.next = s.next /\ u.ns = s.ns /\ u.workers = s.workers
              /\ DOMAIN u.jobs = DOMAIN s.jobs
              /\ \A k \in DOMAIN s.jobs : u.jobs[k] = IF k = i THEN j ELSE s.jobs[k]
<1> DEFINE jobs == [s.jobs EXCEPT ![i] = j]
<1>1. [s EXCEPT !.jobs[i] = j] = [next |-> s.next, jobs |-> jobs, ns |-> s.ns,
                                  workers |-> s.workers]
  BY DEF StateOK
<1>2. DOMAIN jobs = DOMAIN s.jobs
  OBVIOUS
<1>3. \A k \in DOMAIN s.jobs : jobs[k] = IF k = i THEN j ELSE s.jobs[k]
  OBVIOUS
<1> HIDE DEF jobs
<1> DEFINE u == [next |-> s.next, jobs |-> jobs, ns |-> s.ns, workers |-> s.workers]
<1>4. u.next = s.next /\ u.ns = s.ns /\ u.workers = s.workers /\ u.jobs = jobs
  OBVIOUS
<1>5. StateOK(u)
  BY <1>2, <1>3 DEF StateOK
<1> QED  BY <1>1, <1>2, <1>3, <1>4, <1>5

\* What leasing a job leaves of the state.
LEMMA LeaseFields ==
    ASSUME NEW s, StateOK(s), NEW i \in DOMAIN s.jobs, NEW w \in Workers,
           NEW t \in Nat
    PROVE  LET u == Lease(s, i, w, t)
           IN /\ StateOK(u)
              /\ u.next = s.next /\ u.ns = s.ns /\ u.workers = s.workers
              /\ DOMAIN u.jobs = DOMAIN s.jobs
              /\ \A k \in DOMAIN s.jobs \ {i} : u.jobs[k] = s.jobs[k]
              /\ u.jobs[i].st = "leased" /\ u.jobs[i].at = t /\ u.jobs[i].by = w
              /\ u.jobs[i].deps = s.jobs[i].deps
              /\ u.jobs[i].kids = s.jobs[i].kids
              /\ u.jobs[i].left = s.jobs[i].left
              /\ u.jobs[i].ns = s.jobs[i].ns
<1> DEFINE j == [s.jobs[i] EXCEPT !.st = "leased", !.at = t, !.by = w]
<1>1. s.jobs[i] \in Job
  BY DEF StateOK
<1>2. /\ j \in Job /\ j.ns = s.jobs[i].ns
      /\ j.st = "leased" /\ j.at = t /\ j.by = w
      /\ j.deps = s.jobs[i].deps /\ j.kids = s.jobs[i].kids /\ j.left = s.jobs[i].left
  BY <1>1 DEF Job, JobStates
<1>3. Lease(s, i, w, t) = [s EXCEPT !.jobs[i] = j]
  BY <1>1 DEF Lease, StateOK, Job
<1> HIDE DEF j
<1>4. /\ StateOK([s EXCEPT !.jobs[i] = j])
      /\ [s EXCEPT !.jobs[i] = j].next = s.next
      /\ [s EXCEPT !.jobs[i] = j].ns = s.ns
      /\ [s EXCEPT !.jobs[i] = j].workers = s.workers
      /\ DOMAIN [s EXCEPT !.jobs[i] = j].jobs = DOMAIN s.jobs
      /\ \A k \in DOMAIN s.jobs :
            [s EXCEPT !.jobs[i] = j].jobs[k] = IF k = i THEN j ELSE s.jobs[k]
  BY <1>2, OneJob
<1> QED  BY <1>2, <1>3, <1>4

\* Leasing keeps a good state good.
LEMMA LeaseGood ==
    ASSUME NEW s, Good(s), NEW i \in DOMAIN s.jobs, s.jobs[i].st \notin Terminal,
           NEW w \in Workers, NEW t \in Nat
    PROVE  Good(Lease(s, i, w, t)) /\ Keeps(s, Lease(s, i, w, t))
<1> DEFINE u == Lease(s, i, w, t)
<1>1. StateOK(s)
  BY DEF Good, Almost
<1>2. /\ StateOK(u) /\ u.next = s.next /\ u.ns = s.ns
      /\ DOMAIN u.jobs = DOMAIN s.jobs
      /\ \A k \in DOMAIN s.jobs \ {i} : u.jobs[k] = s.jobs[k]
      /\ u.jobs[i].st = "leased"
      /\ u.jobs[i].deps = s.jobs[i].deps
      /\ u.jobs[i].kids = s.jobs[i].kids
      /\ u.jobs[i].left = s.jobs[i].left
  BY <1>1, LeaseFields
<1> HIDE DEF u
<1> QED  BY <1>2, SameGraph DEF u, Good, Terminal

\* What scheduling a retry leaves of the state.
LEMMA RetryFields ==
    ASSUME NEW s, StateOK(s), NEW i \in DOMAIN s.jobs, NEW t \in Nat
    PROVE  LET u == Retry(s, i, t)
           IN /\ StateOK(u)
              /\ u.next = s.next /\ u.ns = s.ns /\ u.workers = s.workers
              /\ DOMAIN u.jobs = DOMAIN s.jobs
              /\ \A k \in DOMAIN s.jobs \ {i} : u.jobs[k] = s.jobs[k]
              /\ u.jobs[i].st = "retry"
              /\ u.jobs[i].deps = s.jobs[i].deps
              /\ u.jobs[i].kids = s.jobs[i].kids
              /\ u.jobs[i].left = s.jobs[i].left
<1> DEFINE j == Retried(s.jobs[i], t)
<1>1. s.jobs[i] \in Job
  BY DEF StateOK
<1>2. /\ j \in Job /\ j.st = "retry" /\ j.ns = s.jobs[i].ns
      /\ j.deps = s.jobs[i].deps /\ j.kids = s.jobs[i].kids /\ j.left = s.jobs[i].left
  <2> DEFINE ready == IF s.jobs[i].sched > t THEN s.jobs[i].sched ELSE t
             fails == s.jobs[i].fails + 1
  <2>1. ready \in Nat /\ fails \in Nat /\ "retry" \in JobStates
    BY <1>1 DEF Job, JobStates, Active
  <2>2. j = [s.jobs[i] EXCEPT !.st = "retry", !.by = NoWorker, !.fails = fails,
                              !.at = ready]
    BY DEF Retried
  <2> HIDE DEF ready, fails
  <2> QED  BY <1>1, <2>1, <2>2, ZenonT(60) DEF Job
<1>3. Retry(s, i, t) = [s EXCEPT !.jobs[i] = j]
  BY DEF Retry
<1> HIDE DEF j
<1>4. /\ StateOK([s EXCEPT !.jobs[i] = j])
      /\ [s EXCEPT !.jobs[i] = j].next = s.next
      /\ [s EXCEPT !.jobs[i] = j].ns = s.ns
      /\ [s EXCEPT !.jobs[i] = j].workers = s.workers
      /\ DOMAIN [s EXCEPT !.jobs[i] = j].jobs = DOMAIN s.jobs
      /\ \A k \in DOMAIN s.jobs :
            [s EXCEPT !.jobs[i] = j].jobs[k] = IF k = i THEN j ELSE s.jobs[k]
  BY <1>2, OneJob
<1> QED  BY <1>2, <1>3, <1>4

\* Scheduling a retry keeps a good state good.
LEMMA RetryGood ==
    ASSUME NEW s, Good(s), NEW i \in DOMAIN s.jobs, s.jobs[i].st \notin Terminal,
           NEW t \in Nat
    PROVE  Good(Retry(s, i, t)) /\ Keeps(s, Retry(s, i, t))
<1> DEFINE u == Retry(s, i, t)
<1>1. StateOK(s)
  BY DEF Good, Almost
<1>2. /\ StateOK(u) /\ u.next = s.next /\ u.ns = s.ns
      /\ DOMAIN u.jobs = DOMAIN s.jobs
      /\ \A k \in DOMAIN s.jobs \ {i} : u.jobs[k] = s.jobs[k]
      /\ u.jobs[i].st = "retry"
      /\ u.jobs[i].deps = s.jobs[i].deps
      /\ u.jobs[i].kids = s.jobs[i].kids
      /\ u.jobs[i].left = s.jobs[i].left
  BY <1>1, RetryFields
<1> HIDE DEF u
<1> QED  BY <1>2, SameGraph DEF u, Good, Terminal

\* Promoting a scheduled job keeps a good state good.
LEMMA PromoteGood ==
    ASSUME NEW s, Good(s), NEW i \in DOMAIN s.jobs, NEW p \in Nat
    PROVE  LET u == [s EXCEPT !.jobs[i].prio = p]
           IN /\ Good(u) /\ Keeps(s, u)
              /\ DOMAIN u.jobs = DOMAIN s.jobs
              /\ \A k \in DOMAIN s.jobs : /\ u.jobs[k].st = s.jobs[k].st
                                          /\ u.jobs[k].by = s.jobs[k].by
                                          /\ u.jobs[k].at = s.jobs[k].at
<1> DEFINE j == [s.jobs[i] EXCEPT !.prio = p]
           u == [s EXCEPT !.jobs[i] = j]
<1>1. StateOK(s) /\ s.jobs[i] \in Job
  BY DEF StateOK, Good, Almost
<1>2. /\ j \in Job /\ j.ns = s.jobs[i].ns /\ j.st = s.jobs[i].st
      /\ j.deps = s.jobs[i].deps /\ j.kids = s.jobs[i].kids
      /\ j.left = s.jobs[i].left /\ j.by = s.jobs[i].by /\ j.at = s.jobs[i].at
  BY <1>1 DEF Job
<1>3. [s EXCEPT !.jobs[i].prio = p] = u
  BY <1>1 DEF StateOK, Job
<1> HIDE DEF j
<1>4. /\ StateOK(u) /\ u.next = s.next /\ u.ns = s.ns
      /\ DOMAIN u.jobs = DOMAIN s.jobs
      /\ \A k \in DOMAIN s.jobs : u.jobs[k] = IF k = i THEN j ELSE s.jobs[k]
  BY <1>1, <1>2, OneJob
<1> HIDE DEF u
<1>5. Good(u) /\ Keeps(s, u)
  BY <1>2, <1>4, SameGraph DEF Good
<1> QED  BY <1>2, <1>3, <1>4, <1>5

\* What creating a namespace on demand leaves of the state.
LEMMA EnsureFields ==
    ASSUME NEW s, StateOK(s), NEW n \in Namespaces, NEW config \in Configs
    PROVE  LET u == EnsureNs(s, n, config)
           IN /\ u.next = s.next /\ u.jobs = s.jobs /\ u.workers = s.workers
              /\ u = [next |-> s.next, jobs |-> s.jobs, ns |-> u.ns,
                      workers |-> s.workers]
              /\ DOMAIN u.ns = DOMAIN s.ns \cup {n}
              /\ \A m \in DOMAIN s.ns : u.ns[m] = s.ns[m]
              /\ n \notin DOMAIN s.ns => /\ u.ns[n] \in NsState
                                         /\ u.ns[n].config = config
                                         /\ u.ns[n].ring = << >>
<1>1. CASE n \in DOMAIN s.ns
  <2>1. EnsureNs(s, n, config) = s
    BY <1>1 DEF EnsureNs
  <2> QED  BY <1>1, <2>1 DEF StateOK
<1>2. CASE n \notin DOMAIN s.ns
  <2> DEFINE new == [config |-> config, ring |-> << >>, enqueued |-> 0,
                     completed |-> 0, cancelled |-> 0, dead |-> 0]
             ns == [m \in DOMAIN s.ns \cup {n} |-> IF m = n THEN new ELSE s.ns[m]]
  <2>1. EnsureNs(s, n, config) = [s EXCEPT !.ns = ns]
    BY <1>2 DEF EnsureNs
  <2>2. new \in NsState /\ new.config = config /\ new.ring = << >>
    BY DEF NsState
  <2> HIDE DEF new
  <2>3. /\ DOMAIN ns = DOMAIN s.ns \cup {n}
        /\ ns[n] = new
        /\ \A m \in DOMAIN s.ns : ns[m] = s.ns[m]
    BY <1>2
  <2> HIDE DEF ns
  <2>4. EnsureNs(s, n, config) = [next |-> s.next, jobs |-> s.jobs, ns |-> ns,
                                  workers |-> s.workers]
    BY <2>1 DEF StateOK
  <2> QED  BY <2>2, <2>3, <2>4
<1> QED  BY <1>1, <1>2

\* A change of namespaces that keeps their rings.
LEMMA SameRings ==
    ASSUME NEW s, NEW u, Good(s),
           u = [next |-> s.next, jobs |-> s.jobs, ns |-> u.ns, workers |-> u.workers],
           DOMAIN s.ns \subseteq DOMAIN u.ns, DOMAIN u.ns \subseteq Namespaces,
           \A m \in DOMAIN u.ns :
              /\ u.ns[m] \in NsState
              /\ u.ns[m].config.dead > 0
              /\ IF m \in DOMAIN s.ns THEN u.ns[m].ring = s.ns[m].ring
                                      ELSE u.ns[m].ring = << >>,
           DOMAIN u.workers \subseteq Workers,
           \A w \in DOMAIN u.workers : u.workers[w] \subseteq Caps
    PROVE  Good(u) /\ Keeps(s, u)
<1>1. StateOK(s) /\ Links(s) /\ Rings(s) /\ \A i \in Live(s) : Gated(s, i)
  BY DEF Good, Almost
<1>2. u.next = s.next /\ u.jobs = s.jobs
  OBVIOUS
<1>3. StateOK(u)
  BY <1>1, <1>2 DEF StateOK
<1>4. Links(u)
  BY <1>1, <1>2 DEF Links
<1>5. Rings(u)
  <2> SUFFICES ASSUME NEW n \in DOMAIN u.ns, NEW k \in DOMAIN u.ns[n].ring
               PROVE  /\ u.ns[n].ring[k] < u.next
                      /\ u.ns[n].ring[k] \in DOMAIN u.jobs
                            => u.jobs[u.ns[n].ring[k]].st = "dead"
    BY DEF Rings
  <2>1. n \in DOMAIN s.ns /\ u.ns[n].ring = s.ns[n].ring
    OBVIOUS
  <2> QED  BY <1>1, <1>2, <2>1 DEF Rings
<1>6. Live(u) = Live(s)
  BY <1>2 DEF Live
<1>7. \A i \in Live(u) : Gated(u, i)
  BY <1>1, <1>2, <1>6 DEF Gated
<1>8. Keeps(s, u)
  BY <1>1, <1>2, QueueAssumption DEF Keeps, StateOK
<1> QED  BY <1>3, <1>4, <1>5, <1>7, <1>8 DEF Good, Almost

\* Creating a namespace on demand keeps a good state good.
LEMMA EnsureGood ==
    ASSUME NEW s, Good(s), NEW n \in Namespaces, NEW config \in Configs,
           config.dead > 0
    PROVE  Good(EnsureNs(s, n, config)) /\ Keeps(s, EnsureNs(s, n, config))
<1> DEFINE u == EnsureNs(s, n, config)
<1>1. StateOK(s) /\ Rings(s)
  BY DEF Good, Almost
<1>2. /\ u = [next |-> s.next, jobs |-> s.jobs, ns |-> u.ns, workers |-> s.workers]
      /\ DOMAIN u.ns = DOMAIN s.ns \cup {n}
      /\ \A m \in DOMAIN s.ns : u.ns[m] = s.ns[m]
      /\ n \notin DOMAIN s.ns => /\ u.ns[n] \in NsState
                                 /\ u.ns[n].config = config
                                 /\ u.ns[n].ring = << >>
      /\ u.workers = s.workers
  BY <1>1, EnsureFields
<1> HIDE DEF u
<1>3. DOMAIN u.ns \subseteq Namespaces
  BY <1>1, <1>2 DEF StateOK
<1>4. ASSUME NEW m \in DOMAIN u.ns
      PROVE  /\ u.ns[m] \in NsState
             /\ u.ns[m].config.dead > 0
             /\ IF m \in DOMAIN s.ns THEN u.ns[m].ring = s.ns[m].ring
                                     ELSE u.ns[m].ring = << >>
  BY <1>1, <1>2 DEF StateOK, Rings
<1>5. /\ DOMAIN u.workers \subseteq Workers
      /\ \A w \in DOMAIN u.workers : u.workers[w] \subseteq Caps
  BY <1>1, <1>2 DEF StateOK
<1> QED  BY <1>2, <1>3, <1>4, <1>5, SameRings DEF u

\* Configuring a namespace keeps a good state good.
LEMMA ConfigureGood ==
    ASSUME NEW s, Good(s), NEW n \in Namespaces, NEW config \in Configs,
           config.dead > 0
    PROVE  LET u == [EnsureNs(s, n, config) EXCEPT !.ns[n].config = config]
           IN /\ Good(u) /\ Keeps(s, u) /\ u.jobs = s.jobs
<1> DEFINE e == EnsureNs(s, n, config)
           c == [e.ns[n] EXCEPT !.config = config]
           ns == [e.ns EXCEPT ![n] = c]
           u == [e EXCEPT !.ns[n].config = config]
<1>1. Good(e) /\ Keeps(s, e)
  BY EnsureGood
<1>2. StateOK(s)
  BY DEF Good, Almost
<1>3. e.jobs = s.jobs /\ n \in DOMAIN e.ns
  BY <1>2, EnsureFields
<1> HIDE DEF e
<1>4. StateOK(e) /\ Rings(e)
  BY <1>1 DEF Good, Almost
<1>5. e.ns[n] \in NsState
  BY <1>3, <1>4 DEF StateOK
<1>6. c \in NsState /\ c.config = config /\ c.ring = e.ns[n].ring
  BY <1>5 DEF NsState
<1>7. u = [e EXCEPT !.ns = ns]
  BY <1>3, <1>4, <1>5 DEF StateOK, NsState
<1> HIDE DEF c
<1>8. /\ DOMAIN ns = DOMAIN e.ns
      /\ ns[n] = c
      /\ \A m \in DOMAIN e.ns \ {n} : ns[m] = e.ns[m]
  BY <1>3
<1> HIDE DEF ns, u
<1>9. /\ u = [next |-> e.next, jobs |-> e.jobs, ns |-> u.ns, workers |-> u.workers]
      /\ u.ns = ns /\ u.workers = e.workers /\ u.jobs = e.jobs
  BY <1>4, <1>7 DEF StateOK
<1>10. Good(u) /\ Keeps(e, u)
  <2>1. DOMAIN u.ns \subseteq Namespaces
    BY <1>4, <1>8, <1>9 DEF StateOK
  <2>2. \A m \in DOMAIN u.ns : /\ u.ns[m] \in NsState
                               /\ u.ns[m].config.dead > 0
                               /\ u.ns[m].ring = e.ns[m].ring
    BY <1>4, <1>6, <1>8, <1>9 DEF StateOK, Rings
  <2>3. /\ DOMAIN u.workers \subseteq Workers
        /\ \A w \in DOMAIN u.workers : u.workers[w] \subseteq Caps
    BY <1>4, <1>9 DEF StateOK
  <2> QED  BY <1>1, <1>8, <1>9, <2>1, <2>2, <2>3, SameRings
<1>11. u.jobs = s.jobs
  BY <1>3, <1>9
<1>12. Keeps(s, u)
  <2>1. s.next \in Nat /\ e.next \in Nat /\ u.next \in Nat
    BY <1>2, <1>4, <1>10, QueueAssumption DEF StateOK, Good, Almost
  <2> QED  BY <1>1, <1>10, <1>3, <1>11, <2>1 DEF Keeps
<1> QED  BY <1>10, <1>11, <1>12 DEF u, e

\* Registering a worker keeps a good state good.
LEMMA RegisterGood ==
    ASSUME NEW s, Good(s), NEW w \in Workers, NEW caps \in SUBSET Caps
    PROVE  /\ Good(Register(s, w, caps))
           /\ Keeps(s, Register(s, w, caps))
           /\ Register(s, w, caps).jobs = s.jobs
<1> DEFINE u == Register(s, w, caps)
           workers == [v \in DOMAIN s.workers \cup {w} |->
                           IF v = w THEN caps ELSE s.workers[v]]
<1>1. StateOK(s) /\ Rings(s)
  BY DEF Good, Almost
<1>2. u = [s EXCEPT !.workers = workers]
  BY DEF Register
<1>3. /\ DOMAIN workers \subseteq Workers
      /\ \A v \in DOMAIN workers : workers[v] \subseteq Caps
  BY <1>1 DEF StateOK
<1> HIDE DEF workers, u
<1>4. /\ u = [next |-> s.next, jobs |-> s.jobs, ns |-> u.ns, workers |-> u.workers]
      /\ u.ns = s.ns /\ u.workers = workers /\ u.jobs = s.jobs
  BY <1>1, <1>2 DEF StateOK
<1>5. \A m \in DOMAIN u.ns : u.ns[m] \in NsState /\ u.ns[m].config.dead > 0
  BY <1>1, <1>4 DEF StateOK, Rings
<1>6. DOMAIN u.ns \subseteq Namespaces
  BY <1>1, <1>4 DEF StateOK
<1>7. Good(u) /\ Keeps(s, u)
  BY <1>3, <1>4, <1>5, <1>6, SameRings
<1> QED  BY <1>4, <1>7 DEF u

\* What a leaving worker's leases become.
LEMMA ReleaseFields ==
    ASSUME NEW s, StateOK(s), NEW w
    PROVE  LET u == Release(s, w)
           IN /\ StateOK(u)
              /\ u.next = s.next /\ u.ns = s.ns
              /\ DOMAIN u.jobs = DOMAIN s.jobs
              /\ \A i \in DOMAIN s.jobs :
                    u.jobs[i] = IF IsHolder(s, w, i)
                                THEN Moved(s.jobs[i], "pending") ELSE s.jobs[i]
<1> DEFINE jobs == [i \in DOMAIN s.jobs |-> IF IsHolder(s, w, i)
                        THEN Moved(s.jobs[i], "pending") ELSE s.jobs[i]]
           workers == [v \in DOMAIN s.workers \ {w} |-> s.workers[v]]
           u == Release(s, w)
<1>1. u = [s EXCEPT !.jobs = jobs, !.workers = workers]
  BY DEF Release
<1>2. /\ DOMAIN workers \subseteq Workers
      /\ \A v \in DOMAIN workers : workers[v] \subseteq Caps
  BY DEF StateOK
<1>3. /\ DOMAIN jobs = DOMAIN s.jobs
      /\ \A i \in DOMAIN s.jobs : jobs[i] \in Job /\ jobs[i].ns = s.jobs[i].ns
  <2>1. "pending" \in JobStates
    BY DEF JobStates, Active
  <2> QED  BY <2>1, MovedFields DEF StateOK
<1>4. \A i \in DOMAIN s.jobs :
         jobs[i] = IF IsHolder(s, w, i) THEN Moved(s.jobs[i], "pending") ELSE s.jobs[i]
  OBVIOUS
<1> HIDE DEF jobs, workers, u
<1>5. u = [next |-> s.next, jobs |-> jobs, ns |-> s.ns, workers |-> workers]
  BY <1>1 DEF StateOK
<1>6. StateOK(u)
  BY <1>2, <1>3, <1>5 DEF StateOK
<1> QED  BY <1>3, <1>4, <1>5, <1>6 DEF u

\* Deregistering a worker keeps a good state good.
LEMMA ReleaseGood ==
    ASSUME NEW s, Good(s), NEW w
    PROVE  Good(Release(s, w)) /\ Keeps(s, Release(s, w))
<1> DEFINE u == Release(s, w)
<1>1. StateOK(s)
  BY DEF Good, Almost
<1>2. /\ StateOK(u) /\ u.next = s.next /\ u.ns = s.ns
      /\ DOMAIN u.jobs = DOMAIN s.jobs
      /\ \A i \in DOMAIN s.jobs :
            u.jobs[i] = IF IsHolder(s, w, i)
                        THEN Moved(s.jobs[i], "pending") ELSE s.jobs[i]
  BY <1>1, ReleaseFields
<1> HIDE DEF u
<1>3. ASSUME NEW i \in DOMAIN s.jobs
      PROVE  /\ u.jobs[i].deps = s.jobs[i].deps
             /\ u.jobs[i].kids = s.jobs[i].kids
             /\ u.jobs[i].left = s.jobs[i].left
             /\ u.jobs[i].st \in Terminal \/ s.jobs[i].st \in Terminal
                    => u.jobs[i].st = s.jobs[i].st
  <2>1. s.jobs[i] \in Job /\ "pending" \in JobStates
    BY <1>1 DEF StateOK, JobStates, Active
  <2> QED  BY <1>2, <2>1, MovedFields DEF IsHolder, Terminal
<1> QED  BY <1>2, <1>3, SameGraph DEF u, Good

-----------------------------------------------------------------------------
(* Cascades *)

\* The cascade contains its live roots and is closed under live dependents.
LEMMA CascadeClosed ==
    ASSUME NEW s, NEW roots
    PROVE  /\ Cascade(s, roots) \subseteq Live(s)
           /\ roots \cap Live(s) \subseteq Cascade(s, roots)
           /\ \A k \in Cascade(s, roots) :
                 s.jobs[k].kids \cap Live(s) \subseteq Cascade(s, roots)
BY DEF Cascade

\* What a cascading cancellation leaves of the jobs.
LEMMA CancelFields ==
    ASSUME NEW s, StateOK(s), NEW roots
    PROVE  LET u == CascadeCancel(s, roots)
               gone == Cascade(s, roots)
           IN /\ StateOK(u)
              /\ u.next = s.next
              /\ DOMAIN u.jobs = DOMAIN s.jobs
              /\ \A i \in DOMAIN s.jobs :
                    u.jobs[i] = IF i \in gone
                                THEN Moved(s.jobs[i], "cancelled") ELSE s.jobs[i]
              /\ DOMAIN u.ns = DOMAIN s.ns
              /\ \A n \in DOMAIN s.ns : /\ u.ns[n].ring = s.ns[n].ring
                                        /\ u.ns[n].config = s.ns[n].config
<1> DEFINE gone == Cascade(s, roots)
           jobs == [i \in DOMAIN s.jobs |->
               IF i \in gone THEN Moved(s.jobs[i], "cancelled") ELSE s.jobs[i]]
           count(n) == Cardinality({i \in gone : s.jobs[i].ns = n})
           ns == [n \in DOMAIN s.ns |->
               [s.ns[n] EXCEPT !.cancelled = s.ns[n].cancelled + count(n)]]
           u == CascadeCancel(s, roots)
<1>1. u = [s EXCEPT !.jobs = jobs, !.ns = ns]
  BY DEF CascadeCancel
<1>2. ASSUME NEW n \in DOMAIN s.ns
      PROVE  /\ ns[n] \in NsState
             /\ ns[n].ring = s.ns[n].ring /\ ns[n].config = s.ns[n].config
  <2>1. count(n) \in Nat
    <3>1. {i \in gone : s.jobs[i].ns = n} \subseteq Ids
      BY CascadeClosed, QueueAssumption DEF Live, StateOK, Ids
    <3> QED  BY <3>1, IdsFinite, FS_Subset, FS_CardinalityType
  <2>2. s.ns[n] \in NsState
    BY DEF StateOK
  <2> HIDE DEF count
  <2> QED  BY <2>1, <2>2 DEF NsState
<1>3. DOMAIN ns = DOMAIN s.ns
  OBVIOUS
<1>4. /\ DOMAIN jobs = DOMAIN s.jobs
      /\ \A i \in DOMAIN s.jobs : jobs[i] \in Job /\ jobs[i].ns = s.jobs[i].ns
  <2>1. "cancelled" \in JobStates
    BY DEF JobStates, Terminal
  <2> QED  BY <2>1, MovedFields DEF StateOK
<1>5. \A i \in DOMAIN s.jobs :
         jobs[i] = IF i \in gone THEN Moved(s.jobs[i], "cancelled") ELSE s.jobs[i]
  OBVIOUS
<1> HIDE DEF jobs, ns, u, gone
<1>6. u = [next |-> s.next, jobs |-> jobs, ns |-> ns, workers |-> s.workers]
  BY <1>1 DEF StateOK
<1>7. StateOK(u)
  BY <1>2, <1>3, <1>4, <1>6 DEF StateOK
<1> QED  BY <1>2, <1>3, <1>4, <1>5, <1>6, <1>7 DEF u, gone

\* A cascading cancellation keeps a good state good.
LEMMA CancelGood ==
    ASSUME NEW s, NEW roots, Almost(s, roots)
    PROVE  Good(CascadeCancel(s, roots)) /\ Keeps(s, CascadeCancel(s, roots))
<1> DEFINE u == CascadeCancel(s, roots)
           gone == Cascade(s, roots)
<1>1. StateOK(s) /\ Links(s) /\ Rings(s) /\ \A i \in Live(s) \ roots : Gated(s, i)
  BY DEF Almost
<1>2. /\ StateOK(u) /\ u.next = s.next /\ DOMAIN u.jobs = DOMAIN s.jobs
      /\ \A i \in DOMAIN s.jobs :
            u.jobs[i] = IF i \in gone THEN Moved(s.jobs[i], "cancelled") ELSE s.jobs[i]
      /\ DOMAIN u.ns = DOMAIN s.ns
      /\ \A n \in DOMAIN s.ns : /\ u.ns[n].ring = s.ns[n].ring
                                /\ u.ns[n].config = s.ns[n].config
  BY <1>1, CancelFields
<1>3. /\ gone \subseteq Live(s)
      /\ roots \cap Live(s) \subseteq gone
      /\ \A k \in gone : s.jobs[k].kids \cap Live(s) \subseteq gone
  BY CascadeClosed
<1> HIDE DEF u, gone
<1>4. ASSUME NEW i \in DOMAIN s.jobs
      PROVE  /\ u.jobs[i].deps = s.jobs[i].deps
             /\ u.jobs[i].kids = s.jobs[i].kids
             /\ u.jobs[i].left = s.jobs[i].left
             /\ u.jobs[i].st = IF i \in gone THEN "cancelled" ELSE s.jobs[i].st
  <2>1. s.jobs[i] \in Job /\ "cancelled" \in JobStates
    BY <1>1 DEF StateOK, JobStates, Terminal
  <2> QED  BY <1>2, <2>1, MovedFields
<1>5. Live(u) = Live(s) \ gone
  BY <1>2, <1>4 DEF Live, Terminal
<1>6. Links(u)
  BY <1>1, <1>2, <1>4 DEF Links
<1>7. Rings(u)
  <2>1. \A i \in DOMAIN s.jobs : s.jobs[i].st = "dead" => i \notin gone
    BY <1>3 DEF Live, Terminal
  <2> QED  BY <1>1, <1>2, <1>4, <2>1 DEF Rings
<1>8. ASSUME NEW i \in Live(u) PROVE Gated(u, i)
  <2>1. i \in Live(s) /\ i \notin gone /\ i \in DOMAIN s.jobs
    BY <1>5 DEF Live
  <2>2. Gated(s, i)
    BY <1>1, <1>3, <2>1
  <2>3. ASSUME NEW d \in s.jobs[i].deps PROVE d \in DOMAIN s.jobs /\ d \notin gone
    BY <1>3, <2>1, <2>2 DEF Gated
  <2>4. s.jobs[i].deps \cap Live(u) = s.jobs[i].deps \cap Live(s)
    BY <1>5, <2>3
  <2> QED  BY <1>2, <1>4, <1>5, <2>1, <2>2, <2>3, <2>4 DEF Gated
<1>9. Keeps(s, u)
  <2>1. s.next \in Nat
    BY <1>1, QueueAssumption DEF StateOK
  <2>2. \A i \in DOMAIN s.jobs : s.jobs[i].st = "completed" => i \notin gone
    BY <1>3 DEF Live, Terminal
  <2> QED  BY <1>2, <1>4, <2>1, <2>2 DEF Keeps
<1> QED  BY <1>2, <1>6, <1>7, <1>8, <1>9 DEF Good, Almost, u

-----------------------------------------------------------------------------
(* Enqueue *)

\* What adding a job for request r changes.
AddedTo(s, r, u) ==
    /\ u.next = s.next + 1
    /\ DOMAIN u.jobs = DOMAIN s.jobs \cup {s.next}
    /\ u.jobs[s.next].deps = r.deps
    /\ u.jobs[s.next].kids = {}
    /\ u.jobs[s.next].left = Cardinality(r.deps \cap Live(s))
    /\ u.jobs[s.next].st \in {"scheduled", "pending"}
    /\ \A i \in DOMAIN s.jobs :
          /\ u.jobs[i].deps = s.jobs[i].deps
          /\ u.jobs[i].left = s.jobs[i].left
          /\ u.jobs[i].st = s.jobs[i].st
          /\ u.jobs[i].at = s.jobs[i].at
          /\ u.jobs[i].by = s.jobs[i].by
          /\ u.jobs[i].kids = IF i \in r.deps \cap Live(s)
                              THEN s.jobs[i].kids \cup {s.next}
                              ELSE s.jobs[i].kids
    /\ DOMAIN u.ns = DOMAIN s.ns
    /\ \A n \in DOMAIN s.ns : /\ u.ns[n].ring = s.ns[n].ring
                              /\ u.ns[n].config = s.ns[n].config

\* What adding a job leaves of the others.
LEMMA AddedFields ==
    ASSUME NEW s, StateOK(s), NEW r \in Requests, NEW t \in Nat,
           ValidDeps(s, r), r.ns \in DOMAIN s.ns, s.next \in Ids
    PROVE  StateOK(Added(s, r, t)) /\ AddedTo(s, r, Added(s, r, t))
<1> DEFINE jobs == [i \in DOMAIN s.jobs \cup {s.next} |->
               IF i = s.next THEN NewJob(s, r, t)
               ELSE IF i \in r.deps \cap Live(s)
                    THEN [s.jobs[i] EXCEPT !.kids = s.jobs[i].kids \cup {s.next}]
                    ELSE s.jobs[i]]
           ns == [s.ns EXCEPT ![r.ns].enqueued = @ + 1]
           u == Added(s, r, t)
<1>1. u = [s EXCEPT !.next = s.next + 1, !.jobs = jobs, !.ns = ns]
  BY DEF Added
<1>2. /\ DOMAIN ns = DOMAIN s.ns
      /\ \A n \in DOMAIN s.ns : /\ ns[n] \in NsState
                                /\ ns[n].ring = s.ns[n].ring
                                /\ ns[n].config = s.ns[n].config
  <2> DEFINE c == [s.ns[r.ns] EXCEPT !.enqueued = @ + 1]
  <2>1. \A n \in DOMAIN s.ns : s.ns[n] \in NsState
    BY DEF StateOK
  <2>2. c \in NsState /\ c.ring = s.ns[r.ns].ring /\ c.config = s.ns[r.ns].config
    BY <2>1, SMTT(60) DEF NsState
  <2>3. ns = [s.ns EXCEPT ![r.ns] = c]
    OBVIOUS
  <2> HIDE DEF c, ns
  <2> QED  BY <2>1, <2>2, <2>3
<1>3. s.next \notin DOMAIN s.jobs /\ s.next \in Nat
  BY QueueAssumption DEF StateOK
<1>4. /\ NewJob(s, r, t) \in Job
      /\ NewJob(s, r, t).ns = r.ns
      /\ NewJob(s, r, t).deps = r.deps
      /\ NewJob(s, r, t).kids = {}
      /\ NewJob(s, r, t).left = Cardinality(r.deps \cap Live(s))
      /\ NewJob(s, r, t).st \in {"scheduled", "pending"}
  <2> DEFINE c == Cardinality(r.deps \cap Live(s))
             st == IF r.sched > t THEN "scheduled" ELSE "pending"
             at == IF r.sched > t THEN r.sched ELSE 0
  <2>1. r \in [ns : Namespaces, prio : Priorities, sched : Nat,
               deps : SUBSET Ids, caps : SUBSET Caps]
    BY QueueAssumption
  <2>2. c \in Nat
    BY <2>1, IdsFinite, FS_Subset, FS_CardinalityType
  <2>3. st \in {"scheduled", "pending"} /\ st \in JobStates /\ at \in Nat
    BY <2>1 DEF JobStates, Active
  <2>4. NewJob(s, r, t) =
          [ns |-> r.ns, prio |-> r.prio, fails |-> 0, sched |-> r.sched,
           deps |-> r.deps, kids |-> {}, left |-> c, caps |-> r.caps,
           by |-> NoWorker, st |-> st, at |-> at]
    BY DEF NewJob
  <2> HIDE DEF c, st, at
  <2>5. r.prio \in Nat
    BY <2>1, QueueAssumption
  <2> QED  BY <2>1, <2>2, <2>3, <2>4, <2>5 DEF Job, c
<1>5. ASSUME NEW i \in DOMAIN s.jobs
      PROVE  /\ jobs[i] \in Job
             /\ jobs[i].ns = s.jobs[i].ns /\ jobs[i].deps = s.jobs[i].deps
             /\ jobs[i].left = s.jobs[i].left /\ jobs[i].st = s.jobs[i].st
             /\ jobs[i].at = s.jobs[i].at /\ jobs[i].by = s.jobs[i].by
             /\ jobs[i].kids = IF i \in r.deps \cap Live(s)
                               THEN s.jobs[i].kids \cup {s.next}
                               ELSE s.jobs[i].kids
  <2>1. s.jobs[i] \in Job
    BY DEF StateOK
  <2>2. i # s.next
    BY <1>3
  <2> QED  BY <2>1, <2>2 DEF Job
<1>6. DOMAIN jobs = DOMAIN s.jobs \cup {s.next} /\ jobs[s.next] = NewJob(s, r, t)
  OBVIOUS
<1> HIDE DEF jobs, ns, u
<1>7. u = [next |-> s.next + 1, jobs |-> jobs, ns |-> ns, workers |-> s.workers]
  BY <1>1 DEF StateOK
<1>8. StateOK(u)
  <2>1. s.next + 1 \in 1 .. MaxJobs + 1
    BY QueueAssumption DEF Ids
  <2>2. DOMAIN jobs \subseteq 1 .. (s.next + 1) - 1
    BY <1>3, <1>6, QueueAssumption DEF StateOK
  <2>3. \A i \in DOMAIN jobs : jobs[i] \in Job /\ jobs[i].ns \in DOMAIN ns
    BY <1>2, <1>4, <1>5, <1>6, ZenonT(60) DEF StateOK
  <2> QED  BY <1>2, <1>7, <2>1, <2>2, <2>3 DEF StateOK
<1>9. /\ u.next = s.next + 1 /\ u.jobs = jobs /\ u.ns = ns
  BY <1>7
<1>10. /\ u.jobs[s.next].deps = r.deps
       /\ u.jobs[s.next].kids = {}
       /\ u.jobs[s.next].left = Cardinality(r.deps \cap Live(s))
       /\ u.jobs[s.next].st \in {"scheduled", "pending"}
  BY <1>4, <1>6, <1>9
<1> HIDE DEF u
<1>11. ASSUME NEW i \in DOMAIN s.jobs
       PROVE  /\ u.jobs[i].ns = s.jobs[i].ns
              /\ u.jobs[i].deps = s.jobs[i].deps
              /\ u.jobs[i].left = s.jobs[i].left
              /\ u.jobs[i].st = s.jobs[i].st
              /\ u.jobs[i].at = s.jobs[i].at
              /\ u.jobs[i].by = s.jobs[i].by
              /\ u.jobs[i].kids = IF i \in r.deps \cap Live(s)
                                  THEN s.jobs[i].kids \cup {s.next}
                                  ELSE s.jobs[i].kids
  BY <1>5, <1>9
<1>12. AddedTo(s, r, u)
  BY <1>2, <1>6, <1>9, <1>10, <1>11 DEF AddedTo
<1> QED  BY <1>8, <1>12 DEF u

\* Enqueueing keeps a good state good.
LEMMA AdmitGood ==
    ASSUME NEW s, Good(s), NEW r \in Requests, NEW t \in Nat,
           ValidDeps(s, r), r.ns \in DOMAIN s.ns, s.next \in Ids
    PROVE  Good(Admit(s, r, t)) /\ Keeps(s, Admit(s, r, t))
<1> DEFINE a == Added(s, r, t)
<1>1. StateOK(s) /\ Links(s) /\ Rings(s) /\ \A i \in Live(s) : Gated(s, i)
  BY DEF Good, Almost
<1>11. StateOK(a) /\ AddedTo(s, r, a)
  BY <1>1, AddedFields
<1> HIDE DEF a
<1>2. /\ StateOK(a)
      /\ a.next = s.next + 1
      /\ DOMAIN a.jobs = DOMAIN s.jobs \cup {s.next}
      /\ a.jobs[s.next].deps = r.deps
      /\ a.jobs[s.next].kids = {}
      /\ a.jobs[s.next].left = Cardinality(r.deps \cap Live(s))
      /\ a.jobs[s.next].st \in {"scheduled", "pending"}
      /\ \A i \in DOMAIN s.jobs :
            /\ a.jobs[i].deps = s.jobs[i].deps
            /\ a.jobs[i].left = s.jobs[i].left
            /\ a.jobs[i].st = s.jobs[i].st
            /\ a.jobs[i].kids = IF i \in r.deps \cap Live(s)
                                THEN s.jobs[i].kids \cup {s.next}
                                ELSE s.jobs[i].kids
      /\ DOMAIN a.ns = DOMAIN s.ns
      /\ \A n \in DOMAIN s.ns : /\ a.ns[n].ring = s.ns[n].ring
                                /\ a.ns[n].config = s.ns[n].config
  BY <1>11 DEF AddedTo
<1>3. s.next \notin DOMAIN s.jobs /\ s.next \in Nat
  BY <1>1, QueueAssumption DEF StateOK
<1>4. Live(a) = Live(s) \cup {s.next}
  BY <1>2, <1>3 DEF Live, Terminal
<1>5. Links(a)
  <2> SUFFICES ASSUME NEW i \in DOMAIN a.jobs
               PROVE  /\ a.jobs[i].kids \subseteq 1 .. a.next - 1
                      /\ \A k \in a.jobs[i].kids \cap DOMAIN a.jobs :
                            i \in a.jobs[k].deps
    BY DEF Links
  <2>1. CASE i = s.next
    BY <1>2, <2>1
  <2>2. CASE i \in DOMAIN s.jobs
    <3>1. /\ s.jobs[i].kids \subseteq 1 .. s.next - 1
          /\ \A k \in s.jobs[i].kids \cap DOMAIN s.jobs : i \in s.jobs[k].deps
      BY <1>1, <2>2 DEF Links
    <3>2. s.next \notin s.jobs[i].kids
      BY <1>3, <3>1
    <3>3. a.jobs[i].kids \subseteq 1 .. a.next - 1
      <4>1. a.jobs[i].kids \subseteq s.jobs[i].kids \cup {s.next}
        BY <1>2, <2>2
      <4>2. s.next \in 1 .. a.next - 1 /\ 1 .. s.next - 1 \subseteq 1 .. a.next - 1
        BY <1>2, QueueAssumption DEF Ids
      <4> QED  BY <3>1, <4>1, <4>2
    <3>4. ASSUME NEW k \in a.jobs[i].kids \cap DOMAIN a.jobs
          PROVE  i \in a.jobs[k].deps
      <4>1. CASE k = s.next
        BY <1>2, <2>2, <3>2, <4>1
      <4>2. CASE k # s.next
        BY <1>2, <2>2, <3>1, <3>4, <4>2, ZenonT(60)
      <4> QED  BY <4>1, <4>2
    <3> QED  BY <3>3, <3>4
  <2> QED  BY <1>2, <2>1, <2>2
<1>6. Rings(a)
  <2> SUFFICES ASSUME NEW n \in DOMAIN s.ns
               PROVE  /\ a.ns[n].config.dead > 0
                      /\ \A k \in DOMAIN a.ns[n].ring :
                            /\ a.ns[n].ring[k] < a.next
                            /\ a.ns[n].ring[k] \in DOMAIN a.jobs
                                  => a.jobs[a.ns[n].ring[k]].st = "dead"
    BY <1>2 DEF Rings
  <2>1. ASSUME NEW k \in DOMAIN s.ns[n].ring
        PROVE  /\ s.ns[n].ring[k] < s.next + 1
               /\ s.ns[n].ring[k] # s.next
    <3>1. s.ns[n].ring[k] \in Ids
      BY <1>1 DEF StateOK, NsState
    <3> QED  BY <1>1, <1>3, <3>1, QueueAssumption DEF Rings, Ids
  <2>2. /\ s.ns[n].config.dead > 0
        /\ \A k \in DOMAIN s.ns[n].ring :
              s.ns[n].ring[k] \in DOMAIN s.jobs => s.jobs[s.ns[n].ring[k]].st = "dead"
    BY <1>1 DEF Rings
  <2>3. /\ a.ns[n].ring = s.ns[n].ring /\ a.ns[n].config = s.ns[n].config
    BY <1>2
  <2>4. \A k \in DOMAIN s.ns[n].ring :
           s.ns[n].ring[k] \in DOMAIN a.jobs => a.jobs[s.ns[n].ring[k]].st = "dead"
    BY <1>2, <2>1, <2>2
  <2> QED  BY <1>2, <2>1, <2>2, <2>3, <2>4
<1>7. ASSUME NEW i \in Live(s) PROVE Gated(a, i)
  <2>1. Gated(s, i) /\ i \in DOMAIN s.jobs /\ i # s.next
    BY <1>1, <1>3 DEF Live
  <2>2. \A d \in s.jobs[i].deps : d \in DOMAIN s.jobs /\ d # s.next
    BY <1>3, <2>1 DEF Gated
  <2>3. s.jobs[i].deps \cap Live(a) = s.jobs[i].deps \cap Live(s)
    BY <1>4, <2>2
  <2> QED  BY <1>2, <1>4, <2>1, <2>2, <2>3 DEF Gated
<1>8. Keeps(s, a)
  <2>1. s.next <= a.next
    BY <1>2, <1>3
  <2> QED  BY <1>2, <2>1 DEF Keeps
<1>9. CASE \E d \in r.deps : s.jobs[d].st \in {"cancelled", "dead"}
  <2>1. Admit(s, r, t) = CascadeCancel(a, {s.next})
    BY <1>9 DEF Admit, a
  <2>2. Almost(a, {s.next})
    BY <1>2, <1>4, <1>5, <1>6, <1>7 DEF Almost
  <2>3. Good(CascadeCancel(a, {s.next})) /\ Keeps(a, CascadeCancel(a, {s.next}))
    BY <2>2, CancelGood
  <2>4. CascadeCancel(a, {s.next}).next \in Nat
    BY <2>3, QueueAssumption DEF Good, Almost, StateOK
  <2>5. s.next <= CascadeCancel(a, {s.next}).next
    BY <1>2, <1>3, <1>8, <2>3, <2>4 DEF Keeps
  <2> QED  BY <1>8, <2>1, <2>3, <2>5 DEF Keeps
<1>10. CASE ~\E d \in r.deps : s.jobs[d].st \in {"cancelled", "dead"}
  <2>1. Admit(s, r, t) = a
    BY <1>10 DEF Admit, a
  <2>2. Gated(a, s.next)
    <3>1. r.deps \subseteq DOMAIN s.jobs
      BY DEF ValidDeps
    <3>2. r.deps \cap Live(a) = r.deps \cap Live(s)
      BY <1>3, <1>4, <3>1
    <3>3. \A d \in r.deps : d \in Live(a) => s.next \in a.jobs[d].kids
      BY <1>2, <3>1, <3>2
    <3> QED  BY <1>2, <1>10, <3>1, <3>2, <3>3 DEF Gated
  <2>3. Good(a)
    BY <1>2, <1>4, <1>5, <1>6, <1>7, <2>2 DEF Good, Almost
  <2> QED  BY <1>8, <2>1, <2>3
<1> QED  BY <1>9, <1>10

-----------------------------------------------------------------------------
(* complete *)

\* What completing job i changes.
FinishedIn(s, i, u) ==
    /\ u.next = s.next
    /\ DOMAIN u.jobs = DOMAIN s.jobs
    /\ u.jobs[i].st = "completed"
    /\ \A k \in DOMAIN s.jobs :
          /\ u.jobs[k].deps = s.jobs[k].deps
          /\ u.jobs[k].kids = s.jobs[k].kids
    /\ \A k \in DOMAIN s.jobs \ {i} :
          /\ u.jobs[k].st = s.jobs[k].st
          /\ u.jobs[k].at = s.jobs[k].at
          /\ u.jobs[k].by = s.jobs[k].by
          /\ u.jobs[k].left = IF k \in s.jobs[i].kids /\ s.jobs[k].left > 0
                              THEN s.jobs[k].left - 1 ELSE s.jobs[k].left
    /\ DOMAIN u.ns = DOMAIN s.ns
    /\ \A n \in DOMAIN s.ns : /\ u.ns[n].ring = s.ns[n].ring
                              /\ u.ns[n].config = s.ns[n].config

\* What completing a job does to it and to its dependents.
LEMMA FinishFields ==
    ASSUME NEW s, StateOK(s), NEW i \in DOMAIN s.jobs
    PROVE  StateOK(Finish(s, i)) /\ FinishedIn(s, i, Finish(s, i))
<1> DEFINE jobs == [k \in DOMAIN s.jobs |->
               IF k = i THEN Moved(s.jobs[i], "completed")
               ELSE IF k \in s.jobs[i].kids /\ s.jobs[k].left > 0
                    THEN [s.jobs[k] EXCEPT !.left = s.jobs[k].left - 1]
                    ELSE s.jobs[k]]
           n0 == s.jobs[i].ns
           ns == [s.ns EXCEPT ![n0].completed = @ + 1]
           u == Finish(s, i)
<1>1. u = [s EXCEPT !.jobs = jobs, !.ns = ns]
  BY DEF Finish
<1>2. /\ DOMAIN ns = DOMAIN s.ns
      /\ \A n \in DOMAIN s.ns : /\ ns[n] \in NsState
                                /\ ns[n].ring = s.ns[n].ring
                                /\ ns[n].config = s.ns[n].config
  <2> DEFINE c == [s.ns[n0] EXCEPT !.completed = @ + 1]
  <2>1. n0 \in DOMAIN s.ns /\ \A n \in DOMAIN s.ns : s.ns[n] \in NsState
    BY DEF StateOK
  <2> HIDE DEF n0
  <2>2. c \in NsState /\ c.ring = s.ns[n0].ring /\ c.config = s.ns[n0].config
    BY <2>1, SMTT(60) DEF NsState
  <2>3. ns = [s.ns EXCEPT ![n0] = c]
    OBVIOUS
  <2> HIDE DEF c, ns
  <2> QED  BY <2>1, <2>2, <2>3
<1>3. /\ jobs[i] \in Job /\ jobs[i].ns = s.jobs[i].ns /\ jobs[i].st = "completed"
      /\ jobs[i].deps = s.jobs[i].deps /\ jobs[i].kids = s.jobs[i].kids
  <2>1. s.jobs[i] \in Job /\ "completed" \in JobStates
    BY DEF StateOK, JobStates, Terminal
  <2>2. jobs[i] = Moved(s.jobs[i], "completed")
    OBVIOUS
  <2> HIDE DEF jobs
  <2> QED  BY <2>1, <2>2, MovedFields
<1>4. ASSUME NEW k \in DOMAIN s.jobs \ {i}
      PROVE  /\ jobs[k] \in Job /\ jobs[k].ns = s.jobs[k].ns
             /\ jobs[k].deps = s.jobs[k].deps /\ jobs[k].kids = s.jobs[k].kids
             /\ jobs[k].st = s.jobs[k].st /\ jobs[k].at = s.jobs[k].at
             /\ jobs[k].by = s.jobs[k].by
             /\ jobs[k].left = IF k \in s.jobs[i].kids /\ s.jobs[k].left > 0
                               THEN s.jobs[k].left - 1 ELSE s.jobs[k].left
  <2>1. s.jobs[k] \in Job
    BY DEF StateOK
  <2>2. CASE k \in s.jobs[i].kids /\ s.jobs[k].left > 0
    <3>1. jobs[k] = [s.jobs[k] EXCEPT !.left = s.jobs[k].left - 1]
      BY <2>2
    <3>2. s.jobs[k].left - 1 \in Nat
      BY <2>1, <2>2 DEF Job
    <3> HIDE DEF jobs
    <3> QED  BY <2>1, <2>2, <3>1, <3>2 DEF Job
  <2>3. CASE ~(k \in s.jobs[i].kids /\ s.jobs[k].left > 0)
    BY <2>1, <2>3
  <2> QED  BY <2>2, <2>3
<1>5. DOMAIN jobs = DOMAIN s.jobs
  OBVIOUS
<1> HIDE DEF jobs, ns, u, n0
<1>6. u = [next |-> s.next, jobs |-> jobs, ns |-> ns, workers |-> s.workers]
  BY <1>1 DEF StateOK
<1>7. u.next = s.next /\ u.jobs = jobs /\ u.ns = ns
  BY <1>6
<1>8. StateOK(u)
  <2>1. \A k \in DOMAIN jobs : jobs[k] \in Job /\ jobs[k].ns \in DOMAIN ns
    BY <1>2, <1>3, <1>4, <1>5 DEF StateOK
  <2> QED  BY <1>2, <1>5, <1>6, <2>1 DEF StateOK
<1>9. FinishedIn(s, i, u)
  BY <1>2, <1>3, <1>4, <1>5, <1>7 DEF FinishedIn
<1> QED  BY <1>8, <1>9 DEF u

\* Completing a job keeps a good state good.
LEMMA FinishGood ==
    ASSUME NEW s, Good(s), NEW i \in Live(s)
    PROVE  Good(Finish(s, i)) /\ Keeps(s, Finish(s, i))
<1> DEFINE u == Finish(s, i)
<1>1. /\ StateOK(s) /\ Links(s) /\ Rings(s) /\ \A k \in Live(s) : Gated(s, k)
      /\ i \in DOMAIN s.jobs
  BY DEF Good, Almost, Live
<1>2. StateOK(u) /\ FinishedIn(s, i, u)
  BY <1>1, FinishFields
<1> HIDE DEF u
<1>3. u.next = s.next /\ DOMAIN u.jobs = DOMAIN s.jobs
  BY <1>2 DEF FinishedIn
<1>4. Live(u) = Live(s) \ {i}
  BY <1>1, <1>2 DEF FinishedIn, Live, Terminal
<1>5. Links(u)
  BY <1>1, <1>2 DEF FinishedIn, Links
<1>6. Rings(u)
  <2>1. s.jobs[i].st # "dead"
    BY DEF Live, Terminal
  <2> QED  BY <1>1, <1>2, <2>1 DEF FinishedIn, Rings
<1>7. ASSUME NEW k \in Live(u) PROVE Gated(u, k)
  <2>1. k \in Live(s) /\ k # i /\ k \in DOMAIN s.jobs /\ Gated(s, k)
    BY <1>1, <1>4 DEF Live
  <2> DEFINE deps == s.jobs[k].deps
  <2>2. /\ deps \subseteq DOMAIN s.jobs
        /\ \A d \in deps : /\ s.jobs[d].st \notin {"cancelled", "dead"}
                           /\ d \in Live(s) => k \in s.jobs[d].kids
        /\ s.jobs[k].left = Cardinality(deps \cap Live(s))
    BY <2>1 DEF Gated
  <2>3. u.jobs[k].deps = deps
    BY <1>2, <2>1 DEF FinishedIn
  <2>4. IsFiniteSet(deps \cap Live(s))
    BY <2>2, IdsFinite, FS_Subset, QueueAssumption, <1>1 DEF StateOK, Ids
  <2> HIDE DEF deps
  <2>5. u.jobs[k].left = Cardinality(deps \cap Live(u))
    <3>1. CASE i \in deps
      <4>1. i \in deps \cap Live(s) /\ k \in s.jobs[i].kids
        BY <2>2, <3>1
      <4>2. deps \cap Live(u) = (deps \cap Live(s)) \ {i}
        BY <1>4
      <4>3. Cardinality((deps \cap Live(s)) \ {i}) = Cardinality(deps \cap Live(s)) - 1
        BY <2>4, <4>1, FS_RemoveElement
      <4>4. /\ Cardinality((deps \cap Live(s)) \ {i}) \in Nat
            /\ Cardinality(deps \cap Live(s)) \in Nat
        BY <2>4, FS_CardinalityType, FS_RemoveElement
      <4>5. s.jobs[k].left > 0
        BY <2>2, <4>3, <4>4
      <4> QED  BY <1>2, <2>1, <2>2, <4>1, <4>2, <4>3, <4>5 DEF FinishedIn
    <3>2. CASE i \notin deps
      <4>1. k \notin s.jobs[i].kids
        <5>1. k \in s.jobs[i].kids => i \in s.jobs[k].deps
          BY <1>1, <2>1 DEF Links
        <5> QED  BY <3>2, <5>1 DEF deps
      <4>2. deps \cap Live(u) = deps \cap Live(s)
        BY <1>4, <3>2
      <4> QED  BY <1>2, <2>1, <2>2, <4>1, <4>2 DEF FinishedIn
    <3> QED  BY <3>1, <3>2
  <2>6. \A d \in deps : /\ u.jobs[d].st \notin {"cancelled", "dead"}
                        /\ d \in Live(u) => k \in u.jobs[d].kids
    BY <1>2, <1>4, <2>2 DEF FinishedIn
  <2> QED  BY <1>3, <2>2, <2>3, <2>5, <2>6 DEF Gated
<1>8. Keeps(s, u)
  <2>1. s.next <= u.next
    BY <1>1, <1>3, QueueAssumption DEF StateOK
  <2> QED  BY <1>2, <1>3, <2>1 DEF Keeps, FinishedIn
<1> QED  BY <1>2, <1>5, <1>6, <1>7, <1>8 DEF Good, Almost, u

-----------------------------------------------------------------------------
(* fail on the last attempt *)

\* What appending to a sequence returns.
LEMMA AppendFacts ==
    ASSUME NEW S, NEW q \in Seq(S), NEW x \in S
    PROVE  /\ Append(q, x) \in Seq(S)
           /\ Len(Append(q, x)) = Len(q) + 1
           /\ Append(q, x)[Len(q) + 1] = x
           /\ \A k \in 1 .. Len(q) : Append(q, x)[k] = q[k]
OBVIOUS

\* What a suffix of a sequence holds.
LEMMA SuffixFacts ==
    ASSUME NEW S, NEW q \in Seq(S), NEW m \in Nat, m < Len(q)
    PROVE  /\ SubSeq(q, m + 1, Len(q)) \in Seq(S)
           /\ \A k \in DOMAIN SubSeq(q, m + 1, Len(q)) :
                 \E h \in 1 .. Len(q) : SubSeq(q, m + 1, Len(q))[k] = q[h]
<1>1. /\ SubSeq(q, m + 1, Len(q)) \in Seq(S)
      /\ Len(SubSeq(q, m + 1, Len(q))) = Len(q) - m
      /\ \A k \in 1 .. Len(q) - m : SubSeq(q, m + 1, Len(q))[k] = q[m + k]
  OBVIOUS
<1>2. DOMAIN SubSeq(q, m + 1, Len(q)) = 1 .. Len(q) - m
  BY <1>1
<1>3. \A k \in 1 .. Len(q) - m : m + k \in 1 .. Len(q)
  OBVIOUS
<1> QED  BY <1>1, <1>2, <1>3

\* The length and the domain of a sequence.
LEMMA SeqFacts ==
    ASSUME NEW S, NEW q \in Seq(S)
    PROVE  Len(q) \in Nat /\ DOMAIN q = 1 .. Len(q)
OBVIOUS

\* A namespace with a new ring is a namespace.
LEMMA RecordSet ==
    ASSUME NEW Q, NEW q \in Q,
           NEW c \in [config : Configs, ring : Q, enqueued : Nat, completed : Nat,
                      cancelled : Nat, dead : Nat]
    PROVE  /\ [c EXCEPT !.ring = q, !.dead = @ + 1] \in
                [config : Configs, ring : Q, enqueued : Nat, completed : Nat,
                 cancelled : Nat, dead : Nat]
           /\ [c EXCEPT !.ring = q, !.dead = @ + 1].ring = q
           /\ [c EXCEPT !.ring = q, !.dead = @ + 1].config = c.config
<1> DEFINE m == c.dead + 1
<1>1. m \in Nat
  OBVIOUS
<1> HIDE DEF m
<1>2. /\ [c EXCEPT !.ring = q, !.dead = m] \in
           [config : Configs, ring : Q, enqueued : Nat, completed : Nat,
            cancelled : Nat, dead : Nat]
      /\ [c EXCEPT !.ring = q, !.dead = m].ring = q
      /\ [c EXCEPT !.ring = q, !.dead = m].config = c.config
  BY <1>1
<1> QED  BY <1>2, Zenon DEF m

\* A namespace with a new ring, in the queue's own terms.
LEMMA RingSet ==
    ASSUME NEW c \in NsState, NEW q \in Seq(Ids)
    PROVE  /\ [c EXCEPT !.ring = q, !.dead = @ + 1] \in NsState
           /\ [c EXCEPT !.ring = q, !.dead = @ + 1].ring = q
           /\ [c EXCEPT !.ring = q, !.dead = @ + 1].config = c.config
BY RecordSet, Zenon DEF NsState

\* What dead-lettering job i changes.
DeadIn(s, i, u) ==
    LET gone == DOMAIN s.jobs \ DOMAIN u.jobs
    IN /\ u.next = s.next
       /\ DOMAIN u.jobs \subseteq DOMAIN s.jobs
       /\ \A k \in gone : s.jobs[k].st = "dead"
       /\ i \in DOMAIN u.jobs
       /\ u.jobs[i].st = "dead"
       /\ u.jobs[i].kids = s.jobs[i].kids
       /\ u.jobs[i].deps = s.jobs[i].deps
       /\ \A k \in DOMAIN u.jobs \ {i} : u.jobs[k] = s.jobs[k]

\* What dead-lettering leaves of the table and the rings.
LEMMA DeadLetterFields ==
    ASSUME NEW s, Good(s), NEW i \in Live(s)
    PROVE  StateOK(DeadLetter(s, i)) /\ DeadIn(s, i, DeadLetter(s, i))
           /\ Rings(DeadLetter(s, i))
<1> DEFINE n0 == s.jobs[i].ns
           ring == RingOf(s, i)
           over == Over(s, i)
           kept == SubSeq(ring, over + 1, Len(ring))
           f == [s.jobs[i] EXCEPT !.fails = s.jobs[i].fails + 1]
           jobs == [k \in DOMAIN s.jobs \ Dropped(s, i) |->
                       IF k = i THEN Moved(f, "dead") ELSE s.jobs[k]]
           ns == [s.ns EXCEPT ![n0].ring = kept, ![n0].dead = @ + 1]
           u == DeadLetter(s, i)
<1>1. StateOK(s) /\ Rings(s) /\ i \in DOMAIN s.jobs /\ s.jobs[i].st \notin Terminal
  BY DEF Good, Almost, Live
<1>2. s.jobs[i] \in Job /\ n0 \in DOMAIN s.ns /\ s.ns[n0] \in NsState /\ i \in Ids
  BY <1>1, QueueAssumption DEF StateOK, Ids
<1>3. /\ s.ns[n0].ring \in Seq(Ids) /\ s.ns[n0].config.dead \in Nat
      /\ s.ns[n0].config.dead > 0
  BY <1>1, <1>2 DEF NsState, Configs, Rings
<1>4. /\ ring \in Seq(Ids)
      /\ Len(ring) = Len(s.ns[n0].ring) + 1
      /\ ring[Len(s.ns[n0].ring) + 1] = i
      /\ \A k \in 1 .. Len(s.ns[n0].ring) : ring[k] = s.ns[n0].ring[k]
  <2>1. ring = Append(s.ns[n0].ring, i)
    BY DEF RingOf
  <2> HIDE DEF ring, n0
  <2> QED  BY <1>2, <1>3, <2>1, AppendFacts
<1>5. over \in Nat /\ over < Len(ring)
  <2>1. over = IF Len(ring) > s.ns[n0].config.dead
               THEN Len(ring) - s.ns[n0].config.dead ELSE 0
    BY DEF Over
  <2>2. Len(ring) \in Nat /\ Len(ring) > 0
    <3>1. Len(s.ns[n0].ring) \in Nat
      BY <1>3, SeqFacts, Zenon
    <3> QED  BY <1>4, <3>1, SMTT(60)
  <2> HIDE DEF ring, n0, over
  <2> QED  BY <1>3, <2>1, <2>2
<1>21. Len(s.ns[n0].ring) \in Nat /\ DOMAIN s.ns[n0].ring = 1 .. Len(s.ns[n0].ring)
  BY <1>3, SeqFacts, Zenon
<1> HIDE DEF ring, over
<1>6. ASSUME NEW k \in 1 .. Len(ring) - 1
      PROVE  /\ ring[k] < s.next
             /\ ring[k] \in DOMAIN s.jobs => s.jobs[ring[k]].st = "dead"
  <2>1. k \in DOMAIN s.ns[n0].ring /\ ring[k] = s.ns[n0].ring[k]
    <3> HIDE DEF n0
    <3> QED  BY <1>4, <1>6, <1>21
  <2> QED  BY <1>1, <1>2, <2>1 DEF Rings
<1>7. \A k \in Dropped(s, i) : k \in DOMAIN s.jobs => s.jobs[k].st = "dead"
  <2>1. \A k \in 1 .. over : k \in 1 .. Len(ring) - 1
    BY <1>4, <1>5
  <2>2. \A k \in Dropped(s, i) : \E m \in 1 .. over : k = ring[m]
    BY DEF Dropped, ring, over
  <2> QED  BY <1>6, <2>1, <2>2
<1>8. i \notin Dropped(s, i)
  BY <1>1, <1>7 DEF Terminal
<1>9. /\ kept \in Seq(Ids)
      /\ \A k \in DOMAIN kept : \E m \in 1 .. Len(ring) : kept[k] = ring[m]
  <2>1. \A q \in Seq(Ids), m \in Nat : m < Len(q) =>
           /\ SubSeq(q, m + 1, Len(q)) \in Seq(Ids)
           /\ \A k \in DOMAIN SubSeq(q, m + 1, Len(q)) :
                 \E h \in 1 .. Len(q) : SubSeq(q, m + 1, Len(q))[k] = q[h]
    BY SuffixFacts
  <2>2. ring \in Seq(Ids) /\ over \in Nat /\ over < Len(ring)
    BY <1>4, <1>5
  <2> QED  BY <2>1, <2>2, Zenon
<1>10. /\ Moved(f, "dead") \in Job /\ Moved(f, "dead").st = "dead"
       /\ Moved(f, "dead").ns = n0
       /\ Moved(f, "dead").kids = s.jobs[i].kids
       /\ Moved(f, "dead").deps = s.jobs[i].deps
  <2>1. /\ f \in Job /\ f.ns = n0 /\ f.kids = s.jobs[i].kids
        /\ f.deps = s.jobs[i].deps
    BY <1>2 DEF Job
  <2>2. "dead" \in JobStates
    BY DEF JobStates, Terminal
  <2> HIDE DEF f
  <2> QED  BY <2>1, <2>2, MovedFields
<1>11. u = [s EXCEPT !.jobs = jobs, !.ns = ns]
  BY DEF DeadLetter, ring, over
<1> HIDE DEF f, kept
<1>12. /\ DOMAIN jobs = DOMAIN s.jobs \ Dropped(s, i)
       /\ i \in DOMAIN jobs /\ jobs[i] = Moved(f, "dead")
       /\ \A k \in DOMAIN jobs \ {i} : jobs[k] = s.jobs[k]
  BY <1>1, <1>8
<1>13. /\ DOMAIN ns = DOMAIN s.ns
       /\ \A n \in DOMAIN s.ns : /\ ns[n] \in NsState
                                 /\ ns[n].config = s.ns[n].config
                                 /\ ns[n].ring = IF n = n0 THEN kept ELSE s.ns[n].ring
  <2> DEFINE c == [s.ns[n0] EXCEPT !.ring = kept, !.dead = @ + 1]
  <2>1. \A n \in DOMAIN s.ns : s.ns[n] \in NsState
    BY <1>1 DEF StateOK
  <2>4. s.ns[n0] \in NsState /\ n0 \in DOMAIN s.ns
    BY <1>2
  <2> HIDE DEF n0
  <2>2. c \in NsState /\ c.ring = kept /\ c.config = s.ns[n0].config
    BY <1>9, <2>4, RingSet, Zenon
  <2>3. ns = [s.ns EXCEPT ![n0] = c]
    BY <2>4 DEF NsState
  <2> HIDE DEF c, ns
  <2> QED  BY <2>1, <2>2, <2>3, <2>4
<1> HIDE DEF jobs, ns, u, n0
<1>14. u = [next |-> s.next, jobs |-> jobs, ns |-> ns, workers |-> s.workers]
  BY <1>1, <1>11 DEF StateOK
<1>15. u.next = s.next /\ u.jobs = jobs /\ u.ns = ns
  BY <1>14
<1>16. StateOK(u)
  <2>1. \A k \in DOMAIN jobs : jobs[k] \in Job /\ jobs[k].ns \in DOMAIN ns
    BY <1>1, <1>2, <1>10, <1>12, <1>13 DEF StateOK
  <2>2. DOMAIN jobs \subseteq 1 .. s.next - 1
    BY <1>1, <1>12 DEF StateOK
  <2> QED  BY <1>1, <1>13, <1>14, <2>1, <2>2 DEF StateOK
<1>17. DeadIn(s, i, u)
  <2>1. \A k \in DOMAIN s.jobs \ DOMAIN u.jobs : s.jobs[k].st = "dead"
    BY <1>7, <1>12, <1>15
  <2> QED  BY <1>10, <1>12, <1>15, <2>1 DEF DeadIn
<1>18. Rings(u)
  <2> SUFFICES ASSUME NEW n \in DOMAIN u.ns
               PROVE  /\ u.ns[n].config.dead > 0
                      /\ \A k \in DOMAIN u.ns[n].ring :
                            /\ u.ns[n].ring[k] < u.next
                            /\ u.ns[n].ring[k] \in DOMAIN u.jobs
                                  => u.jobs[u.ns[n].ring[k]].st = "dead"
    BY DEF Rings
  <2>1. u.ns[n].config.dead > 0
    BY <1>1, <1>13, <1>15 DEF Rings
  <2>2. \A k \in DOMAIN u.jobs : s.jobs[k].st = "dead" => u.jobs[k].st = "dead"
    BY <1>10, <1>12, <1>15
  <2>3. ASSUME NEW k \in DOMAIN u.ns[n].ring
        PROVE  /\ u.ns[n].ring[k] < u.next
               /\ u.ns[n].ring[k] \in DOMAIN u.jobs
                     => u.jobs[u.ns[n].ring[k]].st = "dead"
    <3>1. CASE n = n0
      <4>1. PICK m \in 1 .. Len(ring) : u.ns[n].ring[k] = ring[m]
        BY <1>2, <1>9, <1>13, <1>15, <2>3, <3>1
      <4>2. CASE m = Len(ring)
        <5>1. u.ns[n].ring[k] = i
          BY <1>4, <1>21, <4>1, <4>2
        <5>2. i < u.next
          BY <1>1, <1>15, QueueAssumption DEF StateOK
        <5> QED  BY <1>10, <1>12, <1>15, <5>1, <5>2
      <4>3. CASE m # Len(ring)
        <5>1. m \in 1 .. Len(ring) - 1
          BY <1>4, <4>3
        <5> QED  BY <1>6, <1>12, <1>15, <2>2, <4>1, <5>1
      <4> QED  BY <4>2, <4>3
    <3>2. CASE n # n0
      <4>1. n \in DOMAIN s.ns /\ u.ns[n].ring = s.ns[n].ring
        BY <1>13, <1>15, <3>2
      <4>2. /\ s.ns[n].ring[k] < s.next
            /\ s.ns[n].ring[k] \in DOMAIN s.jobs => s.jobs[s.ns[n].ring[k]].st = "dead"
        BY <1>1, <2>3, <4>1 DEF Rings
      <4> QED  BY <1>12, <1>15, <2>2, <4>1, <4>2
    <3> QED  BY <3>1, <3>2
  <2> QED  BY <2>1, <2>3
<1> QED  BY <1>16, <1>17, <1>18 DEF u

\* Dead-lettering a job with its dependents keeps a good state good.
LEMMA GiveUpGood ==
    ASSUME NEW s, Good(s), NEW i \in Live(s)
    PROVE  Good(GiveUp(s, i)) /\ Keeps(s, GiveUp(s, i))
<1> DEFINE d == DeadLetter(s, i)
           u == GiveUp(s, i)
<1>1. /\ StateOK(s) /\ Links(s) /\ \A k \in Live(s) : Gated(s, k)
      /\ i \in DOMAIN s.jobs
  BY DEF Good, Almost, Live
<1>2. StateOK(d) /\ DeadIn(s, i, d) /\ Rings(d)
  BY DeadLetterFields
<1> HIDE DEF d
<1>3. u = CascadeCancel(d, s.jobs[i].kids)
  BY <1>2 DEF GiveUp, DeadIn, d
<1>4. Live(d) = Live(s) \ {i}
  BY <1>2 DEF DeadIn, Live, Terminal
<1>5. \A k \in DOMAIN d.jobs : /\ d.jobs[k].kids = s.jobs[k].kids
                               /\ d.jobs[k].deps = s.jobs[k].deps
  BY <1>2 DEF DeadIn
<1>6. Links(d)
  BY <1>1, <1>2, <1>5 DEF Links, DeadIn
<1>7. ASSUME NEW k \in Live(d) \ s.jobs[i].kids PROVE Gated(d, k)
  <2>1. /\ k \in Live(s) /\ k # i /\ Gated(s, k)
        /\ k \in DOMAIN d.jobs /\ d.jobs[k] = s.jobs[k]
    BY <1>1, <1>2, <1>4 DEF Live, DeadIn
  <2>2. i \notin s.jobs[k].deps
    BY <1>7, <2>1 DEF Gated
  <2>3. \A e \in s.jobs[k].deps :
           /\ e \in DOMAIN d.jobs /\ e # i /\ d.jobs[e] = s.jobs[e]
    BY <1>2, <2>1, <2>2 DEF Gated, DeadIn
  <2>4. s.jobs[k].deps \cap Live(d) = s.jobs[k].deps \cap Live(s)
    BY <1>4, <2>2
  <2> QED  BY <1>4, <2>1, <2>3, <2>4 DEF Gated
<1>8. Almost(d, s.jobs[i].kids)
  BY <1>2, <1>6, <1>7 DEF Almost
<1>9. Good(u) /\ Keeps(d, u)
  BY <1>3, <1>8, CancelGood
<1>10. s.next <= u.next
  <2>1. d.next = s.next
    BY <1>2 DEF DeadIn
  <2> QED  BY <1>9, <2>1 DEF Keeps
<1>11. \A k \in DOMAIN s.jobs : s.jobs[k].st = "completed"
          => k \in DOMAIN d.jobs /\ d.jobs[k].st = "completed"
  <2>1. s.jobs[i].st # "completed"
    BY DEF Live, Terminal
  <2> QED  BY <1>2, <2>1 DEF DeadIn
<1>12. Keeps(s, u)
  BY <1>9, <1>10, <1>11 DEF Keeps
<1> QED  BY <1>9, <1>12 DEF u

-----------------------------------------------------------------------------
(* Leases *)

\* Job i is kept for w until the clock, which started at e, shows h - e.
KeptFor(s, w, i, h, e) ==
    /\ i \in DOMAIN s.jobs
    /\ \/ s.jobs[i].st = "cancelled"
       \/ s.jobs[i].st = "leased" /\ s.jobs[i].by = w /\ e + s.jobs[i].at >= h

\* No lease is touched but those on the jobs of X, and those of cancelled jobs.
Stays(s, u, X) ==
    \A i \in DOMAIN s.jobs \ X :
        s.jobs[i].st \in {"cancelled", "leased"} =>
            /\ i \in DOMAIN u.jobs
            /\ \/ u.jobs[i].st = "cancelled"
               \/ /\ u.jobs[i].st = s.jobs[i].st
                  /\ u.jobs[i].by = s.jobs[i].by
                  /\ u.jobs[i].at = s.jobs[i].at

\* Who counts on a lease still can when the job stays.
LEMMA StaysKept ==
    ASSUME NEW s, NEW u, NEW X, Stays(s, u, X), NEW w, NEW i, i \notin X,
           NEW h, NEW e, KeptFor(s, w, i, h, e)
    PROVE  KeptFor(u, w, i, h, e)
BY DEF Stays, KeptFor

\* Ticking keeps completed jobs and the next id.
LEMMA TickKept ==
    ASSUME NEW s, StateOK(s), NEW t \in Nat, NEW w, NEW i, NEW e \in Nat,
           NEW h \in Nat, h > e + t, KeptFor(s, w, i, h, e)
    PROVE  KeptFor(Tick(s, t), w, i, h, e)
<1>1. i \in DOMAIN s.jobs /\ s.jobs[i] \in Job
  BY DEF StateOK, KeptFor
<1>2. s.jobs[i].at \in Nat
  BY <1>1 DEF Job
<1>3. s.jobs[i].st = "leased" => ~(s.jobs[i].at <= t)
  BY <1>2 DEF KeptFor
<1>4. Tick(s, t).jobs[i] = s.jobs[i] /\ DOMAIN Tick(s, t).jobs = DOMAIN s.jobs
  BY <1>1, <1>3, TickFields DEF KeptFor
<1> QED  BY <1>4 DEF KeptFor

\* Cancellation keeps completed jobs and the next id.
LEMMA CancelStays ==
    ASSUME NEW s, StateOK(s), NEW roots
    PROVE  Stays(s, CascadeCancel(s, roots), {})
<1> DEFINE u == CascadeCancel(s, roots)
<1>1. /\ DOMAIN u.jobs = DOMAIN s.jobs
      /\ \A i \in DOMAIN s.jobs :
            u.jobs[i] = IF i \in Cascade(s, roots)
                        THEN Moved(s.jobs[i], "cancelled") ELSE s.jobs[i]
  BY CancelFields
<1> HIDE DEF u
<1>2. \A i \in DOMAIN s.jobs : Moved(s.jobs[i], "cancelled").st = "cancelled"
  <2>1. "cancelled" \in JobStates
    BY DEF JobStates, Terminal
  <2> QED  BY <2>1, MovedFields DEF StateOK
<1> QED  BY <1>1, <1>2 DEF Stays, u

\* Enqueueing keeps completed jobs and does not lower the next id.
LEMMA AdmitStays ==
    ASSUME NEW s, StateOK(s), NEW r \in Requests, NEW t \in Nat,
           ValidDeps(s, r), r.ns \in DOMAIN s.ns, s.next \in Ids
    PROVE  Stays(s, Admit(s, r, t), {})
<1> DEFINE a == Added(s, r, t)
<1>1. StateOK(a) /\ AddedTo(s, r, a)
  BY AddedFields
<1>2. Admit(s, r, t) = a \/ Admit(s, r, t) = CascadeCancel(a, {s.next})
  BY DEF Admit
<1> HIDE DEF a
<1>3. Stays(s, a, {})
  BY <1>1 DEF Stays, AddedTo
<1>4. Stays(a, CascadeCancel(a, {s.next}), {})
  BY <1>1, CancelStays
<1> QED  BY <1>2, <1>3, <1>4 DEF Stays

\* Dead-lettering keeps completed jobs and the next id.
LEMMA GiveUpStays ==
    ASSUME NEW s, Good(s), NEW i \in Live(s)
    PROVE  Stays(s, GiveUp(s, i), {i})
<1> DEFINE d == DeadLetter(s, i)
           u == GiveUp(s, i)
<1>1. StateOK(d) /\ DeadIn(s, i, d)
  BY DeadLetterFields
<1>2. u = CascadeCancel(d, d.jobs[i].kids)
  BY <1>1 DEF GiveUp, DeadIn
<1> HIDE DEF d, u
<1>3. Stays(d, u, {})
  BY <1>1, <1>2, CancelStays
<1>4. Stays(s, d, {i})
  BY <1>1 DEF Stays, DeadIn
<1>5. \A k \in DOMAIN s.jobs \ {i} : k \in DOMAIN d.jobs => d.jobs[k] = s.jobs[k]
  BY <1>1 DEF DeadIn
<1> QED  BY <1>3, <1>4, <1>5 DEF Stays, u

-----------------------------------------------------------------------------
(* The inductive invariant *)

Kept(s, hold, e) ==
    \A w \in Workers, i \in Ids : hold[w][i] > 0 => KeptFor(s, w, i, hold[w][i], e)

Timed(hold, t) == \A w \in Workers, i \in Ids : hold[w][i] > 0 => hold[w][i] > t

Exclusive(hold) ==
    \A i \in Ids, v, w \in Workers : hold[v][i] > 0 /\ hold[w][i] > 0 => v = w

Acked(s, replies) ==
    /\ \A i \in replies.done : i \in DOMAIN s.jobs /\ s.jobs[i].st = "completed"
    /\ \A i \in replies.ids : i < s.next

Plain ==
    /\ now \in Nat
    /\ epoch \in Nat
    /\ faults \in Nat
    /\ told \in [ids : SUBSET Ids, done : SUBSET Ids]
    /\ held \in [Workers -> [Ids -> Nat]]

IInv ==
    /\ Plain
    /\ Good(mem) /\ Good(disk)
    /\ Timed(held, Instant) /\ Exclusive(held)
    /\ Kept(mem, held, epoch) /\ Kept(disk, held, epoch)
    /\ Acked(mem, told) /\ Acked(disk, told)

\* What is kept for the workers and promised to the clients is there in s.
Holds(s) == Good(s) /\ Kept(s, held, epoch) /\ Acked(s, told)

\* A state that keeps completed jobs keeps what clients were told.
LEMMA KeepsAcked ==
    ASSUME NEW s, NEW u, Keeps(s, u), StateOK(s), StateOK(u),
           NEW replies \in [ids : SUBSET Ids, done : SUBSET Ids], Acked(s, replies)
    PROVE  Acked(u, replies)
<1>1. s.next \in Nat /\ u.next \in Nat /\ s.next <= u.next
  BY QueueAssumption DEF StateOK, Keeps
<1>2. \A i \in replies.ids : i \in Nat /\ i < s.next
  BY QueueAssumption DEF Acked, Ids
<1>3. \A i \in replies.ids : i < u.next
  BY <1>1, <1>2
<1> QED  BY <1>3 DEF Keeps, Acked

\* Ticking takes no lease that has not run out.
LEMMA TickHolds ==
    ASSUME IInv
    PROVE  Holds(Ticked)
<1>1. Good(mem) /\ StateOK(mem) /\ Plain
  BY DEF IInv, Good, Almost
<1>2. Good(Ticked) /\ Keeps(mem, Ticked) /\ StateOK(Ticked)
  BY <1>1, TickGood DEF Ticked, Good, Almost
<1>3. Acked(Ticked, told)
  BY <1>1, <1>2, KeepsAcked DEF IInv, Plain
<1>4. Kept(Ticked, held, epoch)
  <2> SUFFICES ASSUME NEW w \in Workers, NEW i \in Ids, held[w][i] > 0
               PROVE  KeptFor(Ticked, w, i, held[w][i], epoch)
    BY DEF Kept
  <2>1. KeptFor(mem, w, i, held[w][i], epoch) /\ held[w][i] > epoch + now
    BY DEF IInv, Kept, Timed, Instant
  <2>2. held[w][i] \in Nat /\ now \in Nat /\ epoch \in Nat
    BY <1>1 DEF Plain
  <2> QED  BY <1>1, <2>1, <2>2, TickKept DEF Ticked
<1> QED  BY <1>2, <1>3, <1>4 DEF Holds

\* Fewer leases are counted on.
Fewer == /\ held' \in [Workers -> [Ids -> Nat]]
         /\ \A w \in Workers, i \in Ids : held'[w][i] \in {0, held[w][i]}

\* Giving up holds keeps them exclusive.
LEMMA FewerHeld ==
    ASSUME IInv, Fewer
    PROVE  /\ Timed(held', Instant) /\ Exclusive(held')
           /\ \A s : Kept(s, held, epoch) => Kept(s, held', epoch)
<1>1. \A w \in Workers, i \in Ids : held'[w][i] > 0 => held'[w][i] = held[w][i]
  BY DEF Fewer
<1>2. Timed(held', Instant)
  BY <1>1 DEF IInv, Timed
<1>3. Exclusive(held')
  BY <1>1 DEF IInv, Exclusive
<1>4. \A s : Kept(s, held, epoch) => Kept(s, held', epoch)
  BY <1>1 DEF Kept
<1> QED  BY <1>2, <1>3, <1>4

\* A refused call keeps the invariant.
LEMMA RefuseStep ==
    ASSUME IInv, NEW s, Holds(s), Refuse(s), Fewer
    PROVE  IInv'
<1>1. /\ mem' = s /\ disk' = disk /\ now' = now /\ epoch' = epoch
      /\ faults' = faults /\ told' = told
  BY DEF Refuse
<1>2. Plain'
  BY <1>1 DEF IInv, Plain, Fewer
<1>3. /\ Timed(held', Instant) /\ Exclusive(held')
      /\ Kept(s, held', epoch) /\ Kept(disk, held', epoch)
  BY FewerHeld DEF Holds, IInv
<1>4. Instant' = Instant
  BY <1>1 DEF Instant
<1> QED  BY <1>1, <1>2, <1>3, <1>4 DEF IInv, Holds

\* Saving a good new state, or failing to, keeps the invariant.
LEMMA SaveStep ==
    ASSUME IInv, NEW u, Good(u), NEW ok, Save(u, ok),
           held' \in [Workers -> [Ids -> Nat]], Timed(held', Instant),
           Exclusive(held'), Kept(u, held', epoch),
           ok \/ Kept(disk, held', epoch),
           told' \in [ids : SUBSET Ids, done : SUBSET Ids],
           Acked(u, told'), ok \/ Acked(disk, told')
    PROVE  IInv'
<1>1. mem' = u /\ now' = now /\ epoch' = epoch
  BY DEF Save
<1>2. faults' \in Nat
  BY DEF Save, IInv, Plain
<1>3. \/ disk' = u
      \/ disk' = disk /\ ~ok
  BY DEF Save
<1>4. Plain'
  BY <1>1, <1>2 DEF IInv, Plain
<1>5. Good(disk') /\ Kept(disk', held', epoch) /\ Acked(disk', told')
  BY <1>3 DEF IInv
<1>6. Instant' = Instant
  BY <1>1 DEF Instant
<1> QED  BY <1>1, <1>4, <1>5, <1>6 DEF IInv

\* A save of a change that touches only leases nobody counts on any more.
LEMMA StayStep ==
    ASSUME IInv, NEW s, Holds(s), NEW u, Good(u), Keeps(s, u),
           NEW X, Stays(s, u, X), NEW ok, Save(u, ok), Fewer,
           \A w \in Workers, i \in Ids : i \in X => held'[w][i] = 0,
           told' \in [ids : SUBSET Ids, done : SUBSET Ids],
           Acked(u, told'), ok \/ told' = told
    PROVE  IInv'
<1>1. Timed(held', Instant) /\ Exclusive(held')
  BY FewerHeld
<1>2. Kept(s, held', epoch) /\ Kept(disk, held', epoch)
  BY FewerHeld DEF Holds, IInv
<1>3. Kept(u, held', epoch)
  <2> SUFFICES ASSUME NEW w \in Workers, NEW i \in Ids, held'[w][i] > 0
               PROVE  KeptFor(u, w, i, held'[w][i], epoch)
    BY DEF Kept
  <2>1. KeptFor(s, w, i, held'[w][i], epoch)
    BY <1>2 DEF Kept
  <2>2. i \notin X
    OBVIOUS
  <2> QED  BY <2>1, <2>2, StaysKept
<1>4. ok \/ Acked(disk, told')
  BY DEF IInv
<1>5. held' \in [Workers -> [Ids -> Nat]]
  BY DEF Fewer
<1> QED  BY <1>1, <1>2, <1>3, <1>4, <1>5, SaveStep

\* A save of a change after which all leases and all promises are as before.
LEMMA QuietStep ==
    ASSUME IInv, NEW s, Holds(s), NEW u, Good(u), Keeps(s, u), Stays(s, u, {}),
           NEW ok, Save(u, ok), held' = held, told' = told
    PROVE  IInv'
<1>1. Plain /\ StateOK(s) /\ StateOK(u)
  BY DEF IInv, Holds, Good, Almost
<1>2. Acked(u, told)
  BY <1>1, KeepsAcked DEF Plain, Holds
<1>3. Fewer
  BY <1>1 DEF Plain, Fewer
<1>4. told' \in [ids : SUBSET Ids, done : SUBSET Ids]
  BY <1>1 DEF Plain
<1>5. \A w \in Workers, i \in Ids : i \in {} => held'[w][i] = 0
  OBVIOUS
<1>6. Acked(u, told') /\ (ok \/ told' = told)
  BY <1>2
<1> QED  BY <1>3, <1>4, <1>5, <1>6, StayStep

\* A change outside the jobs lets every job stay.
LEMMA SameJobsStay ==
    ASSUME NEW s, NEW u, u.jobs = s.jobs, NEW X
    PROVE  Stays(s, u, X)
BY DEF Stays

\* Who counts on a lease of a job that is not cancelled is its holder.
LEMMA OnlyHolder ==
    ASSUME IInv, NEW s, Holds(s), NEW i \in Ids, i \in DOMAIN s.jobs,
           s.jobs[i].st # "cancelled", NEW v \in Workers, held[v][i] # 0
    PROVE  s.jobs[i].st = "leased" /\ s.jobs[i].by = v
<1>1. held[v][i] > 0
  BY DEF IInv, Plain
<1> QED  BY <1>1 DEF Holds, Kept, KeptFor

\* A job that is held has not ended.
LEMMA HolderJob ==
    ASSUME NEW s, Good(s), NEW w, NEW i, IsHolder(s, w, i)
    PROVE  i \in Live(s) /\ i \in DOMAIN s.jobs /\ i \in Ids
<1>1. i \in DOMAIN s.jobs /\ s.jobs[i].st = "leased"
  BY DEF IsHolder
<1>2. i \in 1 .. s.next - 1 /\ s.next \in 1 .. MaxJobs + 1
  BY <1>1 DEF Good, Almost, StateOK
<1>3. i \in Ids
  BY <1>2, QueueAssumption DEF Ids
<1> QED  BY <1>1, <1>3 DEF Live, Terminal

-----------------------------------------------------------------------------
(* One lemma per operation *)

\* Queue::enqueue keeps the invariant.
LEMMA EnqueueStep ==
    ASSUME IInv, NEW r \in Requests, NEW ok \in BOOLEAN, Enqueue(r, ok)
    PROVE  IInv'
<1> DEFINE s == EnsureNs(Ticked, r.ns, DefaultConfig)
           u == Admit(s, r, now)
<1>1. Holds(Ticked) /\ Good(Ticked) /\ StateOK(Ticked) /\ Plain
  BY TickHolds DEF Holds, Good, Almost, IInv
<1>2. r.ns \in Namespaces /\ DefaultConfig \in Configs /\ DefaultConfig.dead > 0
  BY QueueAssumption, RingAssumption
<1>3. Good(s) /\ Keeps(Ticked, s)
  BY <1>1, <1>2, EnsureGood
<1>4. s.jobs = Ticked.jobs /\ r.ns \in DOMAIN s.ns
  BY <1>1, <1>2, EnsureFields
<1>5. StateOK(s)
  BY <1>3 DEF Good, Almost
<1>6. CASE Refuse(s) /\ held' = held
  <2> HIDE DEF s
  <2>1. Acked(s, told)
    BY <1>1, <1>3, <1>5, KeepsAcked DEF Plain, Holds
  <2>2. Kept(s, held, epoch)
    BY <1>1, <1>4 DEF Holds, Kept, KeptFor
  <2>3. Fewer
    BY <1>1, <1>6 DEF Plain, Fewer
  <2> QED  BY <1>3, <1>6, <2>1, <2>2, <2>3, RefuseStep DEF Holds
<1>7. CASE /\ held' = held
           /\ ValidDeps(s, r)
           /\ s.next \in Ids
           /\ Save(u, ok)
           /\ told' = IF ok THEN [told EXCEPT !.ids = @ \cup {s.next}] ELSE told
  <2>1. Good(u) /\ Keeps(s, u) /\ Stays(s, u, {})
    BY <1>1, <1>3, <1>4, <1>5, <1>7, AdmitGood, AdmitStays DEF Plain
  <2>2. u.next = s.next + 1
    <3>1. StateOK(Added(s, r, now)) /\ AddedTo(s, r, Added(s, r, now))
      BY <1>1, <1>4, <1>5, <1>7, AddedFields DEF Plain
    <3>2. CascadeCancel(Added(s, r, now), {s.next}).next = Added(s, r, now).next
      BY <3>1, CancelFields
    <3> QED  BY <3>1, <3>2 DEF Admit, AddedTo
  <2> HIDE DEF s, u
  <2>3. Acked(s, told)
    BY <1>1, <1>3, <1>5, KeepsAcked DEF Plain, Holds
  <2>4. Kept(s, held, epoch)
    BY <1>1, <1>4 DEF Holds, Kept, KeptFor
  <2>5. StateOK(u) /\ Holds(s)
    BY <1>3, <2>1, <2>3, <2>4 DEF Good, Almost, Holds
  <2>6. Acked(u, told)
    BY <1>1, <1>5, <2>1, <2>3, <2>5, KeepsAcked DEF Plain
  <2>7. told' \in [ids : SUBSET Ids, done : SUBSET Ids]
    BY <1>1, <1>7 DEF Plain
  <2>8. s.next < u.next
    BY <2>2, <1>7 DEF Ids
  <2>9. Acked(u, told')
    <3>1. CASE ~ok
      BY <3>1, <1>7, <2>6
    <3>2. CASE ok
      <4>1. told'.done = told.done /\ told'.ids = told.ids \cup {s.next}
        BY <3>2, <1>1, <1>7 DEF Plain
      <4> QED  BY <4>1, <2>6, <2>8 DEF Acked
    <3> QED  BY <3>1, <3>2
  <2>10. Fewer
    BY <1>1, <1>7 DEF Plain, Fewer
  <2>11. \A w \in Workers, i \in Ids : i \in {} => held'[w][i] = 0
    OBVIOUS
  <2> QED  BY <1>7, <2>1, <2>5, <2>7, <2>9, <2>10, <2>11, StayStep, SMTT(60)
<1> QED  BY <1>6, <1>7 DEF Enqueue

\* Handing out a lease keeps the holds exclusive.
LEMMA LeaseStep ==
    ASSUME IInv, NEW w \in Workers, NEW i \in DOMAIN Ticked.jobs, i \in Ids,
           Ticked.jobs[i].st \notin Terminal, NEW d \in Nat,
           \A v \in Workers : held[v][i] # 0 => v = w,
           NEW ok, Save(Lease(Ticked, i, w, now + d), ok), told' = told,
           NEW h \in Nat, h # 0 => h > Instant /\ h <= Instant + d,
           ok \/ h <= held[w][i],
           held' = [held EXCEPT ![w][i] = h]
    PROVE  IInv'
<1> DEFINE u == Lease(Ticked, i, w, now + d)
<1>1. Holds(Ticked) /\ Good(Ticked) /\ StateOK(Ticked) /\ Plain
  BY TickHolds DEF Holds, Good, Almost, IInv
<1>2. now + d \in Nat /\ now \in Nat /\ epoch \in Nat
  BY <1>1 DEF Plain
<1>3. Good(u) /\ Keeps(Ticked, u) /\ StateOK(u)
  BY <1>1, <1>2, LeaseGood DEF Good, Almost
<1>4. /\ DOMAIN u.jobs = DOMAIN Ticked.jobs
      /\ \A k \in DOMAIN Ticked.jobs \ {i} : u.jobs[k] = Ticked.jobs[k]
      /\ u.jobs[i].st = "leased" /\ u.jobs[i].at = now + d /\ u.jobs[i].by = w
  BY <1>1, <1>2, LeaseFields
<1> HIDE DEF u
<1>5. Acked(u, told)
  BY <1>1, <1>3, KeepsAcked DEF Plain, Holds
<1>6. /\ held' \in [Workers -> [Ids -> Nat]]
      /\ held'[w][i] = h
      /\ \A v \in Workers, k \in Ids :
            v # w \/ k # i => held'[v][k] = held[v][k]
  BY <1>1 DEF Plain
<1>7. Timed(held', Instant)
  <2> SUFFICES ASSUME NEW v \in Workers, NEW k \in Ids, held'[v][k] > 0
               PROVE  held'[v][k] > Instant
    BY DEF Timed
  <2>1. CASE v = w /\ k = i
    BY <2>1, <1>6
  <2>2. CASE v # w \/ k # i
    BY <2>2, <1>6 DEF IInv, Timed
  <2> QED  BY <2>1, <2>2
<1>8. \A v \in Workers \ {w} : held'[v][i] = 0
  BY <1>6
<1>9. Exclusive(held')
  <2> SUFFICES ASSUME NEW k \in Ids, NEW v \in Workers, NEW x \in Workers,
                      held'[v][k] > 0, held'[x][k] > 0
               PROVE  v = x
    BY DEF Exclusive
  <2>1. CASE k = i
    BY <2>1, <1>8
  <2>2. CASE k # i
    BY <2>2, <1>6 DEF IInv, Exclusive
  <2> QED  BY <2>1, <2>2
<1>10. Kept(u, held', epoch)
  <2> SUFFICES ASSUME NEW v \in Workers, NEW k \in Ids, held'[v][k] > 0
               PROVE  KeptFor(u, v, k, held'[v][k], epoch)
    BY DEF Kept
  <2>1. CASE k = i
    <3>1. v = w /\ h # 0 /\ held'[v][k] = h
      BY <2>1, <1>6, <1>8
    <3>2. epoch + (now + d) >= h
      BY <1>2, <3>1 DEF Instant
    <3> QED  BY <1>4, <2>1, <3>1, <3>2 DEF KeptFor
  <2>2. CASE k # i
    <3>1. held'[v][k] = held[v][k] /\ KeptFor(Ticked, v, k, held[v][k], epoch)
      BY <2>2, <1>1, <1>6 DEF Holds, Kept
    <3> QED  BY <1>4, <2>2, <3>1 DEF KeptFor
  <2> QED  BY <2>1, <2>2
<1>11. ok \/ Kept(disk, held', epoch)
  <2> SUFFICES ASSUME ~ok, NEW v \in Workers, NEW k \in Ids, held'[v][k] > 0
               PROVE  KeptFor(disk, v, k, held'[v][k], epoch)
    BY DEF Kept
  <2>1. held'[v][k] <= held[v][k] /\ held'[v][k] \in Nat /\ held[v][k] \in Nat
    BY <1>1, <1>6 DEF Plain
  <2>2. KeptFor(disk, v, k, held[v][k], epoch)
    BY <2>1 DEF IInv, Kept
  <2>3. k \in DOMAIN disk.jobs /\ disk.jobs[k].at \in Nat
    BY <2>2 DEF KeptFor, IInv, Good, Almost, StateOK, Job
  <2> QED  BY <1>2, <2>1, <2>2, <2>3 DEF KeptFor
<1>12. told' \in [ids : SUBSET Ids, done : SUBSET Ids]
  BY <1>1 DEF Plain
<1>13. Acked(u, told') /\ Acked(disk, told')
  BY <1>5 DEF IInv
<1>14. Save(u, ok)
  BY DEF u
<1> QED  BY <1>3, <1>6, <1>7, <1>9, <1>10, <1>11, <1>12, <1>13, <1>14, SaveStep

\* A call refused after its tick keeps the invariant.
LEMMA TickedRefused ==
    ASSUME IInv, Refuse(Ticked), Fewer
    PROVE  IInv'
BY TickHolds, RefuseStep

\* Queue::acquire keeps the invariant.
LEMMA AcquireStep ==
    ASSUME IInv, NEW w \in Workers, NEW d \in Leases, NEW ok \in BOOLEAN,
           Acquire(w, d, ok)
    PROVE  IInv'
<1>1. Holds(Ticked) /\ Good(Ticked) /\ StateOK(Ticked) /\ Plain
  BY TickHolds DEF Holds, Good, Almost, IInv
<1>2. CASE Refuse(Ticked) /\ held' = held
  BY <1>1, <1>2, TickedRefused DEF Plain, Fewer
<1>3. ASSUME NEW i \in Acquirable(Ticked, CapsOf(Ticked, w)),
             Save(Lease(Ticked, i, w, now + d), ok),
             held' = IF ok THEN [held EXCEPT ![w][i] = Until(d)] ELSE held,
             told' = told
      PROVE  IInv'
  <2>1. i \in DOMAIN Ticked.jobs /\ Ticked.jobs[i].st = "pending"
    BY DEF Acquirable
  <2>2. i \in 1 .. Ticked.next - 1 /\ Ticked.next \in 1 .. MaxJobs + 1
    BY <1>1, <2>1 DEF StateOK
  <2>3. i \in Ids
    BY <2>2, QueueAssumption DEF Ids
  <2>4. \A v \in Workers : held[v][i] = 0
    BY <1>1, <2>1, <2>3, OnlyHolder
  <2>5. Ticked.jobs[i].st \notin Terminal
    BY <2>1 DEF Terminal
  <2>6. d \in Nat /\ Instant \in Nat
    BY <1>1, QueueAssumption DEF Plain, Instant
  <2> DEFINE h == IF ok THEN Until(d) ELSE 0
  <2>7. h \in Nat /\ (h # 0 => h > Instant /\ h <= Instant + d)
    BY <2>6 DEF Until
  <2>8. held' = [held EXCEPT ![w][i] = h]
    BY <1>1, <1>3, <2>3, <2>4 DEF Plain
  <2>9. ok \/ h <= held[w][i]
    BY <2>4
  <2>10. \A v \in Workers : held[v][i] # 0 => v = w
    BY <2>4
  <2> HIDE DEF h
  <2> QED  BY <1>3, <2>1, <2>3, <2>5, <2>6, <2>7, <2>8, <2>9, <2>10, LeaseStep
<1> QED  BY <1>2, <1>3 DEF Acquire

\* Queue::heartbeat keeps the invariant.
LEMMA HeartbeatStep ==
    ASSUME IInv, NEW w \in Workers, NEW i \in Ids, NEW d \in Leases,
           NEW ok \in BOOLEAN, Heartbeat(w, i, d, ok)
    PROVE  IInv'
<1>1. Holds(Ticked) /\ Good(Ticked) /\ StateOK(Ticked) /\ Plain
  BY TickHolds DEF Holds, Good, Almost, IInv
<1>2. CASE Refuse(Ticked) /\ held' = held
  BY <1>1, <1>2, TickedRefused DEF Plain, Fewer
<1>3. CASE /\ IsHolder(Ticked, w, i)
           /\ Save(Lease(Ticked, i, w, now + d), ok)
           /\ held' = IF ok \/ Instant + d < held[w][i]
                      THEN [held EXCEPT ![w][i] = Until(d)] ELSE held
           /\ told' = told
  <2>1. i \in DOMAIN Ticked.jobs /\ Ticked.jobs[i].st = "leased" /\ Ticked.jobs[i].by = w
    BY <1>3 DEF IsHolder
  <2>2. \A v \in Workers : held[v][i] # 0 => v = w
    BY <1>1, <2>1, OnlyHolder
  <2>3. Ticked.jobs[i].st \notin Terminal
    BY <2>1 DEF Terminal
  <2>4. d \in Nat /\ Instant \in Nat /\ held[w][i] \in Nat
    BY <1>1, QueueAssumption DEF Plain, Instant
  <2> DEFINE h == IF ok \/ Instant + d < held[w][i] THEN Until(d) ELSE held[w][i]
  <2>5. held[w][i] # 0 => held[w][i] > Instant
    BY <2>4 DEF IInv, Timed
  <2>6. h \in Nat /\ (h # 0 => h > Instant /\ h <= Instant + d)
    BY <2>4, <2>5 DEF Until
  <2>7. held' = [held EXCEPT ![w][i] = h]
    BY <1>1, <1>3 DEF Plain
  <2>8. ok \/ h <= held[w][i]
    BY <2>4 DEF Until
  <2>9. Save(Lease(Ticked, i, w, now + d), ok) /\ told' = told
    BY <1>3
  <2>10. i \in DOMAIN Ticked.jobs /\ d \in Nat
    BY <2>1, <2>4
  <2> HIDE DEF h
  <2> QED  BY <2>2, <2>3, <2>6, <2>7, <2>8, <2>9, <2>10, LeaseStep, ZenonT(30)
<1> QED  BY <1>2, <1>3 DEF Heartbeat

\* After complete or fail nobody counts on a lease of the job.
LEMMA HolderGone ==
    ASSUME IInv, NEW w \in Workers, NEW i \in Ids,
           held' = [held EXCEPT ![w][i] = 0]
    PROVE  /\ Fewer
           /\ IsHolder(Ticked, w, i) => \A v \in Workers : held'[v][i] = 0
<1>1. Holds(Ticked) /\ Plain
  BY TickHolds DEF IInv
<1>2. Fewer
  BY <1>1 DEF Plain, Fewer
<1>3. ASSUME IsHolder(Ticked, w, i), NEW v \in Workers
      PROVE  held'[v][i] = 0
  <2>1. CASE v = w
    BY <2>1, <1>1 DEF Plain
  <2>2. CASE v # w
    <3>1. held[v][i] = 0
      BY <1>1, <1>3, <2>2, OnlyHolder DEF IsHolder
    <3> QED  BY <1>1, <2>2, <3>1 DEF Plain
  <2> QED  BY <2>1, <2>2
<1> QED  BY <1>2, <1>3

\* Queue::complete keeps the invariant.
LEMMA CompleteStep ==
    ASSUME IInv, NEW w \in Workers, NEW i \in Ids, NEW ok \in BOOLEAN,
           Complete(w, i, ok)
    PROVE  IInv'
<1> DEFINE u == Finish(Ticked, i)
<1>1. Holds(Ticked) /\ Good(Ticked) /\ StateOK(Ticked) /\ Plain
  BY TickHolds DEF Holds, Good, Almost, IInv
<1>2. held' = [held EXCEPT ![w][i] = 0]
  BY DEF Complete
<1>3. Fewer
  BY <1>2, HolderGone
<1>4. CASE Refuse(Ticked)
  BY <1>3, <1>4, TickedRefused
<1>5. CASE /\ IsHolder(Ticked, w, i)
           /\ Save(u, ok)
           /\ told' = IF ok THEN [told EXCEPT !.done = @ \cup {i}] ELSE told
  <2>1. i \in Live(Ticked) /\ i \in DOMAIN Ticked.jobs
    BY <1>1, <1>5, HolderJob
  <2>2. Good(u) /\ Keeps(Ticked, u) /\ FinishedIn(Ticked, i, u) /\ StateOK(u)
    BY <1>1, <2>1, FinishGood, FinishFields
  <2> HIDE DEF u
  <2>3. Stays(Ticked, u, {i})
    BY <2>2 DEF Stays, FinishedIn
  <2>4. Acked(u, told)
    BY <1>1, <2>2, KeepsAcked DEF Plain, Holds
  <2>5. told' \in [ids : SUBSET Ids, done : SUBSET Ids]
    BY <1>1, <1>5 DEF Plain
  <2>6. Acked(u, told')
    <3>1. CASE ~ok
      BY <3>1, <1>5, <2>4
    <3>2. CASE ok
      <4>1. told'.ids = told.ids /\ told'.done = told.done \cup {i}
        BY <3>2, <1>1, <1>5 DEF Plain
      <4>2. i \in DOMAIN u.jobs /\ u.jobs[i].st = "completed"
        BY <2>1, <2>2 DEF FinishedIn
      <4> QED  BY <4>1, <4>2, <2>4 DEF Acked
    <3> QED  BY <3>1, <3>2
  <2>7. \A v \in Workers, k \in Ids : k \in {i} => held'[v][k] = 0
    BY <1>2, <1>5, HolderGone
  <2>8. ok \/ told' = told
    BY <1>5
  <2> QED  BY <1>1, <1>3, <1>5, <2>2, <2>3, <2>5, <2>6, <2>7, <2>8, StayStep
<1> QED  BY <1>4, <1>5 DEF Complete

\* fail ends in a state u with the job retried or dead.
LEMMA FailedStep ==
    ASSUME IInv, NEW w \in Workers, NEW i \in Ids, NEW ok \in BOOLEAN,
           IsHolder(Ticked, w, i), held' = [held EXCEPT ![w][i] = 0],
           NEW u, Good(u), Keeps(Ticked, u), Stays(Ticked, u, {i}),
           Save(u, ok), told' = told
    PROVE  IInv'
<1>1. Holds(Ticked) /\ StateOK(Ticked) /\ StateOK(u) /\ Plain
  BY TickHolds DEF Holds, Good, Almost, IInv
<1>2. Acked(u, told)
  BY <1>1, KeepsAcked DEF Plain, Holds
<1>3. told' \in [ids : SUBSET Ids, done : SUBSET Ids] /\ Acked(u, told')
  BY <1>1, <1>2 DEF Plain
<1>4. Fewer
  BY HolderGone
<1>5. \A v \in Workers, k \in Ids : k \in {i} => held'[v][k] = 0
  BY HolderGone
<1> QED  BY <1>1, <1>3, <1>4, <1>5, StayStep

\* Queue::fail keeps the invariant.
LEMMA FailStep ==
    ASSUME IInv, NEW w \in Workers, NEW i \in Ids, NEW ok \in BOOLEAN,
           Fail(w, i, ok)
    PROVE  IInv'
<1>1. Holds(Ticked) /\ Good(Ticked) /\ StateOK(Ticked) /\ Plain
  BY TickHolds DEF Holds, Good, Almost, IInv
<1>2. held' = [held EXCEPT ![w][i] = 0]
  BY DEF Fail
<1>3. CASE Refuse(Ticked)
  BY <1>2, <1>3, HolderGone, TickedRefused
<1>4. CASE IsHolder(Ticked, w, i) /\ told' = told /\ Save(GiveUp(Ticked, i), ok)
  <2>1. i \in Live(Ticked)
    BY <1>1, <1>4, HolderJob
  <2>2. /\ Good(GiveUp(Ticked, i)) /\ Keeps(Ticked, GiveUp(Ticked, i))
        /\ Stays(Ticked, GiveUp(Ticked, i), {i})
    BY <1>1, <2>1, GiveUpGood, GiveUpStays
  <2> QED  BY <1>2, <1>4, <2>2, FailedStep
<1>5. ASSUME IsHolder(Ticked, w, i), told' = told,
             NEW t \in Nat, Save(Retry(Ticked, i, t), ok)
      PROVE  IInv'
  <2>1. i \in DOMAIN Ticked.jobs /\ Ticked.jobs[i].st \notin Terminal
    BY <1>5 DEF IsHolder, Terminal
  <2>2. Good(Retry(Ticked, i, t)) /\ Keeps(Ticked, Retry(Ticked, i, t))
    BY <1>1, <2>1, RetryGood
  <2>3. Stays(Ticked, Retry(Ticked, i, t), {i})
    BY <1>1, <2>1, RetryFields DEF Stays
  <2> QED  BY <1>2, <1>5, <2>2, <2>3, FailedStep
<1>6. ASSUME NEW n, NEW delay \in Backoff(n)
      PROVE  now + delay \in Nat
  BY <1>1, QueueAssumption DEF Backoff, Plain
<1> QED  BY <1>3, <1>4, <1>5, <1>6 DEF Fail

\* Queue::cancel keeps the invariant.
LEMMA CancelStep ==
    ASSUME IInv, NEW i \in Ids, NEW ok \in BOOLEAN, Cancel(i, ok)
    PROVE  IInv'
<1> DEFINE u == CascadeCancel(Ticked, {i})
<1>1. Holds(Ticked) /\ Good(Ticked) /\ StateOK(Ticked)
  BY TickHolds DEF Holds, Good, Almost
<1>2. Almost(Ticked, {i})
  BY <1>1 DEF Good, Almost
<1>3. Good(u) /\ Keeps(Ticked, u) /\ Stays(Ticked, u, {})
  BY <1>1, <1>2, CancelGood, CancelStays
<1> QED  BY <1>1, <1>3, QuietStep DEF Cancel

\* Queue::promote keeps the invariant.
LEMMA PromoteStep ==
    ASSUME IInv, NEW i \in Ids, NEW p \in Priorities, NEW ok \in BOOLEAN,
           Promote(i, p, ok)
    PROVE  IInv'
<1> DEFINE u == [Ticked EXCEPT !.jobs[i].prio = p]
<1>1. Holds(Ticked) /\ Good(Ticked) /\ Plain
  BY TickHolds DEF Holds, IInv
<1>2. CASE Refuse(Ticked) /\ held' = held
  BY <1>1, <1>2, TickedRefused DEF Plain, Fewer
<1>3. CASE /\ i \in DOMAIN Ticked.jobs /\ held' = held /\ told' = told
           /\ Save(u, ok)
  <2>1. p \in Nat
    BY QueueAssumption
  <2>2. /\ Good(u) /\ Keeps(Ticked, u)
        /\ DOMAIN u.jobs = DOMAIN Ticked.jobs
        /\ \A k \in DOMAIN Ticked.jobs : /\ u.jobs[k].st = Ticked.jobs[k].st
                                         /\ u.jobs[k].by = Ticked.jobs[k].by
                                         /\ u.jobs[k].at = Ticked.jobs[k].at
    BY <1>1, <1>3, <2>1, PromoteGood
  <2> HIDE DEF u
  <2>3. Stays(Ticked, u, {})
    BY <2>2 DEF Stays
  <2> QED  BY <1>1, <1>3, <2>2, <2>3, QuietStep
<1> QED  BY <1>2, <1>3 DEF Promote

\* Queue::register_worker keeps the invariant.
LEMMA RegisterWorkerStep ==
    ASSUME IInv, NEW w \in Workers, NEW caps \in CapLists, NEW ok \in BOOLEAN,
           RegisterWorker(w, caps, ok)
    PROVE  IInv'
<1> DEFINE u == Register(Ticked, w, caps)
<1>1. Holds(Ticked) /\ Good(Ticked)
  BY TickHolds DEF Holds
<1>2. caps \in SUBSET Caps
  BY QueueAssumption
<1>3. Good(u) /\ Keeps(Ticked, u) /\ Stays(Ticked, u, {})
  BY <1>1, <1>2, RegisterGood, SameJobsStay
<1> QED  BY <1>1, <1>3, QuietStep DEF RegisterWorker

\* Queue::deregister_worker keeps the invariant.
LEMMA DeregisterWorkerStep ==
    ASSUME IInv, NEW w \in Workers, NEW ok \in BOOLEAN, DeregisterWorker(w, ok)
    PROVE  IInv'
<1> DEFINE u == Release(Ticked, w)
<1>1. Holds(Ticked) /\ Good(Ticked) /\ StateOK(Ticked) /\ Plain
  BY TickHolds DEF Holds, Good, Almost, IInv
<1>2. Good(u) /\ Keeps(Ticked, u) /\ StateOK(u)
  BY <1>1, ReleaseGood DEF Good, Almost
<1>3. /\ DOMAIN u.jobs = DOMAIN Ticked.jobs
      /\ \A i \in DOMAIN Ticked.jobs :
            ~IsHolder(Ticked, w, i) => u.jobs[i] = Ticked.jobs[i]
  BY <1>1, ReleaseFields
<1>4. /\ held' = [held EXCEPT ![w] = [i \in Ids |-> 0]] /\ told' = told
      /\ Save(u, ok)
  BY DEF DeregisterWorker
<1> HIDE DEF u
<1>5. Fewer /\ \A i \in Ids : held'[w][i] = 0
  BY <1>1, <1>4 DEF Plain, Fewer
<1>6. Kept(u, held', epoch)
  <2> SUFFICES ASSUME NEW v \in Workers, NEW i \in Ids, held'[v][i] > 0
               PROVE  KeptFor(u, v, i, held'[v][i], epoch)
    BY DEF Kept
  <2>1. KeptFor(Ticked, v, i, held'[v][i], epoch)
    BY <1>1, <1>5, FewerHeld DEF Holds, Kept
  <2>2. v # w
    BY <1>5
  <2> QED  BY <1>3, <2>1, <2>2 DEF KeptFor, IsHolder
<1>7. Timed(held', Instant) /\ Exclusive(held') /\ Kept(disk, held', epoch)
  BY <1>5, FewerHeld DEF IInv
<1>8. Acked(u, told') /\ Acked(disk, told')
  BY <1>1, <1>2, <1>4, KeepsAcked DEF Plain, Holds, IInv
<1>9. /\ told' \in [ids : SUBSET Ids, done : SUBSET Ids]
      /\ held' \in [Workers -> [Ids -> Nat]]
  BY <1>1, <1>4, <1>5 DEF Plain, Fewer
<1> QED  BY <1>2, <1>4, <1>6, <1>7, <1>8, <1>9, SaveStep

\* Queue::register_namespace keeps the invariant.
LEMMA RegisterNamespaceStep ==
    ASSUME IInv, NEW n \in Namespaces, NEW c \in NsConfigs, NEW ok \in BOOLEAN,
           RegisterNamespace(n, c, ok)
    PROVE  IInv'
<1> DEFINE u == [EnsureNs(mem, n, c) EXCEPT !.ns[n].config = c]
<1>1. Holds(mem) /\ Good(mem)
  BY DEF IInv, Holds
<1>2. c \in Configs /\ c.dead > 0
  BY QueueAssumption, RingAssumption
<1>3. Good(u) /\ Keeps(mem, u) /\ u.jobs = mem.jobs
  BY <1>1, <1>2, ConfigureGood
<1>4. Save(u, ok) /\ held' = held /\ told' = told
  BY DEF RegisterNamespace
<1> HIDE DEF u
<1>5. Stays(mem, u, {})
  BY <1>3, SameJobsStay
<1> QED  BY <1>1, <1>3, <1>4, <1>5, QuietStep

\* The queries, which tick and save, keep the invariant.
LEMMA ObserveStep ==
    ASSUME IInv, Observe
    PROVE  IInv'
BY TickedRefused DEF Observe, IInv, Plain, Fewer

\* The passing of time keeps the invariant.
LEMMA AdvanceClockStep ==
    ASSUME IInv, AdvanceClock
    PROVE  IInv'
<1>1. Plain
  BY DEF IInv
<1>2. /\ now' = now + 1 /\ epoch' = epoch /\ faults' = faults
      /\ mem' = mem /\ disk' = disk /\ told' = told
      /\ held' = [w \in Workers |-> [i \in Ids |->
                     IF held[w][i] > Instant + 1 THEN held[w][i] ELSE 0]]
  BY DEF AdvanceClock
<1>3. Fewer
  BY <1>1, <1>2 DEF Plain, Fewer
<1>4. Plain'
  BY <1>1, <1>2, <1>3 DEF Plain, Fewer
<1>5. /\ Exclusive(held') /\ Kept(mem, held', epoch) /\ Kept(disk, held', epoch)
  BY <1>3, FewerHeld DEF IInv
<1>6. Instant' = Instant + 1 /\ Instant \in Nat
  BY <1>1, <1>2 DEF Instant, Plain
<1>7. Timed(held', Instant')
  <2> SUFFICES ASSUME NEW w \in Workers, NEW i \in Ids, held'[w][i] > 0
               PROVE  held'[w][i] > Instant + 1
    BY <1>6 DEF Timed
  <2>1. held'[w][i] = IF held[w][i] > Instant + 1 THEN held[w][i] ELSE 0
    BY <1>2
  <2> QED  BY <2>1
<1> QED  BY <1>2, <1>4, <1>5, <1>7 DEF IInv

\* A restart from the snapshot keeps the invariant.
LEMMA ReopenStep ==
    ASSUME IInv, Reopen
    PROVE  IInv'
<1>1. Plain /\ mem' = disk /\ disk' = disk /\ told' = told /\ held' = held
  BY DEF IInv, Reopen
<1>2. \/ now' = now /\ epoch' = epoch /\ faults' = faults
      \/ now' = 0 /\ epoch' = epoch + now /\ faults' = faults + 1
  BY DEF Reopen, Instant
<1>3. Plain'
  BY <1>1, <1>2 DEF Plain
<1>4. Instant' = Instant /\ epoch' >= epoch /\ epoch' \in Nat /\ epoch \in Nat
  BY <1>1, <1>2 DEF Plain, Instant
<1>5. Kept(disk, held, epoch')
  <2> SUFFICES ASSUME NEW w \in Workers, NEW i \in Ids, held[w][i] > 0
               PROVE  KeptFor(disk, w, i, held[w][i], epoch')
    BY DEF Kept
  <2>1. KeptFor(disk, w, i, held[w][i], epoch) /\ held[w][i] \in Nat
    BY <1>1 DEF IInv, Kept, Plain
  <2>2. i \in DOMAIN disk.jobs /\ disk.jobs[i].at \in Nat
    BY <2>1 DEF KeptFor, IInv, Good, Almost, StateOK, Job
  <2> QED  BY <1>4, <2>1, <2>2 DEF KeptFor
<1> QED  BY <1>1, <1>3, <1>4, <1>5 DEF IInv

-----------------------------------------------------------------------------
\* The empty state is good.
LEMMA EmptyGood == Good(Empty)
<1>1. StateOK(Empty)
  BY QueueAssumption DEF StateOK, Empty
<1>2. Live(Empty) = {}
  BY DEF Live, Empty
<1>3. Links(Empty) /\ Rings(Empty)
  BY DEF Links, Rings, Empty
<1> QED  BY <1>1, <1>2, <1>3 DEF Good, Almost

\* The inductive invariant holds initially.
LEMMA IInvInit == Init => IInv
<1> SUFFICES ASSUME Init PROVE IInv
  OBVIOUS
<1>1. Good(mem) /\ Good(disk)
  BY EmptyGood DEF Init
<1>2. Plain
  BY DEF Init, Plain
<1>3. \A w \in Workers, i \in Ids : held[w][i] = 0
  BY DEF Init
<1>4. /\ Timed(held, Instant) /\ Exclusive(held)
      /\ Kept(mem, held, epoch) /\ Kept(disk, held, epoch)
  BY <1>3 DEF Timed, Exclusive, Kept
<1>5. Acked(mem, told) /\ Acked(disk, told)
  BY DEF Init, Acked
<1> QED  BY <1>1, <1>2, <1>4, <1>5 DEF IInv

\* Every step keeps the inductive invariant.
LEMMA IInvNext == IInv /\ [Next]_vars => IInv'
<1> SUFFICES ASSUME IInv, [Next]_vars PROVE IInv'
  OBVIOUS
<1>1. ASSUME NEW ok \in BOOLEAN, NEW r \in Requests, Enqueue(r, ok) PROVE IInv'
  BY <1>1, EnqueueStep
<1>2. ASSUME NEW ok \in BOOLEAN, NEW w \in Workers, NEW d \in Leases,
             Acquire(w, d, ok)
      PROVE  IInv'
  BY <1>2, AcquireStep
<1>3. ASSUME NEW ok \in BOOLEAN, NEW w \in Workers, NEW i \in Ids,
             NEW d \in Leases, Heartbeat(w, i, d, ok)
      PROVE  IInv'
  BY <1>3, HeartbeatStep
<1>4. ASSUME NEW ok \in BOOLEAN, NEW w \in Workers, NEW i \in Ids,
             Complete(w, i, ok) \/ Fail(w, i, ok)
      PROVE  IInv'
  BY <1>4, CompleteStep, FailStep
<1>5. ASSUME NEW ok \in BOOLEAN, NEW i \in Ids,
             Cancel(i, ok) \/ \E p \in Priorities : Promote(i, p, ok)
      PROVE  IInv'
  BY <1>5, CancelStep, PromoteStep
<1>6. ASSUME NEW ok \in BOOLEAN, NEW w \in Workers,
             \/ \E caps \in CapLists : RegisterWorker(w, caps, ok)
             \/ DeregisterWorker(w, ok)
      PROVE  IInv'
  BY <1>6, RegisterWorkerStep, DeregisterWorkerStep
<1>7. ASSUME NEW ok \in BOOLEAN, NEW n \in Namespaces, NEW c \in NsConfigs,
             RegisterNamespace(n, c, ok)
      PROVE  IInv'
  BY <1>7, RegisterNamespaceStep
<1>8. CASE Observe \/ AdvanceClock \/ Reopen
  BY <1>8, ObserveStep, AdvanceClockStep, ReopenStep
<1>9. CASE UNCHANGED vars
  BY <1>9 DEF vars, IInv, Plain, Instant
<1> QED
  BY <1>1, <1>2, <1>3, <1>4, <1>5, <1>6, <1>7, <1>8, <1>9 DEF Next

\* The inductive invariant always holds.
LEMMA IInvAlways == Spec => []IInv
BY IInvInit, IInvNext, PTL DEF Spec

\* The live state and the snapshot stay well formed under every call, failed
\* save and restart, for any number of jobs, workers and namespaces.
THEOREM QueueTypes == Spec => []TypeOK
<1>1. IInv => TypeOK
  BY DEF IInv, Plain, Good, Almost, TypeOK
<1> QED  BY <1>1, IInvAlways, PTL

\* remaining_deps is exact for every live job, in memory and on disk.
THEOREM QueueDependencies == Spec => []DependenciesCounted
<1>1. IInv => DependenciesCounted
  BY DEF IInv, Good, Almost, DependenciesCounted
<1> QED  BY <1>1, IInvAlways, PTL

\* No two workers count on a lease on the same job at once.
THEOREM QueueExclusive == Spec => []ExclusiveHold
<1>1. IInv => ExclusiveHold
  BY DEF IInv, Exclusive, ExclusiveHold
<1> QED  BY <1>1, IInvAlways, PTL

\* What a successful complete or enqueue told a client survives kills and
\* failed saves.
THEOREM QueueDurable == Spec => []AckedIsDurable
<1>1. IInv => AckedIsDurable
  BY DEF IInv, Acked, AckedIsDurable
<1> QED  BY <1>1, IInvAlways, PTL

-----------------------------------------------------------------------------
(* The counters of the namespaces *)

LiveIn(s, n) == {i \in Live(s) : s.jobs[i].ns = n}

\* The record c of a namespace agrees with its completed, cancelled, dead and
\* live jobs.  Its ring names each dead job once.
Tally(c, done, cut, dead, live) ==
    /\ c.completed = Cardinality(done)
    /\ c.cancelled = Cardinality(cut)
    /\ {c.ring[k] : k \in DOMAIN c.ring} = dead
    /\ \A j, k \in DOMAIN c.ring : c.ring[j] = c.ring[k] => j = k
    /\ c.enqueued = c.completed + c.cancelled + c.dead + Cardinality(live)

Accounted(s) ==
    \A n \in DOMAIN s.ns :
        Tally(s.ns[n], InState(s, n, "completed"), InState(s, n, "cancelled"),
              InState(s, n, "dead"), LiveIn(s, n))

\* A sequence without repetitions is as long as the set of its elements.
LEMMA RingLength ==
    ASSUME NEW q \in Seq(Ids), \A j, k \in DOMAIN q : q[j] = q[k] => j = k
    PROVE  Len(q) = Cardinality({q[k] : k \in DOMAIN q})
<1> DEFINE T == {q[k] : k \in DOMAIN q}
<1>1. Len(q) \in Nat /\ DOMAIN q = 1 .. Len(q)
  BY SeqFacts
<1>2. q \in [DOMAIN q -> T]
  OBVIOUS
<1>3. q \in Injection(DOMAIN q, T)
  BY <1>2 DEF Injection, IsInjective
<1>4. q \in Surjection(DOMAIN q, T)
  BY <1>2 DEF Surjection
<1>5. ExistsBijection(1 .. Len(q), T)
  BY <1>1, <1>3, <1>4 DEF ExistsBijection, Bijection
<1> QED  BY <1>1, <1>5, FS_CountingElements

\* The jobs of a state are finitely many, so each of its sets can be counted.
LEMMA JobsFinite ==
    ASSUME NEW s, StateOK(s), NEW S \in SUBSET DOMAIN s.jobs
    PROVE  IsFiniteSet(S) /\ Cardinality(S) \in Nat
<1>1. S \subseteq Ids
  BY QueueAssumption DEF StateOK, Ids
<1> QED  BY <1>1, IdsFinite, FS_Subset, FS_CardinalityType

\* What moving G from A to B does to the two counts.
Moves(A, B, G) ==
    /\ Cardinality(A) \in Nat /\ Cardinality(B) \in Nat /\ Cardinality(G) \in Nat
    /\ Cardinality(A \ G) \in Nat
    /\ Cardinality(A) = Cardinality(A \ G) + Cardinality(G)
    /\ Cardinality(B \cup G) = Cardinality(B) + Cardinality(G)

\* Jobs that leave one set for another are taken off one count and put on the
\* other.
LEMMA CountMoves ==
    ASSUME NEW A, NEW B, NEW G, IsFiniteSet(A), IsFiniteSet(B), G \subseteq A,
           G \cap B = {}
    PROVE  Moves(A, B, G)
<1>1. IsFiniteSet(G)
  BY FS_Subset
<1>2. A \cap G = G /\ B \cap G = {}
  OBVIOUS
<1>3. IsFiniteSet(A \ G) /\ Cardinality(A \ G) = Cardinality(A) - Cardinality(A \cap G)
  BY FS_Difference
<1>4. Cardinality(B \cup G) = Cardinality(B) + Cardinality(G) - Cardinality(B \cap G)
  BY <1>1, FS_Union
<1>5. Cardinality({}) = 0
  BY FS_EmptySet
<1>6. /\ Cardinality(A) \in Nat /\ Cardinality(B) \in Nat
      /\ Cardinality(G) \in Nat /\ Cardinality(A \ G) \in Nat
  BY <1>1, <1>3, FS_CardinalityType
<1> QED  BY <1>2, <1>3, <1>4, <1>5, <1>6 DEF Moves

\* The account of one namespace as the property JobsAccounted states it.
Settled(s, n) ==
    /\ s.ns[n].completed = Cardinality(InState(s, n, "completed"))
    /\ s.ns[n].cancelled = Cardinality(InState(s, n, "cancelled"))
    /\ {s.ns[n].ring[k] : k \in DOMAIN s.ns[n].ring} = InState(s, n, "dead")
    /\ Len(s.ns[n].ring) = Cardinality(InState(s, n, "dead"))
    /\ s.ns[n].enqueued = s.ns[n].completed + s.ns[n].cancelled + s.ns[n].dead
         + Cardinality({i \in Live(s) : s.jobs[i].ns = n})

\* A state whose counters agree satisfies the property the runs check.
LEMMA AccountedState ==
    ASSUME NEW s, StateOK(s), Accounted(s), NEW n \in DOMAIN s.ns
    PROVE  Settled(s, n)
<1>1. Tally(s.ns[n], InState(s, n, "completed"), InState(s, n, "cancelled"),
            InState(s, n, "dead"), LiveIn(s, n))
  BY DEF Accounted
<1>2. s.ns[n].ring \in Seq(Ids)
  BY DEF StateOK, NsState
<1>3. Len(s.ns[n].ring) = Cardinality(InState(s, n, "dead"))
  <2>1. \A j, k \in DOMAIN s.ns[n].ring :
           s.ns[n].ring[j] = s.ns[n].ring[k] => j = k
    BY <1>1 DEF Tally
  <2>2. Len(s.ns[n].ring) = Cardinality({s.ns[n].ring[k] : k \in DOMAIN s.ns[n].ring})
    BY <1>2, <2>1, RingLength
  <2> QED  BY <1>1, <2>2 DEF Tally
<1> QED  BY <1>1, <1>3 DEF Tally, LiveIn, Settled

\* A change that ends no job, moves none to another namespace and touches no
\* counter and no ring keeps the account.
LEMMA SameAccount ==
    ASSUME NEW s, NEW u, Accounted(s), DOMAIN u.ns = DOMAIN s.ns,
           \A n \in DOMAIN s.ns :
              /\ u.ns[n].ring = s.ns[n].ring
              /\ u.ns[n].enqueued = s.ns[n].enqueued
              /\ u.ns[n].completed = s.ns[n].completed
              /\ u.ns[n].cancelled = s.ns[n].cancelled
              /\ u.ns[n].dead = s.ns[n].dead,
           DOMAIN u.jobs = DOMAIN s.jobs,
           \A i \in DOMAIN s.jobs :
              /\ u.jobs[i].ns = s.jobs[i].ns
              /\ u.jobs[i].st \in Terminal \/ s.jobs[i].st \in Terminal
                    => u.jobs[i].st = s.jobs[i].st
    PROVE  Accounted(u)
<1>1. ASSUME NEW n, NEW st \in Terminal
      PROVE  InState(u, n, st) = InState(s, n, st)
  BY <1>1 DEF InState
<1>2. \A n : LiveIn(u, n) = LiveIn(s, n)
  BY DEF LiveIn, Live
<1>3. "completed" \in Terminal /\ "cancelled" \in Terminal /\ "dead" \in Terminal
  BY DEF Terminal
<1> SUFFICES ASSUME NEW n \in DOMAIN s.ns
             PROVE  Tally(u.ns[n], InState(s, n, "completed"),
                          InState(s, n, "cancelled"), InState(s, n, "dead"),
                          LiveIn(s, n))
  BY <1>1, <1>2, <1>3 DEF Accounted
<1>4. Tally(s.ns[n], InState(s, n, "completed"), InState(s, n, "cancelled"),
            InState(s, n, "dead"), LiveIn(s, n))
  BY DEF Accounted
<1> QED  BY <1>4 DEF Tally

\* Ticking keeps the account.
LEMMA TickAccount ==
    ASSUME NEW s, StateOK(s), Accounted(s), NEW t
    PROVE  Accounted(Tick(s, t))
<1> DEFINE u == Tick(s, t)
<1>1. /\ u.ns = s.ns /\ DOMAIN u.jobs = DOMAIN s.jobs
      /\ \A i \in DOMAIN s.jobs :
            \/ u.jobs[i] = s.jobs[i]
            \/ /\ s.jobs[i].st \in {"scheduled", "retry", "leased"}
               /\ u.jobs[i] = Moved(s.jobs[i], "pending")
  BY TickFields
<1> HIDE DEF u
<1>2. ASSUME NEW i \in DOMAIN s.jobs
      PROVE  /\ u.jobs[i].ns = s.jobs[i].ns
             /\ u.jobs[i].st \in Terminal \/ s.jobs[i].st \in Terminal
                   => u.jobs[i].st = s.jobs[i].st
  <2>1. s.jobs[i] \in Job /\ "pending" \in JobStates
    BY DEF StateOK, JobStates, Active
  <2> QED  BY <1>1, <2>1, MovedFields DEF Terminal
<1>3. Accounted(u)
  BY <1>1, <1>2, SameAccount
<1> QED  BY <1>3 DEF u

\* A new record for a live job, in the same namespace and still live, keeps
\* the account.
LEMMA OneJobAccount ==
    ASSUME NEW s, StateOK(s), Accounted(s), NEW i \in Live(s), NEW j \in Job,
           j.ns = s.jobs[i].ns, j.st \notin Terminal
    PROVE  Accounted([s EXCEPT !.jobs[i] = j])
<1> DEFINE u == [s EXCEPT !.jobs[i] = j]
<1>1. i \in DOMAIN s.jobs /\ s.jobs[i].st \notin Terminal
  BY DEF Live
<1>2. /\ u.ns = s.ns /\ DOMAIN u.jobs = DOMAIN s.jobs
      /\ \A k \in DOMAIN s.jobs : u.jobs[k] = IF k = i THEN j ELSE s.jobs[k]
  BY <1>1, OneJob
<1> HIDE DEF u
<1>3. Accounted(u)
  BY <1>1, <1>2, SameAccount
<1> QED  BY <1>3 DEF u

\* Leasing a job keeps the account.
LEMMA LeaseAccount ==
    ASSUME NEW s, StateOK(s), Accounted(s), NEW i \in Live(s), NEW w \in Workers,
           NEW t \in Nat
    PROVE  Accounted(Lease(s, i, w, t))
<1> DEFINE u == Lease(s, i, w, t)
<1>1. i \in DOMAIN s.jobs /\ s.jobs[i].st \notin Terminal
  BY DEF Live
<1>2. /\ u.ns = s.ns /\ DOMAIN u.jobs = DOMAIN s.jobs
      /\ \A k \in DOMAIN s.jobs \ {i} : u.jobs[k] = s.jobs[k]
      /\ u.jobs[i].st = "leased" /\ u.jobs[i].ns = s.jobs[i].ns
  BY <1>1, LeaseFields
<1> HIDE DEF u
<1>3. Accounted(u)
  BY <1>1, <1>2, SameAccount DEF Terminal
<1> QED  BY <1>3 DEF u

\* Scheduling a retry keeps the account.
LEMMA RetryAccount ==
    ASSUME NEW s, StateOK(s), Accounted(s), NEW i \in Live(s), NEW t \in Nat
    PROVE  Accounted(Retry(s, i, t))
<1> DEFINE j == Retried(s.jobs[i], t)
           ready == IF s.jobs[i].sched > t THEN s.jobs[i].sched ELSE t
           fails == s.jobs[i].fails + 1
<1>1. s.jobs[i] \in Job
  BY DEF StateOK, Live
<1>2. ready \in Nat /\ fails \in Nat /\ "retry" \in JobStates
  BY <1>1 DEF Job, JobStates, Active
<1>3. j = [s.jobs[i] EXCEPT !.st = "retry", !.by = NoWorker, !.fails = fails,
                            !.at = ready]
  BY DEF Retried
<1> HIDE DEF ready, fails
<1>4. j \in Job /\ j.st = "retry" /\ j.ns = s.jobs[i].ns
  BY <1>1, <1>2, <1>3, ZenonT(60) DEF Job
<1>5. Retry(s, i, t) = [s EXCEPT !.jobs[i] = j]
  BY DEF Retry
<1> HIDE DEF j
<1> QED  BY <1>4, <1>5, OneJobAccount DEF Terminal

\* Promoting a job keeps the account.
LEMMA PromoteAccount ==
    ASSUME NEW s, StateOK(s), Accounted(s), NEW i \in Live(s), NEW p \in Nat
    PROVE  Accounted([s EXCEPT !.jobs[i].prio = p])
<1> DEFINE j == [s.jobs[i] EXCEPT !.prio = p]
<1>1. s.jobs[i] \in Job /\ s.jobs[i].st \notin Terminal
  BY DEF StateOK, Live
<1>2. j \in Job /\ j.ns = s.jobs[i].ns /\ j.st = s.jobs[i].st
  BY <1>1 DEF Job
<1>3. [s EXCEPT !.jobs[i].prio = p] = [s EXCEPT !.jobs[i] = j]
  BY <1>1 DEF StateOK, Job
<1> HIDE DEF j
<1> QED  BY <1>1, <1>2, <1>3, OneJobAccount

\* Registering a worker keeps the account.
LEMMA RegisterAccount ==
    ASSUME NEW s, StateOK(s), Accounted(s), NEW w, NEW caps
    PROVE  Accounted(Register(s, w, caps))
<1> DEFINE workers == [v \in DOMAIN s.workers \cup {w} |->
                           IF v = w THEN caps ELSE s.workers[v]]
           u == Register(s, w, caps)
<1>1. u = [s EXCEPT !.workers = workers]
  BY DEF Register
<1> HIDE DEF workers, u
<1>2. u.jobs = s.jobs /\ u.ns = s.ns
  BY <1>1 DEF StateOK
<1>3. Accounted(u)
  BY <1>2, SameAccount
<1> QED  BY <1>3 DEF u

\* Deregistering a worker keeps the account.
LEMMA ReleaseAccount ==
    ASSUME NEW s, StateOK(s), Accounted(s), NEW w
    PROVE  Accounted(Release(s, w))
<1> DEFINE u == Release(s, w)
<1>1. /\ u.ns = s.ns /\ DOMAIN u.jobs = DOMAIN s.jobs
      /\ \A i \in DOMAIN s.jobs :
            u.jobs[i] = IF IsHolder(s, w, i)
                        THEN Moved(s.jobs[i], "pending") ELSE s.jobs[i]
  BY ReleaseFields
<1> HIDE DEF u
<1>2. ASSUME NEW i \in DOMAIN s.jobs
      PROVE  /\ u.jobs[i].ns = s.jobs[i].ns
             /\ u.jobs[i].st \in Terminal \/ s.jobs[i].st \in Terminal
                   => u.jobs[i].st = s.jobs[i].st
  <2>1. s.jobs[i] \in Job /\ "pending" \in JobStates
    BY DEF StateOK, JobStates, Active
  <2> QED  BY <1>1, <2>1, MovedFields DEF IsHolder, Terminal
<1>3. Accounted(u)
  BY <1>1, <1>2, SameAccount
<1> QED  BY <1>3 DEF u

\* A new namespace starts with an empty account, and no job is in it yet.
LEMMA EnsureAccount ==
    ASSUME NEW s, StateOK(s), Accounted(s), NEW n \in Namespaces,
           NEW config \in Configs
    PROVE  Accounted(EnsureNs(s, n, config))
<1> DEFINE u == EnsureNs(s, n, config)
<1>1. CASE n \in DOMAIN s.ns
  BY <1>1 DEF EnsureNs
<1>2. CASE n \notin DOMAIN s.ns
  <2> DEFINE new == [config |-> config, ring |-> << >>, enqueued |-> 0,
                     completed |-> 0, cancelled |-> 0, dead |-> 0]
             ns == [m \in DOMAIN s.ns \cup {n} |-> IF m = n THEN new ELSE s.ns[m]]
  <2>1. u = [s EXCEPT !.ns = ns]
    BY <1>2 DEF EnsureNs
  <2>2. /\ new.ring = << >> /\ new.enqueued = 0 /\ new.completed = 0
        /\ new.cancelled = 0 /\ new.dead = 0
    OBVIOUS
  <2> HIDE DEF new
  <2>3. /\ DOMAIN ns = DOMAIN s.ns \cup {n}
        /\ ns[n] = new
        /\ \A m \in DOMAIN s.ns : ns[m] = s.ns[m]
    BY <1>2
  <2> HIDE DEF ns, u
  <2>4. u.jobs = s.jobs /\ u.ns = ns
    BY <2>1 DEF StateOK
  <2>5. \A m, st : InState(u, m, st) = InState(s, m, st) /\ LiveIn(u, m) = LiveIn(s, m)
    BY <2>4 DEF InState, LiveIn, Live
  <2>6. \A st : InState(s, n, st) = {} /\ LiveIn(s, n) = {}
    <3>1. \A i \in DOMAIN s.jobs : s.jobs[i].ns # n
      BY <1>2 DEF StateOK
    <3> QED  BY <3>1 DEF InState, LiveIn, Live
  <2>7. Tally(new, {}, {}, {}, {})
    BY <2>2, FS_EmptySet DEF Tally
  <2>8. ASSUME NEW m \in DOMAIN u.ns
        PROVE  Tally(u.ns[m], InState(s, m, "completed"), InState(s, m, "cancelled"),
                     InState(s, m, "dead"), LiveIn(s, m))
    <3>1. CASE m = n
      BY <3>1, <2>3, <2>4, <2>6, <2>7
    <3>2. CASE m \in DOMAIN s.ns
      BY <3>2, <2>3, <2>4 DEF Accounted
    <3> QED  BY <2>3, <2>4, <2>8, <3>1, <3>2
  <2>9. Accounted(u)
    BY <2>5, <2>8 DEF Accounted
  <2> QED  BY <2>9 DEF u
<1> QED  BY <1>1, <1>2

\* Configuring a namespace keeps the account.
LEMMA ConfigureAccount ==
    ASSUME NEW s, StateOK(s), Accounted(s), NEW n \in DOMAIN s.ns, NEW config
    PROVE  Accounted([s EXCEPT !.ns[n].config = config])
<1> DEFINE c == [s.ns[n] EXCEPT !.config = config]
           ns == [s.ns EXCEPT ![n] = c]
           u == [s EXCEPT !.ns[n].config = config]
<1>1. s.ns[n] \in NsState
  BY DEF StateOK
<1>2. /\ c.ring = s.ns[n].ring /\ c.enqueued = s.ns[n].enqueued
      /\ c.completed = s.ns[n].completed /\ c.cancelled = s.ns[n].cancelled
      /\ c.dead = s.ns[n].dead
  BY <1>1 DEF NsState
<1>3. u = [s EXCEPT !.ns = ns]
  BY <1>1 DEF StateOK, NsState
<1> HIDE DEF c
<1>4. DOMAIN ns = DOMAIN s.ns /\ \A m \in DOMAIN s.ns : ns[m] = IF m = n THEN c ELSE s.ns[m]
  OBVIOUS
<1> HIDE DEF ns, u
<1>5. u.jobs = s.jobs /\ u.ns = ns
  BY <1>3 DEF StateOK
<1>6. Accounted(u)
  BY <1>2, <1>4, <1>5, SameAccount
<1> QED  BY <1>6 DEF u

\* The sets that the counters count hold jobs of the state, and no job is in
\* two of them.
LEMMA AccountSets ==
    ASSUME NEW s, StateOK(s), NEW n
    PROVE  /\ IsFiniteSet(InState(s, n, "completed"))
           /\ IsFiniteSet(InState(s, n, "cancelled"))
           /\ IsFiniteSet(LiveIn(s, n))
           /\ LiveIn(s, n) \cap InState(s, n, "completed") = {}
           /\ LiveIn(s, n) \cap InState(s, n, "cancelled") = {}
           /\ LiveIn(s, n) \cap InState(s, n, "dead") = {}
<1>1. \A st : InState(s, n, st) \in SUBSET DOMAIN s.jobs
  BY DEF InState
<1>2. LiveIn(s, n) \in SUBSET DOMAIN s.jobs
  BY DEF LiveIn, Live
<1> QED  BY <1>1, <1>2, JobsFinite DEF InState, LiveIn, Live, Terminal

\* A cascading cancellation counts every job that it cancels, once.
LEMMA CancelAccount ==
    ASSUME NEW s, StateOK(s), Accounted(s), NEW roots
    PROVE  Accounted(CascadeCancel(s, roots))
<1> DEFINE gone == Cascade(s, roots)
           count(n) == Cardinality({i \in gone : s.jobs[i].ns = n})
           jobs == [i \in DOMAIN s.jobs |->
               IF i \in gone THEN Moved(s.jobs[i], "cancelled") ELSE s.jobs[i]]
           ns == [n \in DOMAIN s.ns |->
               [s.ns[n] EXCEPT !.cancelled = s.ns[n].cancelled + count(n)]]
           u == CascadeCancel(s, roots)
<1>1. u = [s EXCEPT !.jobs = jobs, !.ns = ns]
  BY DEF CascadeCancel
<1>2. gone \subseteq Live(s)
  BY CascadeClosed
<1>3. /\ DOMAIN u.jobs = DOMAIN s.jobs
      /\ \A i \in DOMAIN s.jobs :
            u.jobs[i] = IF i \in gone THEN Moved(s.jobs[i], "cancelled") ELSE s.jobs[i]
  BY CancelFields
<1>4. DOMAIN ns = DOMAIN s.ns
  OBVIOUS
<1>5. ASSUME NEW n \in DOMAIN s.ns
      PROVE  /\ ns[n].ring = s.ns[n].ring /\ ns[n].enqueued = s.ns[n].enqueued
             /\ ns[n].completed = s.ns[n].completed /\ ns[n].dead = s.ns[n].dead
             /\ ns[n].cancelled = s.ns[n].cancelled + count(n)
  <2>1. s.ns[n] \in NsState
    BY DEF StateOK
  <2> HIDE DEF count
  <2> QED  BY <2>1 DEF NsState
<1> HIDE DEF gone, jobs, ns, u
<1>6. u.ns = ns
  BY <1>1 DEF StateOK
<1>7. ASSUME NEW i \in DOMAIN s.jobs
      PROVE  /\ u.jobs[i].ns = s.jobs[i].ns
             /\ u.jobs[i].st = IF i \in gone THEN "cancelled" ELSE s.jobs[i].st
  <2>1. s.jobs[i] \in Job /\ "cancelled" \in JobStates
    BY DEF StateOK, JobStates, Terminal
  <2> QED  BY <1>3, <2>1, MovedFields
<1>8. ASSUME NEW n \in DOMAIN s.ns
      PROVE  Tally(u.ns[n], InState(u, n, "completed"), InState(u, n, "cancelled"),
                   InState(u, n, "dead"), LiveIn(u, n))
  <2> DEFINE G == {i \in gone : s.jobs[i].ns = n}
  <2>1. G \subseteq LiveIn(s, n)
    BY <1>2 DEF LiveIn
  <2>2. InState(u, n, "completed") = InState(s, n, "completed")
    BY <1>2, <1>3, <1>7 DEF InState, Live, Terminal
  <2>3. InState(u, n, "dead") = InState(s, n, "dead")
    BY <1>2, <1>3, <1>7 DEF InState, Live, Terminal
  <2>4. InState(u, n, "cancelled") = InState(s, n, "cancelled") \cup G
    BY <1>2, <1>3, <1>7 DEF InState, Live, Terminal
  <2>5. LiveIn(u, n) = LiveIn(s, n) \ G
    BY <1>2, <1>3, <1>7 DEF LiveIn, Live, Terminal
  <2>6. count(n) = Cardinality(G)
    OBVIOUS
  <2> HIDE DEF G, count
  <2>7. G \cap InState(s, n, "cancelled") = {}
    BY <2>1, AccountSets
  <2>8. /\ Cardinality(LiveIn(s, n)) \in Nat /\ Cardinality(G) \in Nat
        /\ Cardinality(InState(s, n, "cancelled")) \in Nat
        /\ Cardinality(LiveIn(s, n) \ G) \in Nat
        /\ Cardinality(LiveIn(s, n)) = Cardinality(LiveIn(s, n) \ G) + Cardinality(G)
        /\ Cardinality(InState(s, n, "cancelled") \cup G)
              = Cardinality(InState(s, n, "cancelled")) + Cardinality(G)
    <3>1. IsFiniteSet(LiveIn(s, n)) /\ IsFiniteSet(InState(s, n, "cancelled"))
      BY AccountSets
    <3>2. Moves(LiveIn(s, n), InState(s, n, "cancelled"), G)
      BY <2>1, <2>7, <3>1, CountMoves
    <3> QED  BY <3>2 DEF Moves
  <2>9. Tally(s.ns[n], InState(s, n, "completed"), InState(s, n, "cancelled"),
              InState(s, n, "dead"), LiveIn(s, n))
    BY DEF Accounted
  <2>10. /\ s.ns[n].completed \in Nat /\ s.ns[n].cancelled \in Nat
         /\ s.ns[n].dead \in Nat /\ s.ns[n].enqueued \in Nat
    BY DEF StateOK, NsState
  <2>11. /\ u.ns[n].ring = s.ns[n].ring /\ u.ns[n].enqueued = s.ns[n].enqueued
         /\ u.ns[n].completed = s.ns[n].completed /\ u.ns[n].dead = s.ns[n].dead
         /\ u.ns[n].cancelled = s.ns[n].cancelled + Cardinality(G)
    BY <1>5, <1>6, <2>6
  <2>12. u.ns[n].cancelled = Cardinality(InState(u, n, "cancelled"))
    BY <2>4, <2>8, <2>9, <2>11 DEF Tally
  <2>13. u.ns[n].enqueued = u.ns[n].completed + u.ns[n].cancelled + u.ns[n].dead
                              + Cardinality(LiveIn(u, n))
    <3>1. s.ns[n].enqueued = s.ns[n].completed + s.ns[n].cancelled + s.ns[n].dead
                               + Cardinality(LiveIn(s, n))
      BY <2>9 DEF Tally
    <3> QED  BY <3>1, <2>5, <2>8, <2>10, <2>11
  <2> QED  BY <2>2, <2>3, <2>9, <2>11, <2>12, <2>13 DEF Tally
<1>9. Accounted(u)
  BY <1>4, <1>6, <1>8 DEF Accounted
<1> QED  BY <1>9 DEF u

\* What adding a job leaves of the counters and the namespaces of the jobs.
LEMMA AddedNs ==
    ASSUME NEW s, StateOK(s), NEW r \in Requests, NEW t \in Nat,
           r.ns \in DOMAIN s.ns, s.next \notin DOMAIN s.jobs
    PROVE  LET u == Added(s, r, t)
           IN /\ DOMAIN u.ns = DOMAIN s.ns
              /\ \A n \in DOMAIN s.ns :
                    /\ u.ns[n].ring = s.ns[n].ring
                    /\ u.ns[n].completed = s.ns[n].completed
                    /\ u.ns[n].cancelled = s.ns[n].cancelled
                    /\ u.ns[n].dead = s.ns[n].dead
                    /\ u.ns[n].enqueued = s.ns[n].enqueued + (IF n = r.ns THEN 1 ELSE 0)
              /\ u.jobs[s.next].ns = r.ns
              /\ \A i \in DOMAIN s.jobs : u.jobs[i].ns = s.jobs[i].ns
<1> DEFINE jobs == [i \in DOMAIN s.jobs \cup {s.next} |->
               IF i = s.next THEN NewJob(s, r, t)
               ELSE IF i \in r.deps \cap Live(s)
                    THEN [s.jobs[i] EXCEPT !.kids = s.jobs[i].kids \cup {s.next}]
                    ELSE s.jobs[i]]
           c == [s.ns[r.ns] EXCEPT !.enqueued = @ + 1]
           ns == [s.ns EXCEPT ![r.ns] = c]
           u == Added(s, r, t)
<1>1. u = [s EXCEPT !.next = s.next + 1, !.jobs = jobs, !.ns = ns]
  BY DEF Added
<1>2. \A n \in DOMAIN s.ns : s.ns[n] \in NsState
  BY DEF StateOK
<1>3. /\ c.ring = s.ns[r.ns].ring /\ c.completed = s.ns[r.ns].completed
      /\ c.cancelled = s.ns[r.ns].cancelled /\ c.dead = s.ns[r.ns].dead
      /\ c.enqueued = s.ns[r.ns].enqueued + 1
  BY <1>2, SMTT(60) DEF NsState
<1> HIDE DEF c
<1>4. DOMAIN ns = DOMAIN s.ns /\ \A n \in DOMAIN s.ns : ns[n] = IF n = r.ns THEN c ELSE s.ns[n]
  OBVIOUS
<1>5. jobs[s.next].ns = r.ns
  BY DEF NewJob
<1>6. ASSUME NEW i \in DOMAIN s.jobs PROVE jobs[i].ns = s.jobs[i].ns
  <2>1. s.jobs[i] \in Job /\ i # s.next
    BY DEF StateOK
  <2> QED  BY <2>1 DEF Job
<1> HIDE DEF jobs, ns, u
<1>7. u.jobs = jobs /\ u.ns = ns
  BY <1>1 DEF StateOK
<1>8. ASSUME NEW n \in DOMAIN s.ns
      PROVE  /\ u.ns[n].ring = s.ns[n].ring
             /\ u.ns[n].completed = s.ns[n].completed
             /\ u.ns[n].cancelled = s.ns[n].cancelled
             /\ u.ns[n].dead = s.ns[n].dead
             /\ u.ns[n].enqueued = s.ns[n].enqueued + (IF n = r.ns THEN 1 ELSE 0)
  <2>1. s.ns[n].enqueued \in Nat
    BY <1>2 DEF NsState
  <2> QED  BY <1>3, <1>4, <1>7, <2>1
<1>9. /\ DOMAIN u.ns = DOMAIN s.ns
      /\ u.jobs[s.next].ns = r.ns
      /\ \A i \in DOMAIN s.jobs : u.jobs[i].ns = s.jobs[i].ns
  BY <1>4, <1>5, <1>6, <1>7
<1> QED  BY <1>8, <1>9 DEF u

\* A new job is live and counted as enqueued.
LEMMA AddedAccount ==
    ASSUME NEW s, StateOK(s), Accounted(s), NEW r \in Requests, NEW t \in Nat,
           ValidDeps(s, r), r.ns \in DOMAIN s.ns, s.next \in Ids
    PROVE  Accounted(Added(s, r, t))
<1> DEFINE u == Added(s, r, t)
<1>1. s.next \notin DOMAIN s.jobs
  BY QueueAssumption DEF StateOK
<1>2. StateOK(u) /\ AddedTo(s, r, u)
  BY AddedFields
<1>3. /\ DOMAIN u.ns = DOMAIN s.ns
      /\ \A n \in DOMAIN s.ns :
            /\ u.ns[n].ring = s.ns[n].ring
            /\ u.ns[n].completed = s.ns[n].completed
            /\ u.ns[n].cancelled = s.ns[n].cancelled
            /\ u.ns[n].dead = s.ns[n].dead
            /\ u.ns[n].enqueued = s.ns[n].enqueued + (IF n = r.ns THEN 1 ELSE 0)
      /\ u.jobs[s.next].ns = r.ns
      /\ \A i \in DOMAIN s.jobs : u.jobs[i].ns = s.jobs[i].ns
  BY <1>1, AddedNs
<1> HIDE DEF u
<1>4. /\ DOMAIN u.jobs = DOMAIN s.jobs \cup {s.next}
      /\ u.jobs[s.next].st \in {"scheduled", "pending"}
      /\ \A i \in DOMAIN s.jobs : u.jobs[i].st = s.jobs[i].st
  BY <1>2 DEF AddedTo
<1>5. ASSUME NEW n, NEW st \in Terminal PROVE InState(u, n, st) = InState(s, n, st)
  BY <1>1, <1>3, <1>4, <1>5 DEF InState, Terminal
<1>6. "completed" \in Terminal /\ "cancelled" \in Terminal /\ "dead" \in Terminal
  BY DEF Terminal
<1>7. ASSUME NEW n \in DOMAIN s.ns
      PROVE  Tally(u.ns[n], InState(s, n, "completed"), InState(s, n, "cancelled"),
                   InState(s, n, "dead"), LiveIn(u, n))
  <2>1. LiveIn(u, n) = IF n = r.ns THEN LiveIn(s, n) \cup {s.next} ELSE LiveIn(s, n)
    BY <1>1, <1>3, <1>4 DEF LiveIn, Live, Terminal
  <2>2. s.next \notin LiveIn(s, n) /\ IsFiniteSet(LiveIn(s, n))
    BY <1>1, AccountSets DEF LiveIn, Live
  <2>3. Cardinality(LiveIn(s, n) \cup {s.next}) = Cardinality(LiveIn(s, n)) + 1
    BY <2>2, FS_AddElement
  <2>4. Cardinality(LiveIn(s, n)) \in Nat
    BY <2>2, FS_CardinalityType
  <2>5. Tally(s.ns[n], InState(s, n, "completed"), InState(s, n, "cancelled"),
              InState(s, n, "dead"), LiveIn(s, n))
    BY DEF Accounted
  <2>6. /\ s.ns[n].completed \in Nat /\ s.ns[n].cancelled \in Nat
        /\ s.ns[n].dead \in Nat /\ s.ns[n].enqueued \in Nat
    BY DEF StateOK, NsState
  <2>7. u.ns[n].enqueued = u.ns[n].completed + u.ns[n].cancelled + u.ns[n].dead
                             + Cardinality(LiveIn(u, n))
    <3>1. s.ns[n].enqueued = s.ns[n].completed + s.ns[n].cancelled + s.ns[n].dead
                               + Cardinality(LiveIn(s, n))
      BY <2>5 DEF Tally
    <3> QED  BY <3>1, <1>3, <2>1, <2>3, <2>4, <2>6
  <2> QED  BY <1>3, <2>5, <2>7 DEF Tally
<1>8. Accounted(u)
  BY <1>3, <1>5, <1>6, <1>7 DEF Accounted
<1> QED  BY <1>8 DEF u

\* Enqueueing keeps the account, also when the new job is cancelled at once.
LEMMA AdmitAccount ==
    ASSUME NEW s, StateOK(s), Accounted(s), NEW r \in Requests, NEW t \in Nat,
           ValidDeps(s, r), r.ns \in DOMAIN s.ns, s.next \in Ids
    PROVE  Accounted(Admit(s, r, t))
<1>1. StateOK(Added(s, r, t)) /\ Accounted(Added(s, r, t))
  BY AddedFields, AddedAccount
<1>2. Accounted(CascadeCancel(Added(s, r, t), {s.next}))
  BY <1>1, CancelAccount
<1> QED  BY <1>1, <1>2 DEF Admit

\* A completed job is counted as completed and is no longer live.
LEMMA FinishAccount ==
    ASSUME NEW s, StateOK(s), Accounted(s), NEW i \in Live(s)
    PROVE  Accounted(Finish(s, i))
<1> DEFINE n0 == s.jobs[i].ns
           c == [s.ns[n0] EXCEPT !.completed = @ + 1]
           ns == [s.ns EXCEPT ![n0] = c]
           jobs == [k \in DOMAIN s.jobs |->
               IF k = i THEN Moved(s.jobs[i], "completed")
               ELSE IF k \in s.jobs[i].kids /\ s.jobs[k].left > 0
                    THEN [s.jobs[k] EXCEPT !.left = s.jobs[k].left - 1]
                    ELSE s.jobs[k]]
           u == Finish(s, i)
<1>1. i \in DOMAIN s.jobs /\ s.jobs[i].st \notin Terminal /\ s.jobs[i] \in Job
  BY DEF Live, StateOK
<1>2. n0 \in DOMAIN s.ns /\ s.ns[n0] \in NsState
  BY <1>1 DEF StateOK
<1>3. u = [s EXCEPT !.jobs = jobs, !.ns = ns]
  BY DEF Finish
<1>4. jobs[i].ns = n0
  BY <1>1, MovedFields DEF JobStates, Terminal
<1>5. \A k \in DOMAIN s.jobs : jobs[k].ns = s.jobs[k].ns
  <2> SUFFICES ASSUME NEW k \in DOMAIN s.jobs, k # i PROVE jobs[k].ns = s.jobs[k].ns
    BY <1>4
  <2>1. s.jobs[k] \in Job
    BY DEF StateOK
  <2> QED  BY <2>1 DEF Job
<1> HIDE DEF n0
<1>6. /\ c.ring = s.ns[n0].ring /\ c.enqueued = s.ns[n0].enqueued
      /\ c.cancelled = s.ns[n0].cancelled /\ c.dead = s.ns[n0].dead
      /\ c.completed = s.ns[n0].completed + 1
  BY <1>2, SMTT(60) DEF NsState
<1> HIDE DEF c
<1>7. DOMAIN ns = DOMAIN s.ns /\ \A n \in DOMAIN s.ns : ns[n] = IF n = n0 THEN c ELSE s.ns[n]
  OBVIOUS
<1>8. FinishedIn(s, i, u)
  BY <1>1, FinishFields
<1> HIDE DEF jobs, ns, u
<1>9. u.jobs = jobs /\ u.ns = ns
  BY <1>3 DEF StateOK
<1>10. /\ DOMAIN u.jobs = DOMAIN s.jobs /\ u.jobs[i].st = "completed"
       /\ \A k \in DOMAIN s.jobs \ {i} : u.jobs[k].st = s.jobs[k].st
       /\ \A k \in DOMAIN s.jobs : u.jobs[k].ns = s.jobs[k].ns
  BY <1>5, <1>8, <1>9 DEF FinishedIn
<1>11. ASSUME NEW n \in DOMAIN s.ns, n # n0
       PROVE  Tally(u.ns[n], InState(u, n, "completed"), InState(u, n, "cancelled"),
                    InState(u, n, "dead"), LiveIn(u, n))
  <2>1. \A st : InState(u, n, st) = InState(s, n, st)
    BY <1>10, <1>11 DEF InState, n0
  <2>2. LiveIn(u, n) = LiveIn(s, n)
    BY <1>10, <1>11 DEF LiveIn, Live, n0
  <2>3. u.ns[n] = s.ns[n]
    BY <1>7, <1>9, <1>11
  <2> QED  BY <2>1, <2>2, <2>3 DEF Accounted
<1>12. Tally(u.ns[n0], InState(u, n0, "completed"), InState(u, n0, "cancelled"),
             InState(u, n0, "dead"), LiveIn(u, n0))
  <2>1. InState(u, n0, "completed") = InState(s, n0, "completed") \cup {i}
    BY <1>1, <1>10 DEF InState, n0
  <2>2. /\ InState(u, n0, "cancelled") = InState(s, n0, "cancelled")
        /\ InState(u, n0, "dead") = InState(s, n0, "dead")
    BY <1>1, <1>10 DEF InState, Terminal
  <2>3. LiveIn(u, n0) = LiveIn(s, n0) \ {i}
    BY <1>10 DEF LiveIn, Live, Terminal
  <2>4. {i} \subseteq LiveIn(s, n0)
    BY DEF LiveIn, n0
  <2>5. /\ IsFiniteSet(LiveIn(s, n0)) /\ IsFiniteSet(InState(s, n0, "completed"))
        /\ {i} \cap InState(s, n0, "completed") = {}
    BY <2>4, AccountSets
  <2>6. /\ Cardinality(LiveIn(s, n0)) \in Nat /\ Cardinality({i}) \in Nat
        /\ Cardinality(InState(s, n0, "completed")) \in Nat
        /\ Cardinality(LiveIn(s, n0) \ {i}) \in Nat
        /\ Cardinality(LiveIn(s, n0)) = Cardinality(LiveIn(s, n0) \ {i}) + Cardinality({i})
        /\ Cardinality(InState(s, n0, "completed") \cup {i})
              = Cardinality(InState(s, n0, "completed")) + Cardinality({i})
    <3>1. Moves(LiveIn(s, n0), InState(s, n0, "completed"), {i})
      BY <2>4, <2>5, CountMoves
    <3> QED  BY <3>1 DEF Moves
  <2>7. Cardinality({i}) = 1
    BY FS_Singleton
  <2>8. Tally(s.ns[n0], InState(s, n0, "completed"), InState(s, n0, "cancelled"),
              InState(s, n0, "dead"), LiveIn(s, n0))
    BY <1>2 DEF Accounted
  <2>9. /\ s.ns[n0].completed \in Nat /\ s.ns[n0].cancelled \in Nat
        /\ s.ns[n0].dead \in Nat /\ s.ns[n0].enqueued \in Nat
    BY <1>2 DEF NsState
  <2>10. /\ u.ns[n0].ring = s.ns[n0].ring /\ u.ns[n0].enqueued = s.ns[n0].enqueued
         /\ u.ns[n0].cancelled = s.ns[n0].cancelled /\ u.ns[n0].dead = s.ns[n0].dead
         /\ u.ns[n0].completed = s.ns[n0].completed + 1
    BY <1>2, <1>6, <1>7, <1>9
  <2>11. u.ns[n0].completed = Cardinality(InState(u, n0, "completed"))
    BY <2>1, <2>6, <2>7, <2>8, <2>10 DEF Tally
  <2>12. u.ns[n0].enqueued = u.ns[n0].completed + u.ns[n0].cancelled + u.ns[n0].dead
                               + Cardinality(LiveIn(u, n0))
    <3>1. s.ns[n0].enqueued = s.ns[n0].completed + s.ns[n0].cancelled + s.ns[n0].dead
                                + Cardinality(LiveIn(s, n0))
      BY <2>8 DEF Tally
    <3> QED  BY <3>1, <2>3, <2>6, <2>7, <2>9, <2>10
  <2> QED  BY <2>2, <2>8, <2>10, <2>11, <2>12 DEF Tally
<1>13. Accounted(u)
  BY <1>7, <1>9, <1>11, <1>12 DEF Accounted
<1> QED  BY <1>13 DEF u

Once(q) == \A j, k \in DOMAIN q : q[j] = q[k] => j = k

Elements(q) == {q[k] : k \in DOMAIN q}

\* Appending a new element keeps a sequence free of repetitions.
LEMMA AppendOnce ==
    ASSUME NEW q \in Seq(Ids), Once(q), NEW x \in Ids, x \notin Elements(q)
    PROVE  /\ Once(Append(q, x))
           /\ Elements(Append(q, x)) = Elements(q) \cup {x}
<1> DEFINE p == Append(q, x)
<1>1. /\ Len(q) \in Nat /\ DOMAIN q = 1 .. Len(q)
      /\ p \in Seq(Ids) /\ Len(p) = Len(q) + 1 /\ p[Len(q) + 1] = x
      /\ \A k \in 1 .. Len(q) : p[k] = q[k]
  BY SeqFacts, AppendFacts
<1> HIDE DEF p
<1>2. DOMAIN p = 1 .. Len(q) + 1
  BY <1>1, SeqFacts
<1>3. \A k \in DOMAIN p : k \in DOMAIN q \/ k = Len(q) + 1
  BY <1>1, <1>2
<1>4. \A k \in DOMAIN q : k \in DOMAIN p /\ p[k] = q[k] /\ q[k] # x
  BY <1>1, <1>2 DEF Elements
<1>5. Len(q) + 1 \in DOMAIN p
  BY <1>1, <1>2
<1>6. Once(p)
  <2> SUFFICES ASSUME NEW j \in DOMAIN p, NEW k \in DOMAIN p, p[j] = p[k]
               PROVE  j = k
    BY DEF Once
  <2>1. CASE j \in DOMAIN q /\ k \in DOMAIN q
    BY <1>4, <2>1 DEF Once
  <2>2. CASE j = Len(q) + 1 \/ k = Len(q) + 1
    BY <1>1, <1>3, <1>4, <2>2
  <2> QED  BY <1>3, <2>1, <2>2
<1>7. Elements(p) = Elements(q) \cup {x}
  BY <1>1, <1>3, <1>4, <1>5 DEF Elements
<1> QED  BY <1>6, <1>7 DEF p

\* Dropping the oldest entries of a sequence free of repetitions drops just
\* these elements.
LEMMA SuffixOnce ==
    ASSUME NEW q \in Seq(Ids), Once(q), NEW m \in Nat, m < Len(q)
    PROVE  /\ Once(SubSeq(q, m + 1, Len(q)))
           /\ Elements(SubSeq(q, m + 1, Len(q))) = Elements(q) \ {q[k] : k \in 1 .. m}
<1> DEFINE p == SubSeq(q, m + 1, Len(q))
<1>1. /\ p \in Seq(Ids) /\ Len(p) = Len(q) - m
      /\ \A k \in 1 .. Len(q) - m : p[k] = q[m + k]
  OBVIOUS
<1>2. Len(q) \in Nat /\ DOMAIN q = 1 .. Len(q)
  BY SeqFacts
<1> HIDE DEF p
<1>3. DOMAIN p = 1 .. Len(q) - m
  BY <1>1, SeqFacts
<1>4. ASSUME NEW k \in DOMAIN p
      PROVE  m + k \in DOMAIN q /\ p[k] = q[m + k] /\ m + k \notin 1 .. m
  BY <1>1, <1>2, <1>3
<1>5. ASSUME NEW k \in DOMAIN q, k \notin 1 .. m
      PROVE  k - m \in DOMAIN p /\ p[k - m] = q[k]
  <2>1. k - m \in 1 .. Len(q) - m /\ m + (k - m) = k
    BY <1>2, <1>5
  <2> QED  BY <1>1, <1>3, <2>1
<1>6. Once(p)
  <2> SUFFICES ASSUME NEW j \in DOMAIN p, NEW k \in DOMAIN p, p[j] = p[k]
               PROVE  j = k
    BY DEF Once
  <2>1. m + j = m + k
    BY <1>4 DEF Once
  <2> QED  BY <1>3, <2>1
<1>7. Elements(p) \subseteq Elements(q) \ {q[k] : k \in 1 .. m}
  <2> SUFFICES ASSUME NEW k \in DOMAIN p
               PROVE  p[k] \in Elements(q) /\ \A h \in 1 .. m : p[k] # q[h]
    BY DEF Elements
  <2>1. \A h \in 1 .. m : h \in DOMAIN q
    BY <1>2
  <2> QED  BY <1>4, <2>1 DEF Elements, Once
<1>8. Elements(q) \ {q[k] : k \in 1 .. m} \subseteq Elements(p)
  <2> SUFFICES ASSUME NEW k \in DOMAIN q, q[k] \notin {q[h] : h \in 1 .. m}
               PROVE  q[k] \in Elements(p)
    BY DEF Elements
  <2>1. k \notin 1 .. m
    OBVIOUS
  <2> QED  BY <1>5, <2>1 DEF Elements
<1> QED  BY <1>6, <1>7, <1>8 DEF p

\* What dead-lettering a job leaves of the counters and the rings.
LEMMA DeadLetterNs ==
    ASSUME NEW s, Good(s), Accounted(s), NEW i \in Live(s)
    PROVE  LET u == DeadLetter(s, i)
               n0 == s.jobs[i].ns
           IN /\ DOMAIN u.ns = DOMAIN s.ns
              /\ \A n \in DOMAIN s.ns \ {n0} : u.ns[n] = s.ns[n]
              /\ u.ns[n0].enqueued = s.ns[n0].enqueued
              /\ u.ns[n0].completed = s.ns[n0].completed
              /\ u.ns[n0].cancelled = s.ns[n0].cancelled
              /\ u.ns[n0].dead = s.ns[n0].dead + 1
              /\ Once(u.ns[n0].ring)
              /\ Elements(u.ns[n0].ring)
                    = (InState(s, n0, "dead") \ Dropped(s, i)) \cup {i}
              /\ Dropped(s, i) \subseteq InState(s, n0, "dead")
              /\ DOMAIN u.jobs = DOMAIN s.jobs \ Dropped(s, i)
              /\ \A k \in DOMAIN u.jobs : u.jobs[k].ns = s.jobs[k].ns
<1> DEFINE n0 == s.jobs[i].ns
           old == s.ns[n0].ring
           ring == RingOf(s, i)
           over == Over(s, i)
           kept == SubSeq(ring, over + 1, Len(ring))
           m == s.ns[n0].dead + 1
           c == [s.ns[n0] EXCEPT !.ring = kept, !.dead = m]
           ns == [s.ns EXCEPT ![n0] = c]
           f == [s.jobs[i] EXCEPT !.fails = s.jobs[i].fails + 1]
           jobs == [k \in DOMAIN s.jobs \ Dropped(s, i) |->
                       IF k = i THEN Moved(f, "dead") ELSE s.jobs[k]]
           u == DeadLetter(s, i)
<1>1. StateOK(s) /\ Rings(s) /\ i \in DOMAIN s.jobs /\ s.jobs[i].st \notin Terminal
  BY DEF Good, Almost, Live
<1>2. s.jobs[i] \in Job /\ n0 \in DOMAIN s.ns /\ s.ns[n0] \in NsState /\ i \in Ids
  BY <1>1, QueueAssumption DEF StateOK, Ids
<1>3. old \in Seq(Ids) /\ s.ns[n0].config.dead \in Nat /\ s.ns[n0].config.dead > 0
  BY <1>1, <1>2 DEF NsState, Configs, Rings
<1>4. Once(old) /\ Elements(old) = InState(s, n0, "dead")
  BY <1>2 DEF Accounted, Tally, Once, Elements
<1>5. i \notin InState(s, n0, "dead")
  BY <1>1 DEF InState, Terminal
<1>6. ring = Append(old, i)
  BY DEF RingOf
<1>7. over = IF Len(ring) > s.ns[n0].config.dead
             THEN Len(ring) - s.ns[n0].config.dead ELSE 0
  BY DEF Over
<1>8. Dropped(s, i) = {ring[k] : k \in 1 .. over}
  BY DEF Dropped
<1>9. u = [s EXCEPT !.jobs = jobs, !.ns = [s.ns EXCEPT ![n0].ring = kept, ![n0].dead = @ + 1]]
  BY DEF DeadLetter
<1>10. Moved(f, "dead").ns = n0
  <2>1. f \in Job /\ f.ns = n0
    BY <1>2 DEF Job
  <2> HIDE DEF f
  <2> QED  BY <2>1, MovedFields DEF JobStates, Terminal
<1> HIDE DEF old, ring, over, kept, f
<1>11. /\ ring \in Seq(Ids) /\ Len(ring) = Len(old) + 1 /\ Len(old) \in Nat
       /\ DOMAIN old = 1 .. Len(old)
       /\ \A k \in 1 .. Len(old) : ring[k] = old[k]
  BY <1>2, <1>3, <1>6, AppendFacts, SeqFacts
<1>12. over \in Nat /\ over < Len(ring)
  <2> HIDE DEF n0
  <2> QED  BY <1>3, <1>7, <1>11
<1>13. Once(ring) /\ Elements(ring) = InState(s, n0, "dead") \cup {i}
  BY <1>2, <1>3, <1>4, <1>5, <1>6, AppendOnce
<1>14. Once(kept) /\ Elements(kept) = (InState(s, n0, "dead") \cup {i}) \ Dropped(s, i)
  BY <1>8, <1>11, <1>12, <1>13, SuffixOnce DEF kept
<1>15. Dropped(s, i) \subseteq InState(s, n0, "dead")
  <2>1. \A k \in 1 .. over : k \in DOMAIN old /\ ring[k] = old[k]
    BY <1>11, <1>12
  <2>2. \A k \in DOMAIN old : old[k] \in InState(s, n0, "dead")
    BY <1>4 DEF Elements
  <2> HIDE DEF n0
  <2> QED  BY <1>8, <2>1, <2>2
<1>16. Elements(kept) = (InState(s, n0, "dead") \ Dropped(s, i)) \cup {i}
  BY <1>5, <1>14, <1>15
<1>17. [s.ns EXCEPT ![n0].ring = kept, ![n0].dead = @ + 1] = ns
  <2> HIDE DEF n0
  <2> QED  BY <1>2 DEF NsState
<1>18. /\ c.ring = kept /\ c.enqueued = s.ns[n0].enqueued
       /\ c.completed = s.ns[n0].completed /\ c.cancelled = s.ns[n0].cancelled
       /\ c.dead = m
  <2> HIDE DEF n0, m
  <2> QED  BY <1>2 DEF NsState
<1> HIDE DEF c
<1>19. /\ DOMAIN ns = DOMAIN s.ns /\ ns[n0] = c
       /\ \A n \in DOMAIN s.ns \ {n0} : ns[n] = s.ns[n]
  BY <1>2
<1>20. /\ DOMAIN jobs = DOMAIN s.jobs \ Dropped(s, i)
       /\ \A k \in DOMAIN jobs : jobs[k].ns = s.jobs[k].ns
  BY <1>10
<1> HIDE DEF jobs, ns, u
<1>21. u.jobs = jobs /\ u.ns = ns
  BY <1>1, <1>9, <1>17 DEF StateOK
<1> QED  BY <1>14, <1>15, <1>16, <1>18, <1>19, <1>20, <1>21 DEF u

\* A dead job is counted as dead and named once by the ring, and what the ring
\* drops leaves the table.
LEMMA DeadLetterAccount ==
    ASSUME NEW s, Good(s), Accounted(s), NEW i \in Live(s)
    PROVE  Accounted(DeadLetter(s, i))
<1> DEFINE u == DeadLetter(s, i)
           n0 == s.jobs[i].ns
<1>1. StateOK(s) /\ i \in DOMAIN s.jobs /\ s.jobs[i].st \notin Terminal
  BY DEF Good, Almost, Live
<1>2. n0 \in DOMAIN s.ns /\ s.ns[n0] \in NsState
  BY <1>1 DEF StateOK
<1>3. DeadIn(s, i, u)
  BY DeadLetterFields
<1>4. /\ DOMAIN u.ns = DOMAIN s.ns
      /\ \A n \in DOMAIN s.ns \ {n0} : u.ns[n] = s.ns[n]
      /\ u.ns[n0].enqueued = s.ns[n0].enqueued
      /\ u.ns[n0].completed = s.ns[n0].completed
      /\ u.ns[n0].cancelled = s.ns[n0].cancelled
      /\ u.ns[n0].dead = s.ns[n0].dead + 1
      /\ Once(u.ns[n0].ring)
      /\ Elements(u.ns[n0].ring) = (InState(s, n0, "dead") \ Dropped(s, i)) \cup {i}
      /\ Dropped(s, i) \subseteq InState(s, n0, "dead")
      /\ DOMAIN u.jobs = DOMAIN s.jobs \ Dropped(s, i)
      /\ \A k \in DOMAIN u.jobs : u.jobs[k].ns = s.jobs[k].ns
  BY DeadLetterNs
<1> HIDE DEF u
<1>5. /\ i \in DOMAIN u.jobs /\ u.jobs[i].st = "dead"
      /\ \A k \in DOMAIN u.jobs \ {i} : u.jobs[k].st = s.jobs[k].st
  BY <1>3 DEF DeadIn
<1>6. \A k \in Dropped(s, i) : s.jobs[k].st = "dead" /\ s.jobs[k].ns = n0
  BY <1>4 DEF InState
<1>7. s.jobs[i].ns = n0
  OBVIOUS
<1> HIDE DEF n0
<1>8. ASSUME NEW n \in DOMAIN s.ns, n # n0
      PROVE  Tally(u.ns[n], InState(u, n, "completed"), InState(u, n, "cancelled"),
                   InState(u, n, "dead"), LiveIn(u, n))
  <2>1. \A st : InState(u, n, st) = InState(s, n, st)
    BY <1>4, <1>5, <1>6, <1>7, <1>8 DEF InState
  <2>2. LiveIn(u, n) = LiveIn(s, n)
    BY <1>4, <1>5, <1>6, <1>7, <1>8 DEF LiveIn, Live
  <2>3. u.ns[n] = s.ns[n]
    BY <1>4, <1>8
  <2> QED  BY <2>1, <2>2, <2>3 DEF Accounted
<1>9. Tally(u.ns[n0], InState(u, n0, "completed"), InState(u, n0, "cancelled"),
            InState(u, n0, "dead"), LiveIn(u, n0))
  <2>1. /\ InState(u, n0, "completed") = InState(s, n0, "completed")
        /\ InState(u, n0, "cancelled") = InState(s, n0, "cancelled")
    BY <1>1, <1>4, <1>5, <1>6 DEF InState, Terminal
  <2>2. InState(u, n0, "dead") = (InState(s, n0, "dead") \ Dropped(s, i)) \cup {i}
    BY <1>4, <1>5, <1>7 DEF InState
  <2>3. LiveIn(u, n0) = LiveIn(s, n0) \ {i}
    BY <1>4, <1>5, <1>6 DEF LiveIn, Live, Terminal
  <2>4. i \in LiveIn(s, n0) /\ IsFiniteSet(LiveIn(s, n0))
    BY <1>1, <1>7, AccountSets DEF LiveIn
  <2>5. /\ Cardinality(LiveIn(s, n0)) \in Nat
        /\ Cardinality(LiveIn(s, n0) \ {i}) = Cardinality(LiveIn(s, n0)) - 1
    BY <2>4, FS_CardinalityType, FS_RemoveElement
  <2>6. Tally(s.ns[n0], InState(s, n0, "completed"), InState(s, n0, "cancelled"),
              InState(s, n0, "dead"), LiveIn(s, n0))
    BY <1>2 DEF Accounted
  <2>7. /\ s.ns[n0].completed \in Nat /\ s.ns[n0].cancelled \in Nat
        /\ s.ns[n0].dead \in Nat /\ s.ns[n0].enqueued \in Nat
    BY <1>2 DEF NsState
  <2>8. u.ns[n0].enqueued = u.ns[n0].completed + u.ns[n0].cancelled + u.ns[n0].dead
                              + Cardinality(LiveIn(u, n0))
    <3>1. s.ns[n0].enqueued = s.ns[n0].completed + s.ns[n0].cancelled + s.ns[n0].dead
                                + Cardinality(LiveIn(s, n0))
      BY <2>6 DEF Tally
    <3> QED  BY <3>1, <1>4, <2>3, <2>5, <2>7
  <2>9. /\ \A j, k \in DOMAIN u.ns[n0].ring :
              u.ns[n0].ring[j] = u.ns[n0].ring[k] => j = k
        /\ {u.ns[n0].ring[k] : k \in DOMAIN u.ns[n0].ring} = InState(u, n0, "dead")
    BY <1>4, <2>2 DEF Once, Elements
  <2>10. /\ u.ns[n0].completed = Cardinality(InState(u, n0, "completed"))
         /\ u.ns[n0].cancelled = Cardinality(InState(u, n0, "cancelled"))
    BY <1>4, <2>1, <2>6 DEF Tally
  <2> QED  BY <2>8, <2>9, <2>10 DEF Tally
<1>10. Accounted(u)
  BY <1>4, <1>8, <1>9 DEF Accounted
<1> QED  BY <1>10 DEF u

\* Dead-lettering a job with its dependents keeps the account.
LEMMA GiveUpAccount ==
    ASSUME NEW s, Good(s), Accounted(s), NEW i \in Live(s)
    PROVE  Accounted(GiveUp(s, i))
<1>1. StateOK(DeadLetter(s, i)) /\ Accounted(DeadLetter(s, i))
  BY DeadLetterFields, DeadLetterAccount
<1> QED  BY <1>1, CancelAccount DEF GiveUp

-----------------------------------------------------------------------------
(* The account in every step *)

\* The live state and the snapshot are accounted for.
BothAccounted == Accounted(mem) /\ Accounted(disk)

\* A save leaves the new state in memory and one of the two on disk.
LEMMA SavedAccount ==
    ASSUME NEW u, NEW ok \in BOOLEAN, Save(u, ok), BothAccounted, Accounted(u)
    PROVE  BothAccounted'
<1>1. mem' = u /\ disk' \in {disk, u}
  BY DEF Save
<1> QED  BY <1>1 DEF BothAccounted

\* So does a refused call.
LEMMA RefusedAccount ==
    ASSUME NEW u, Refuse(u), BothAccounted, Accounted(u)
    PROVE  BothAccounted'
<1>1. mem' = u /\ disk' = disk
  BY DEF Refuse
<1> QED  BY <1>1 DEF BothAccounted

\* Queue::enqueue keeps the account.
LEMMA EnqueueAccount ==
    ASSUME IInv, BothAccounted, NEW r \in Requests, NEW ok \in BOOLEAN,
           Enqueue(r, ok), Good(Ticked), Accounted(Ticked)
    PROVE  BothAccounted'
<1> DEFINE s == EnsureNs(Ticked, r.ns, DefaultConfig)
<1>1. r.ns \in Namespaces /\ DefaultConfig \in Configs /\ DefaultConfig.dead > 0
  BY QueueAssumption, RingAssumption
<1>2. StateOK(Ticked) /\ now \in Nat
  BY DEF Good, Almost, IInv, Plain
<1>3. StateOK(s) /\ Accounted(s) /\ r.ns \in DOMAIN s.ns
  BY <1>1, <1>2, EnsureGood, EnsureAccount, EnsureFields DEF Good, Almost
<1>4. CASE Refuse(s)
  BY <1>3, <1>4, RefusedAccount
<1>5. CASE ValidDeps(s, r) /\ s.next \in Ids /\ Save(Admit(s, r, now), ok)
  <2> HIDE DEF s
  <2>1. Accounted(Admit(s, r, now))
    BY <1>2, <1>3, <1>5, AdmitAccount
  <2> QED  BY <1>5, <2>1, SavedAccount
<1> QED  BY <1>4, <1>5 DEF Enqueue

\* Queue::acquire and Queue::heartbeat keep the account.
LEMMA LeasingAccount ==
    ASSUME IInv, BothAccounted, NEW w \in Workers, NEW d \in Leases,
           NEW ok \in BOOLEAN, Good(Ticked), Accounted(Ticked),
           Acquire(w, d, ok) \/ \E i \in Ids : Heartbeat(w, i, d, ok)
    PROVE  BothAccounted'
<1>1. StateOK(Ticked) /\ now + d \in Nat
  BY QueueAssumption DEF Good, Almost, IInv, Plain
<1>2. CASE Refuse(Ticked)
  BY <1>2, RefusedAccount
<1>3. ASSUME NEW i \in Live(Ticked), Save(Lease(Ticked, i, w, now + d), ok)
      PROVE  BothAccounted'
  <2>1. Accounted(Lease(Ticked, i, w, now + d))
    BY <1>1, LeaseAccount
  <2> QED  BY <1>3, <2>1, SavedAccount
<1>4. CASE Acquire(w, d, ok)
  <2>1. \A caps : Acquirable(Ticked, caps) \subseteq Live(Ticked)
    BY DEF Acquirable, Live, Terminal
  <2> QED  BY <1>2, <1>3, <1>4, <2>1 DEF Acquire
<1>5. CASE \E i \in Ids : Heartbeat(w, i, d, ok)
  <2>1. \A i : IsHolder(Ticked, w, i) => i \in Live(Ticked)
    BY HolderJob
  <2> QED  BY <1>2, <1>3, <1>5, <2>1 DEF Heartbeat
<1> QED  BY <1>4, <1>5

\* Queue::complete and Queue::fail keep the account.
LEMMA EndingAccount ==
    ASSUME IInv, BothAccounted, NEW w \in Workers, NEW i \in Ids,
           NEW ok \in BOOLEAN, Good(Ticked), Accounted(Ticked),
           Complete(w, i, ok) \/ Fail(w, i, ok)
    PROVE  BothAccounted'
<1>1. StateOK(Ticked) /\ now \in Nat
  BY DEF Good, Almost, IInv, Plain
<1>2. CASE Refuse(Ticked)
  BY <1>2, RefusedAccount
<1>3. IsHolder(Ticked, w, i) => i \in Live(Ticked)
  BY HolderJob
<1>4. CASE IsHolder(Ticked, w, i) /\ Save(Finish(Ticked, i), ok)
  BY <1>1, <1>3, <1>4, FinishAccount, SavedAccount
<1>5. CASE IsHolder(Ticked, w, i) /\ Save(GiveUp(Ticked, i), ok)
  BY <1>1, <1>3, <1>5, GiveUpAccount, SavedAccount
<1>6. ASSUME IsHolder(Ticked, w, i), NEW t \in Nat, Save(Retry(Ticked, i, t), ok)
      PROVE  BothAccounted'
  BY <1>1, <1>3, <1>6, RetryAccount, SavedAccount
<1>7. ASSUME NEW n, NEW delay \in Backoff(n) PROVE now + delay \in Nat
  BY <1>1, QueueAssumption DEF Backoff
<1> QED  BY <1>2, <1>4, <1>5, <1>6, <1>7 DEF Complete, Fail

\* Queue::cancel and Queue::promote keep the account.
LEMMA SteeringAccount ==
    ASSUME IInv, BothAccounted, NEW i \in Ids, NEW ok \in BOOLEAN, Good(Ticked),
           Accounted(Ticked),
           Cancel(i, ok) \/ \E p \in Priorities : Promote(i, p, ok)
    PROVE  BothAccounted'
<1>1. StateOK(Ticked)
  BY DEF Good, Almost
<1>2. CASE Cancel(i, ok)
  BY <1>1, <1>2, CancelAccount, SavedAccount DEF Cancel
<1>3. ASSUME NEW p \in Priorities, Promote(i, p, ok) PROVE BothAccounted'
  <2>1. CASE Refuse(Ticked)
    BY <2>1, RefusedAccount
  <2>2. CASE /\ i \in DOMAIN Ticked.jobs
             /\ Ticked.jobs[i].st \in {"pending", "scheduled"}
             /\ Save([Ticked EXCEPT !.jobs[i].prio = p], ok)
    <3>1. i \in Live(Ticked) /\ p \in Nat
      BY <2>2, QueueAssumption DEF Live, Terminal
    <3>2. Accounted([Ticked EXCEPT !.jobs[i].prio = p])
      BY <1>1, <3>1, PromoteAccount
    <3> QED  BY <2>2, <3>2, SavedAccount
  <2> QED  BY <1>3, <2>1, <2>2 DEF Promote
<1> QED  BY <1>2, <1>3

\* Registering workers and namespaces keeps the account.
LEMMA RegistryAccount ==
    ASSUME IInv, BothAccounted, NEW ok \in BOOLEAN, Good(Ticked), Accounted(Ticked),
           \/ \E w \in Workers, caps \in CapLists : RegisterWorker(w, caps, ok)
           \/ \E w \in Workers : DeregisterWorker(w, ok)
           \/ \E n \in Namespaces, c \in NsConfigs : RegisterNamespace(n, c, ok)
    PROVE  BothAccounted'
<1>1. StateOK(Ticked) /\ StateOK(mem) /\ Good(mem) /\ Accounted(mem)
  BY DEF Good, Almost, IInv, BothAccounted
<1>2. ASSUME NEW w \in Workers, NEW caps \in CapLists, RegisterWorker(w, caps, ok)
      PROVE  BothAccounted'
  BY <1>1, <1>2, RegisterAccount, SavedAccount DEF RegisterWorker
<1>3. ASSUME NEW w \in Workers, DeregisterWorker(w, ok) PROVE BothAccounted'
  BY <1>1, <1>3, ReleaseAccount, SavedAccount DEF DeregisterWorker
<1>4. ASSUME NEW n \in Namespaces, NEW c \in NsConfigs, RegisterNamespace(n, c, ok)
      PROVE  BothAccounted'
  <2> DEFINE e == EnsureNs(mem, n, c)
  <2>1. c \in Configs /\ c.dead > 0
    BY QueueAssumption, RingAssumption
  <2>2. StateOK(e) /\ Accounted(e) /\ n \in DOMAIN e.ns
    BY <1>1, <2>1, EnsureGood, EnsureAccount, EnsureFields DEF Good, Almost
  <2>3. Save([e EXCEPT !.ns[n].config = c], ok)
    BY <1>4 DEF RegisterNamespace
  <2> HIDE DEF e
  <2>4. Accounted([e EXCEPT !.ns[n].config = c])
    BY <2>2, ConfigureAccount
  <2> QED  BY <2>3, <2>4, SavedAccount
<1> QED  BY <1>2, <1>3, <1>4

\* Every step keeps the account.
LEMMA AccountNext == IInv /\ BothAccounted /\ [Next]_vars => BothAccounted'
<1> SUFFICES ASSUME IInv, BothAccounted, [Next]_vars PROVE BothAccounted'
  OBVIOUS
<1>1. Good(Ticked) /\ Accounted(Ticked)
  <2>1. StateOK(mem) /\ Accounted(mem)
    BY DEF IInv, Good, Almost, BothAccounted
  <2> QED  BY <2>1, TickHolds, TickAccount DEF Holds, Ticked
<1>2. ASSUME NEW ok \in BOOLEAN, NEW r \in Requests, Enqueue(r, ok)
      PROVE  BothAccounted'
  BY <1>1, <1>2, EnqueueAccount
<1>3. ASSUME NEW ok \in BOOLEAN, NEW w \in Workers, NEW d \in Leases,
             Acquire(w, d, ok) \/ \E i \in Ids : Heartbeat(w, i, d, ok)
      PROVE  BothAccounted'
  BY <1>1, <1>3, LeasingAccount
<1>4. ASSUME NEW ok \in BOOLEAN, NEW w \in Workers, NEW i \in Ids,
             Complete(w, i, ok) \/ Fail(w, i, ok)
      PROVE  BothAccounted'
  BY <1>1, <1>4, EndingAccount
<1>5. ASSUME NEW ok \in BOOLEAN, NEW i \in Ids,
             Cancel(i, ok) \/ \E p \in Priorities : Promote(i, p, ok)
      PROVE  BothAccounted'
  BY <1>1, <1>5, SteeringAccount
<1>6. ASSUME NEW ok \in BOOLEAN,
             \/ \E w \in Workers, caps \in CapLists : RegisterWorker(w, caps, ok)
             \/ \E w \in Workers : DeregisterWorker(w, ok)
             \/ \E n \in Namespaces, c \in NsConfigs : RegisterNamespace(n, c, ok)
      PROVE  BothAccounted'
  BY <1>1, <1>6, RegistryAccount
<1>7. CASE Observe
  BY <1>1, <1>7, RefusedAccount DEF Observe
<1>8. CASE AdvanceClock \/ UNCHANGED vars
  <2>1. mem' = mem /\ disk' = disk
    BY <1>8 DEF AdvanceClock, vars
  <2> QED  BY <2>1 DEF BothAccounted
<1>9. CASE Reopen
  <2>1. mem' = disk /\ disk' = disk
    BY <1>9 DEF Reopen
  <2> QED  BY <2>1 DEF BothAccounted
<1> QED
  BY <1>2, <1>3, <1>4, <1>5, <1>6, <1>7, <1>8, <1>9 DEF Next

\* Every job ever admitted is live or was counted, once, where it ended, in the
\* live state and in the snapshot, and the ring names just the dead jobs kept.
THEOREM QueueAccounts == Spec => []JobsAccounted
<1>1. Init => BothAccounted
  BY DEF Init, Empty, BothAccounted, Accounted
<1>2. IInv /\ BothAccounted => JobsAccounted
  <2> SUFFICES ASSUME IInv, BothAccounted, NEW s \in {mem, disk}, NEW n \in DOMAIN s.ns
               PROVE  Settled(s, n)
    BY DEF JobsAccounted, Settled
  <2>1. StateOK(s) /\ Accounted(s)
    BY DEF IInv, Good, Almost, BothAccounted
  <2> QED  BY <2>1, AccountedState
<1> QED  BY <1>1, <1>2, AccountNext, IInvAlways, PTL DEF Spec

-----------------------------------------------------------------------------
(* What has ended *)

\* A state comes after itself.
LEMMA FinalSelf ==
    ASSUME NEW s, StateOK(s)
    PROVE  Final(s, s)
<1>1. s.next \in Nat
  BY QueueAssumption DEF StateOK
<1> QED  BY <1>1 DEF Final

\* What comes after a later state comes after the earlier one.
LEMMA FinalChain ==
    ASSUME NEW s, NEW u, NEW v, StateOK(s), StateOK(u), StateOK(v),
           Final(s, u), Final(u, v)
    PROVE  Final(s, v)
<1>1. s.next \in Nat /\ u.next \in Nat /\ v.next \in Nat
  BY QueueAssumption DEF StateOK
<1>2. s.next <= v.next
  BY <1>1 DEF Final
<1>3. ASSUME NEW i \in DOMAIN v.jobs PROVE i \in DOMAIN s.jobs \/ i >= s.next
  <2>1. i \in Nat
    BY <1>1 DEF StateOK
  <2> QED  BY <1>1, <2>1 DEF Final
<1>4. ASSUME NEW i \in DOMAIN s.jobs \ Live(s)
      PROVE  IF i \in DOMAIN v.jobs
             THEN v.jobs[i].st = s.jobs[i].st
             ELSE s.jobs[i].st = "dead"
  <2>1. s.jobs[i].st \in Terminal /\ i \in Nat /\ i < s.next
    BY <1>1 DEF Live, StateOK
  <2>2. CASE i \in DOMAIN u.jobs
    <3>1. u.jobs[i].st = s.jobs[i].st
      BY <2>2 DEF Final
    <3>2. i \in DOMAIN u.jobs \ Live(u)
      BY <2>1, <2>2, <3>1 DEF Live
    <3> QED  BY <3>1, <3>2 DEF Final
  <2>3. CASE i \notin DOMAIN u.jobs
    <3>1. s.jobs[i].st = "dead"
      BY <2>3 DEF Final
    <3>2. i \notin DOMAIN v.jobs
      BY <1>1, <2>1, <2>3 DEF Final
    <3> QED  BY <3>1, <3>2
  <2> QED  BY <2>2, <2>3
<1> QED  BY <1>2, <1>3, <1>4 DEF Final

\* A change of jobs that have not ended undoes no end.
LEMMA FinalSame ==
    ASSUME NEW s, NEW u, StateOK(s), u.next = s.next, DOMAIN u.jobs = DOMAIN s.jobs,
           \A i \in DOMAIN s.jobs :
              s.jobs[i].st \in Terminal => u.jobs[i].st = s.jobs[i].st
    PROVE  Final(s, u)
<1>1. s.next \in Nat
  BY QueueAssumption DEF StateOK
<1> QED  BY <1>1 DEF Final, Live

\* Ticking undoes no end.
LEMMA TickFinal ==
    ASSUME NEW s, StateOK(s), NEW t
    PROVE  Final(s, Tick(s, t))
<1> DEFINE u == Tick(s, t)
<1>1. /\ u.next = s.next /\ DOMAIN u.jobs = DOMAIN s.jobs
      /\ \A i \in DOMAIN s.jobs :
            u.jobs[i] = s.jobs[i] \/ s.jobs[i].st \in {"scheduled", "retry", "leased"}
  BY TickFields
<1> HIDE DEF u
<1>2. Final(s, u)
  BY <1>1, FinalSame DEF Terminal
<1> QED  BY <1>2 DEF u

\* A cascade passes over what has ended.
LEMMA CancelFinal ==
    ASSUME NEW s, StateOK(s), NEW roots
    PROVE  Final(s, CascadeCancel(s, roots))
<1> DEFINE u == CascadeCancel(s, roots)
<1>1. /\ u.next = s.next /\ DOMAIN u.jobs = DOMAIN s.jobs
      /\ \A i \in DOMAIN s.jobs :
            u.jobs[i] = IF i \in Cascade(s, roots)
                        THEN Moved(s.jobs[i], "cancelled") ELSE s.jobs[i]
  BY CancelFields
<1>2. \A i \in Cascade(s, roots) : s.jobs[i].st \notin Terminal
  BY CascadeClosed DEF Live
<1> HIDE DEF u
<1>3. Final(s, u)
  BY <1>1, <1>2, FinalSame
<1> QED  BY <1>3 DEF u

\* Enqueueing undoes no end, and uses a new id.
LEMMA AdmitFinal ==
    ASSUME NEW s, StateOK(s), NEW r \in Requests, NEW t \in Nat,
           ValidDeps(s, r), r.ns \in DOMAIN s.ns, s.next \in Ids
    PROVE  Final(s, Admit(s, r, t))
<1> DEFINE a == Added(s, r, t)
<1>1. StateOK(a) /\ AddedTo(s, r, a)
  BY AddedFields
<1>2. StateOK(CascadeCancel(a, {s.next})) /\ Final(a, CascadeCancel(a, {s.next}))
  BY <1>1, CancelFields, CancelFinal
<1> HIDE DEF a
<1>3. s.next \in Nat
  BY QueueAssumption DEF StateOK
<1>4. Final(s, a)
  <2>1. s.next <= a.next
    BY <1>1, <1>3 DEF AddedTo
  <2>2. \A i \in DOMAIN a.jobs : i \in DOMAIN s.jobs \/ i >= s.next
    BY <1>1, <1>3 DEF AddedTo
  <2>3. \A i \in DOMAIN s.jobs : i \in DOMAIN a.jobs /\ a.jobs[i].st = s.jobs[i].st
    BY <1>1 DEF AddedTo
  <2> QED  BY <2>1, <2>2, <2>3 DEF Final
<1>5. Final(s, CascadeCancel(a, {s.next}))
  BY <1>1, <1>2, <1>4, FinalChain
<1> QED  BY <1>4, <1>5 DEF Admit, a

\* Completing a job undoes no other end.
LEMMA FinishFinal ==
    ASSUME NEW s, StateOK(s), NEW i \in Live(s)
    PROVE  Final(s, Finish(s, i))
<1> DEFINE u == Finish(s, i)
<1>1. i \in DOMAIN s.jobs /\ s.jobs[i].st \notin Terminal
  BY DEF Live
<1>2. FinishedIn(s, i, u)
  BY <1>1, FinishFields
<1> HIDE DEF u
<1>3. Final(s, u)
  BY <1>1, <1>2, FinalSame DEF FinishedIn
<1> QED  BY <1>3 DEF u

\* Dead-lettering a job undoes no other end: the ring drops only dead jobs.
LEMMA GiveUpFinal ==
    ASSUME NEW s, Good(s), NEW i \in Live(s)
    PROVE  Final(s, GiveUp(s, i))
<1> DEFINE d == DeadLetter(s, i)
           roots == IF i \in DOMAIN d.jobs THEN d.jobs[i].kids ELSE {}
<1>1. StateOK(s) /\ s.jobs[i].st \notin Terminal /\ s.next \in Nat
  BY QueueAssumption DEF Good, Almost, Live, StateOK
<1>2. StateOK(d) /\ DeadIn(s, i, d)
  BY DeadLetterFields
<1>3. GiveUp(s, i) = CascadeCancel(d, roots)
  BY DEF GiveUp
<1> HIDE DEF d, roots
<1>4. Final(s, d)
  <2>1. s.next <= d.next /\ DOMAIN d.jobs \subseteq DOMAIN s.jobs
    BY <1>1, <1>2 DEF DeadIn
  <2>2. ASSUME NEW k \in DOMAIN s.jobs \ Live(s)
        PROVE  IF k \in DOMAIN d.jobs THEN d.jobs[k].st = s.jobs[k].st
                                      ELSE s.jobs[k].st = "dead"
    BY <1>1, <1>2 DEF DeadIn, Live
  <2> QED  BY <2>1, <2>2 DEF Final
<1>5. StateOK(CascadeCancel(d, roots)) /\ Final(d, CascadeCancel(d, roots))
  BY <1>2, CancelFields, CancelFinal
<1>6. Final(s, CascadeCancel(d, roots))
  BY <1>1, <1>2, <1>4, <1>5, FinalChain
<1> QED  BY <1>3, <1>6

\* What a call leaves in memory: a good state that comes after the one it
\* found there.
Later(u) == StateOK(u) /\ Final(mem, u)

\* From the ticked state a call goes on.
LEMMA LaterThanTicked ==
    ASSUME IInv, NEW u, StateOK(u), Final(Ticked, u)
    PROVE  Later(u)
<1>1. StateOK(mem) /\ StateOK(Ticked)
  BY TickHolds DEF IInv, Holds, Good, Almost
<1>2. Final(mem, Ticked)
  BY <1>1, TickFinal DEF Ticked
<1> QED  BY <1>1, <1>2, FinalChain DEF Later

\* Every step leaves in memory a later state, and on disk the snapshot or that
\* state; or it starts from the snapshot again.
Onward ==
    \/ Later(mem') /\ disk' \in {disk, mem'}
    \/ mem' = disk /\ disk' = disk

\* A call that saves goes onward.
LEMMA SaveOnward ==
    ASSUME NEW u, NEW ok \in BOOLEAN, Later(u), Save(u, ok)
    PROVE  Onward
BY DEF Save, Onward

\* So does one that is refused.
LEMMA RefuseOnward ==
    ASSUME NEW u, Later(u), Refuse(u)
    PROVE  Onward
BY DEF Refuse, Onward

\* Queue::enqueue goes onward.
LEMMA EnqueueOnward ==
    ASSUME IInv, NEW r \in Requests, NEW ok \in BOOLEAN, Enqueue(r, ok)
    PROVE  Onward
<1> DEFINE s == EnsureNs(Ticked, r.ns, DefaultConfig)
<1>1. r.ns \in Namespaces /\ DefaultConfig \in Configs /\ DefaultConfig.dead > 0
  BY QueueAssumption, RingAssumption
<1>2. Good(Ticked) /\ StateOK(Ticked) /\ now \in Nat
  BY TickHolds DEF Holds, Good, Almost, IInv, Plain
<1>3. Good(s) /\ StateOK(s) /\ r.ns \in DOMAIN s.ns
  BY <1>1, <1>2, EnsureGood, EnsureFields DEF Good, Almost
<1>4. s.next = Ticked.next /\ s.jobs = Ticked.jobs
  BY <1>1, <1>2, EnsureFields
<1>5. (\/ Refuse(s)
       \/ ValidDeps(s, r) /\ s.next \in Ids /\ Save(Admit(s, r, now), ok))
  BY DEF Enqueue
<1> HIDE DEF s
<1>6. Final(Ticked, s)
  BY <1>2, <1>4, FinalSame
<1>7. CASE Refuse(s)
  BY <1>3, <1>6, <1>7, LaterThanTicked, RefuseOnward
<1>8. CASE ValidDeps(s, r) /\ s.next \in Ids /\ Save(Admit(s, r, now), ok)
  <2>1. StateOK(Admit(s, r, now)) /\ Final(s, Admit(s, r, now))
    BY <1>2, <1>3, <1>8, AdmitGood, AdmitFinal DEF Good, Almost
  <2>2. Final(Ticked, Admit(s, r, now))
    BY <1>2, <1>3, <1>6, <2>1, FinalChain
  <2> QED  BY <1>8, <2>1, <2>2, LaterThanTicked, SaveOnward
<1> QED  BY <1>5, <1>7, <1>8

\* The ticked state is later.
LEMMA TickedLater ==
    ASSUME IInv
    PROVE  Good(Ticked) /\ StateOK(Ticked) /\ Later(Ticked)
<1>1. Good(Ticked) /\ StateOK(Ticked)
  BY TickHolds DEF Holds, Good, Almost
<1> QED  BY <1>1, FinalSelf, LaterThanTicked

\* Queue::acquire and Queue::heartbeat go onward.
LEMMA LeasingOnward ==
    ASSUME IInv, NEW w \in Workers, NEW d \in Leases, NEW ok \in BOOLEAN,
           Acquire(w, d, ok) \/ \E i \in Ids : Heartbeat(w, i, d, ok)
    PROVE  Onward
<1>1. Good(Ticked) /\ StateOK(Ticked) /\ Later(Ticked) /\ now + d \in Nat
  BY TickedLater, QueueAssumption DEF IInv, Plain
<1>2. CASE Refuse(Ticked)
  BY <1>1, <1>2, RefuseOnward
<1>3. ASSUME NEW i \in Live(Ticked), Save(Lease(Ticked, i, w, now + d), ok)
      PROVE  Onward
  <2> DEFINE u == Lease(Ticked, i, w, now + d)
  <2>1. i \in DOMAIN Ticked.jobs /\ Ticked.jobs[i].st \notin Terminal
    BY DEF Live
  <2>2. /\ StateOK(u) /\ u.next = Ticked.next /\ DOMAIN u.jobs = DOMAIN Ticked.jobs
        /\ \A k \in DOMAIN Ticked.jobs \ {i} : u.jobs[k] = Ticked.jobs[k]
    BY <1>1, <2>1, LeaseFields
  <2>3. Save(u, ok)
    BY <1>3
  <2> HIDE DEF u
  <2>4. Final(Ticked, u)
    BY <1>1, <2>1, <2>2, FinalSame
  <2> QED  BY <2>2, <2>3, <2>4, LaterThanTicked, SaveOnward
<1>4. CASE Acquire(w, d, ok)
  <2>1. \A caps : Acquirable(Ticked, caps) \subseteq Live(Ticked)
    BY DEF Acquirable, Live, Terminal
  <2> QED  BY <1>2, <1>3, <1>4, <2>1 DEF Acquire
<1>5. CASE \E i \in Ids : Heartbeat(w, i, d, ok)
  <2>1. \A i : IsHolder(Ticked, w, i) => i \in Live(Ticked)
    BY <1>1, HolderJob
  <2> QED  BY <1>2, <1>3, <1>5, <2>1 DEF Heartbeat
<1> QED  BY <1>4, <1>5

\* Queue::complete and Queue::fail go onward.
LEMMA EndingOnward ==
    ASSUME IInv, NEW w \in Workers, NEW i \in Ids, NEW ok \in BOOLEAN,
           Complete(w, i, ok) \/ Fail(w, i, ok)
    PROVE  Onward
<1>1. Good(Ticked) /\ StateOK(Ticked) /\ Later(Ticked) /\ now \in Nat
  BY TickedLater DEF IInv, Plain
<1>2. CASE Refuse(Ticked)
  BY <1>1, <1>2, RefuseOnward
<1>3. ASSUME IsHolder(Ticked, w, i)
      PROVE  /\ i \in Live(Ticked) /\ i \in DOMAIN Ticked.jobs
             /\ Ticked.jobs[i].st \notin Terminal
  BY <1>1, <1>3, HolderJob DEF Live
<1>4. CASE IsHolder(Ticked, w, i) /\ Save(Finish(Ticked, i), ok)
  <2>1. StateOK(Finish(Ticked, i)) /\ Final(Ticked, Finish(Ticked, i))
    BY <1>1, <1>3, <1>4, FinishFields, FinishFinal
  <2> QED  BY <1>4, <2>1, LaterThanTicked, SaveOnward
<1>5. CASE IsHolder(Ticked, w, i) /\ Save(GiveUp(Ticked, i), ok)
  <2>1. StateOK(GiveUp(Ticked, i)) /\ Final(Ticked, GiveUp(Ticked, i))
    BY <1>1, <1>3, <1>5, GiveUpGood, GiveUpFinal DEF Good, Almost
  <2> QED  BY <1>5, <2>1, LaterThanTicked, SaveOnward
<1>6. ASSUME IsHolder(Ticked, w, i), NEW t \in Nat, Save(Retry(Ticked, i, t), ok)
      PROVE  Onward
  <2> DEFINE u == Retry(Ticked, i, t)
  <2>1. /\ StateOK(u) /\ u.next = Ticked.next /\ DOMAIN u.jobs = DOMAIN Ticked.jobs
        /\ \A k \in DOMAIN Ticked.jobs \ {i} : u.jobs[k] = Ticked.jobs[k]
    BY <1>1, <1>3, <1>6, RetryFields
  <2>2. Save(u, ok)
    BY <1>6
  <2> HIDE DEF u
  <2>3. Final(Ticked, u)
    BY <1>1, <1>3, <1>6, <2>1, FinalSame
  <2> QED  BY <2>1, <2>2, <2>3, LaterThanTicked, SaveOnward
<1>7. ASSUME NEW n, NEW delay \in Backoff(n) PROVE now + delay \in Nat
  BY <1>1, QueueAssumption DEF Backoff
<1> QED  BY <1>2, <1>4, <1>5, <1>6, <1>7 DEF Complete, Fail

\* Queue::cancel and Queue::promote go onward.
LEMMA SteeringOnward ==
    ASSUME IInv, NEW i \in Ids, NEW ok \in BOOLEAN,
           Cancel(i, ok) \/ \E p \in Priorities : Promote(i, p, ok)
    PROVE  Onward
<1>1. Good(Ticked) /\ StateOK(Ticked) /\ Later(Ticked)
  BY TickedLater
<1>2. CASE Cancel(i, ok)
  <2>1. /\ StateOK(CascadeCancel(Ticked, {i}))
        /\ Final(Ticked, CascadeCancel(Ticked, {i}))
    BY <1>1, CancelFields, CancelFinal
  <2> QED  BY <1>2, <2>1, LaterThanTicked, SaveOnward DEF Cancel
<1>3. ASSUME NEW p \in Priorities, Promote(i, p, ok) PROVE Onward
  <2> DEFINE u == [Ticked EXCEPT !.jobs[i].prio = p]
  <2>1. CASE Refuse(Ticked)
    BY <1>1, <2>1, RefuseOnward
  <2>2. CASE i \in DOMAIN Ticked.jobs /\ Save(u, ok)
    <3>1. p \in Nat
      BY QueueAssumption
    <3>2. /\ Good(u) /\ Keeps(Ticked, u) /\ DOMAIN u.jobs = DOMAIN Ticked.jobs
          /\ \A k \in DOMAIN Ticked.jobs : u.jobs[k].st = Ticked.jobs[k].st
      BY <1>1, <2>2, <3>1, PromoteGood
    <3>3. u.next = Ticked.next
      BY <1>1 DEF StateOK
    <3> HIDE DEF u
    <3>4. StateOK(u) /\ Final(Ticked, u)
      BY <1>1, <3>2, <3>3, FinalSame DEF Good, Almost
    <3> QED  BY <2>2, <3>4, LaterThanTicked, SaveOnward
  <2> QED  BY <1>3, <2>1, <2>2 DEF Promote
<1> QED  BY <1>2, <1>3

\* Registering workers and namespaces goes onward.
LEMMA RegistryOnward ==
    ASSUME IInv, NEW ok \in BOOLEAN,
           \/ \E w \in Workers, caps \in CapLists : RegisterWorker(w, caps, ok)
           \/ \E w \in Workers : DeregisterWorker(w, ok)
           \/ \E n \in Namespaces, c \in NsConfigs : RegisterNamespace(n, c, ok)
    PROVE  Onward
<1>1. Good(Ticked) /\ StateOK(Ticked) /\ StateOK(mem) /\ Good(mem)
  BY TickedLater DEF Good, Almost, IInv
<1>2. ASSUME NEW w \in Workers, NEW caps \in CapLists, RegisterWorker(w, caps, ok)
      PROVE  Onward
  <2> DEFINE u == Register(Ticked, w, caps)
             workers == [v \in DOMAIN Ticked.workers \cup {w} |->
                             IF v = w THEN caps ELSE Ticked.workers[v]]
  <2>1. caps \in SUBSET Caps
    BY QueueAssumption
  <2>2. Good(u) /\ u.jobs = Ticked.jobs
    BY <1>1, <2>1, RegisterGood
  <2>3. u = [Ticked EXCEPT !.workers = workers] /\ Save(u, ok)
    BY <1>2 DEF Register, RegisterWorker
  <2> HIDE DEF u, workers
  <2>4. u.next = Ticked.next
    BY <1>1, <2>3 DEF StateOK
  <2>5. StateOK(u) /\ Final(Ticked, u)
    BY <1>1, <2>2, <2>4, FinalSame DEF Good, Almost
  <2> QED  BY <2>3, <2>5, LaterThanTicked, SaveOnward
<1>3. ASSUME NEW w \in Workers, DeregisterWorker(w, ok) PROVE Onward
  <2> DEFINE u == Release(Ticked, w)
  <2>1. /\ StateOK(u) /\ u.next = Ticked.next /\ DOMAIN u.jobs = DOMAIN Ticked.jobs
        /\ \A i \in DOMAIN Ticked.jobs :
              u.jobs[i] = Ticked.jobs[i] \/ Ticked.jobs[i].st = "leased"
    BY <1>1, ReleaseFields DEF IsHolder
  <2>2. Save(u, ok)
    BY <1>3 DEF DeregisterWorker
  <2> HIDE DEF u
  <2>3. Final(Ticked, u)
    BY <1>1, <2>1, FinalSame DEF Terminal
  <2> QED  BY <2>1, <2>2, <2>3, LaterThanTicked, SaveOnward
<1>4. ASSUME NEW n \in Namespaces, NEW c \in NsConfigs, RegisterNamespace(n, c, ok)
      PROVE  Onward
  <2> DEFINE e == EnsureNs(mem, n, c)
             u == [e EXCEPT !.ns[n].config = c]
  <2>1. c \in Configs /\ c.dead > 0
    BY QueueAssumption, RingAssumption
  <2>2. Good(u) /\ u.jobs = mem.jobs
    BY <1>1, <2>1, ConfigureGood
  <2>3. e = [next |-> mem.next, jobs |-> mem.jobs, ns |-> e.ns, workers |-> mem.workers]
    BY <1>1, <2>1, EnsureFields
  <2>4. Save(u, ok)
    BY <1>4 DEF RegisterNamespace
  <2> HIDE DEF e
  <2>5. u.next = mem.next
    BY <2>3
  <2> HIDE DEF u
  <2>6. Later(u)
    BY <1>1, <2>2, <2>5, FinalSame DEF Later, Good, Almost
  <2> QED  BY <2>4, <2>6, SaveOnward
<1> QED  BY <1>2, <1>3, <1>4

\* Every step goes onward.
LEMMA NextOnward == IInv /\ [Next]_vars => Onward
<1> SUFFICES ASSUME IInv, [Next]_vars PROVE Onward
  OBVIOUS
<1>1. ASSUME NEW ok \in BOOLEAN, NEW r \in Requests, Enqueue(r, ok) PROVE Onward
  BY <1>1, EnqueueOnward
<1>2. ASSUME NEW ok \in BOOLEAN, NEW w \in Workers, NEW d \in Leases,
             Acquire(w, d, ok) \/ \E i \in Ids : Heartbeat(w, i, d, ok)
      PROVE  Onward
  BY <1>2, LeasingOnward
<1>3. ASSUME NEW ok \in BOOLEAN, NEW w \in Workers, NEW i \in Ids,
             Complete(w, i, ok) \/ Fail(w, i, ok)
      PROVE  Onward
  BY <1>3, EndingOnward
<1>4. ASSUME NEW ok \in BOOLEAN, NEW i \in Ids,
             Cancel(i, ok) \/ \E p \in Priorities : Promote(i, p, ok)
      PROVE  Onward
  BY <1>4, SteeringOnward
<1>5. ASSUME NEW ok \in BOOLEAN,
             \/ \E w \in Workers, caps \in CapLists : RegisterWorker(w, caps, ok)
             \/ \E w \in Workers : DeregisterWorker(w, ok)
             \/ \E n \in Namespaces, c \in NsConfigs : RegisterNamespace(n, c, ok)
      PROVE  Onward
  BY <1>5, RegistryOnward
<1>6. CASE Observe
  BY <1>6, TickedLater, RefuseOnward DEF Observe
<1>7. CASE AdvanceClock \/ UNCHANGED vars
  <2>1. mem' = mem /\ disk' = disk
    BY <1>7 DEF AdvanceClock, vars
  <2>2. StateOK(mem)
    BY DEF IInv, Good, Almost
  <2> QED  BY <2>1, <2>2, FinalSelf DEF Onward, Later
<1>8. CASE Reopen
  BY <1>8 DEF Reopen, Onward
<1> QED
  BY <1>1, <1>2, <1>3, <1>4, <1>5, <1>6, <1>7, <1>8 DEF Next

\* The live state comes after the snapshot.
Ahead == Final(disk, mem)

\* A step keeps the live state ahead of the snapshot, and the snapshot after
\* it comes after the one before.
LEMMA AheadNext ==
    ASSUME IInv, Ahead, [Next]_vars
    PROVE  Ahead' /\ Final(disk, disk')
<1>1. StateOK(mem) /\ StateOK(disk)
  BY DEF IInv, Good, Almost
<1>2. Onward
  BY NextOnward
<1>3. Final(disk, disk)
  BY <1>1, FinalSelf
<1>4. CASE Later(mem') /\ disk' \in {disk, mem'}
  <2>1. StateOK(mem') /\ Final(mem, mem')
    BY <1>4 DEF Later
  <2>2. Final(disk, mem') /\ Final(mem', mem')
    BY <1>1, <2>1, FinalChain, FinalSelf DEF Ahead
  <2> QED  BY <1>3, <1>4, <2>2 DEF Ahead
<1>5. CASE mem' = disk /\ disk' = disk
  BY <1>3, <1>5 DEF Ahead
<1> QED  BY <1>2, <1>4, <1>5 DEF Onward

\* No step, failed save or restart undoes an end that was saved, or brings back
\* a job that a ring dropped.
THEOREM QueueEndsAreFinal == Spec => EndsAreFinal
<1>1. Init => Ahead
  <2>1. StateOK(Empty)
    BY EmptyGood DEF Good, Almost
  <2> QED  BY <2>1, FinalSelf DEF Init, Ahead
<1>2. IInv /\ Ahead /\ [Next]_vars => Ahead'
  BY AheadNext
<1>3. IInv /\ Ahead /\ [Next]_vars => [Final(disk, disk')]_vars
  BY AheadNext
<1> QED  BY <1>1, <1>2, <1>3, IInvAlways, PTL DEF Spec, EndsAreFinal
=============================================================================
