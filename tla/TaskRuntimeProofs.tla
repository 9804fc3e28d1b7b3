------------------------- MODULE TaskRuntimeProofs -------------------------
(***************************************************************************)
(* Theorems about TaskRuntime for every set of tasks, groups and workers.  *)
(***************************************************************************)
EXTENDS TaskRuntime, SequenceTheorems, TLAPS

-----------------------------------------------------------------------------
(* Type correctness.                                                       *)

\* The pool starts empty and every worker outside of recv.
LEMMA InitType == Init => TypeOK
BY TaskAssumption DEF Init, TypeOK, Pcs, Actors

\* The stack of scopes stays a sequence of groups when its top is popped.
LEMMA PopType ==
    ASSUME TypeOK, NEW a \in Actors, scopes[a] # <<>>
    PROVE  /\ PopScope(a) \in [Actors -> Seq(Groups)]
           /\ Innermost(a) \in Groups
           /\ \A b \in Actors : b # a => PopScope(a)[b] = scopes[b]
<1>1. scopes \in [Actors -> Seq(Groups)] /\ scopes[a] \in Seq(Groups)
  BY DEF TypeOK
<1>2. Len(scopes[a]) \in Nat /\ Len(scopes[a]) # 0
  BY <1>1
<1>3. SubSeq(scopes[a], 1, Len(scopes[a]) - 1) \in Seq(Groups)
  BY <1>1, <1>2, SubSeqProperties
<1> QED
  BY <1>1, <1>2, <1>3 DEF PopScope, Innermost

\* The steps of a call keep the types.
LEMMA CallType ==
    ASSUME TypeOK, NEW a \in Actors, Call(a)
    PROVE  TypeOK'
<1> USE TaskAssumption
<1>1. ASSUME NEW g \in Groups, GroupOpen(a, g)
      PROVE  TypeOK'
  <2>1. joining[a] = None /\ Append(scopes[a], g) \in Seq(Groups)
    BY <1>1 DEF GroupOpen, Runs, TypeOK
  <2>2. /\ scopes' \in [Actors -> Seq(Groups)]
        /\ \A b \in Actors : joining[b] # None => scopes'[b] = scopes[b]
    BY <1>1, <2>1 DEF GroupOpen, TypeOK
  <2> QED
    BY <1>1, <2>2 DEF GroupOpen, TypeOK, taskVars, poolVars, waitVars, histVars
<1>2. ASSUME NEW g \in Groups \cup {None}, NEW t \in Tasks,
             NEW m \in Tasks \cup {None}, Spawn(a, g, t, m)
      PROVE  TypeOK'
  BY <1>2 DEF Spawn, TypeOK, Actors, Elems, waitVars, histVars
<1>3. ASSUME NEW t \in Tasks, Await(a, t)
      PROVE  TypeOK'
  BY <1>3 DEF Await, Runs, TypeOK, Actors, taskVars, poolVars, histVars
<1>4. ASSUME NEW t \in Tasks, CancelAndAwait(a, t)
      PROVE  TypeOK'
  <2>1. <<t>> # <<>> /\ <<t>> \in Seq(Tasks)
    OBVIOUS
  <2> QED
    BY <1>4, <2>1 DEF CancelAndAwait, Runs, TypeOK, Actors, poolVars, histVars
<1>5. ASSUME NEW t \in Tasks, Cancel(a, t)
      PROVE  TypeOK'
  BY <1>5 DEF Cancel, TypeOK, poolVars, clientVars, waitVars, histVars
<1>6. ASSUME NEW t \in Tasks, Detach(a, t)
      PROVE  TypeOK'
  BY <1>6 DEF Detach, TypeOK, poolVars, waitVars
<1>7. ASSUME EarlyExit(a)
      PROVE  TypeOK'
  <2>1. joining[a] = None /\ scopes[a] # <<>>
    BY <1>7 DEF EarlyExit, Runs
  <2>2. PopScope(a) \in [Actors -> Seq(Groups)] /\ Innermost(a) \in Groups
        /\ \A b \in Actors : b # a => PopScope(a)[b] = scopes[b]
    BY <2>1, PopType
  <2>3. DropHandles(a) \in [Tasks -> Actors \cup {None}]
    BY DEF DropHandles, TypeOK
  <2> QED
    BY <1>7, <2>1, <2>2, <2>3
       DEF EarlyExit, TypeOK, taskVars, poolVars, waitVars, histVars
<1> QED
  BY <1>1, <1>2, <1>3, <1>4, <1>5, <1>6, <1>7 DEF Call

\* The steps of a wait keep the types.
LEMMA WaitType ==
    ASSUME TypeOK, NEW a \in Actors,
           JoinStart(a) \/ Wait(a) \/ SpuriousWake(a)
    PROVE  TypeOK'
<1> USE TaskAssumption
<1>1. ASSUME JoinStart(a)
      PROVE  TypeOK'
  <2>1. joining[a] = None /\ scopes[a] # <<>> /\ ~asleep[a]
    BY <1>1 DEF JoinStart, Runs, TypeOK
  <2>2. Innermost(a) \in Groups
    BY <2>1, PopType
  <2>3. DropHandles(a) \in [Tasks -> Actors \cup {None}]
    BY DEF DropHandles, TypeOK
  <2> QED
    BY <1>1, <2>1, <2>2, <2>3
       DEF JoinStart, TypeOK, taskVars, poolVars, histVars
<1>2. ASSUME JoinEnd(a)
      PROVE  TypeOK'
  <2>1. joining[a] \in Groups /\ scopes[a] # <<>> /\ ~asleep[a]
    BY <1>2 DEF JoinEnd, TypeOK
  <2>2. /\ scopes' \in [Actors -> Seq(Groups)]
        /\ \A b \in Actors : b # a => scopes'[b] = scopes[b]
    BY <1>2, <2>1, PopType DEF JoinEnd
  <2>3. /\ joining' \in [Actors -> Groups \cup {None}]
        /\ \A b \in Actors : joining'[b] = IF b = a THEN None ELSE joining[b]
    BY <1>2 DEF JoinEnd, TypeOK
  <2>4. left' \subseteq Groups
    BY <1>2, <2>1 DEF JoinEnd, TypeOK
  <2> QED
    BY <1>2, <2>1, <2>2, <2>3, <2>4, SMTT(30)
       DEF JoinEnd, TypeOK, taskVars, poolVars, histVars
<1>3. ASSUME WaitSleep(a)
      PROVE  TypeOK'
  BY <1>3 DEF WaitSleep, TypeOK, taskVars, poolVars, clientVars, histVars
<1>4. ASSUME Take(a)
      PROVE  TypeOK'
  BY <1>4 DEF Take, TakeResult, TypeOK, poolVars, clientVars
<1>5. ASSUME SpuriousWake(a)
      PROVE  TypeOK'
  BY <1>5 DEF SpuriousWake, TypeOK, taskVars, poolVars, clientVars, histVars
<1> QED
  BY <1>1, <1>2, <1>3, <1>4, <1>5 DEF Wait

\* The steps of a pool worker keep the types.
LEMMA WorkerType ==
    ASSUME TypeOK, NEW w \in Workers, Worker(w)
    PROVE  TypeOK'
<1> USE TaskAssumption
<1>1. ASSUME WorkerLock(w)
      PROVE  TypeOK'
  BY <1>1 DEF WorkerLock, TypeOK, Pcs, taskVars, clientVars, waitVars, histVars
<1>2. ASSUME WorkerRecv(w)
      PROVE  TypeOK'
  <2>1. Head(queue) \in Tasks /\ Tail(queue) \in Seq(Tasks)
    BY <1>2 DEF WorkerRecv, TypeOK
  <2>2. None \notin Tasks
    BY DEF Actors
  <2> QED
    BY <1>2, <2>1, <2>2
       DEF WorkerRecv, TypeOK, Pcs, taskVars, clientVars, waitVars, histVars
<1>3. ASSUME JobCheck(w)
      PROVE  TypeOK'
  <2>1. job[w] \in Tasks /\ job[w] # None /\ rx # w
    BY <1>3 DEF JobCheck, TypeOK
  <2> QED
    BY <1>3, <2>1, SMTT(30) DEF JobCheck, TypeOK, Pcs, clientVars, waitVars
<1>4. ASSUME BodyReturn(w)
      PROVE  TypeOK'
  <2>1. BodyResult(job[w]) \in {"null", "buf"}
    BY DEF BodyResult
  <2> QED
    BY <1>4, <2>1 DEF BodyReturn, TypeOK, Pcs, clientVars, waitVars, histVars
<1>5. ASSUME Complete(w)
      PROVE  TypeOK'
  <2>1. job[w] \in Tasks /\ job[w] # None /\ rx # w
    BY <1>5 DEF Complete, TypeOK
  <2>2. state' \in [Tasks -> {"Unspawned", "Pending", "Completed", "Taken"}]
    <3>1. state \in [Tasks -> {"Unspawned", "Pending", "Completed", "Taken"}]
      BY DEF TypeOK
    <3>2. state' = state \/ state' = [state EXCEPT ![job[w]] = "Completed"]
      BY <1>5 DEF Complete
    <3> QED
      BY <2>1, <3>1, <3>2
  <2>3. pc' \in [Workers -> Pcs] /\ job' \in [Workers -> Tasks \cup {None}]
    <3>1. \/ pc' = [pc EXCEPT ![w] = "idle"] /\ job' = [job EXCEPT ![w] = None]
          \/ pc' = [pc EXCEPT ![w] = "notify"] /\ job' = job
      BY <1>5 DEF Complete
    <3>2. pc \in [Workers -> Pcs] /\ job \in [Workers -> Tasks \cup {None}]
      BY DEF TypeOK
    <3> QED
      BY <3>1, <3>2 DEF Pcs
  <2>4. \A v \in Workers :
           /\ pc'[v] = "recv" <=> rx' = v
           /\ pc'[v] \in {"idle", "recv"} <=> job'[v] = None
    <3>1. \A v \in Workers \ {w} : pc'[v] = pc[v] /\ job'[v] = job[v]
      BY <1>5 DEF Complete, TypeOK
    <3>2. \/ pc'[w] = "idle" /\ job'[w] = None
          \/ pc'[w] = "notify" /\ job'[w] = job[w]
      BY <1>5 DEF Complete, TypeOK
    <3> QED
      BY <1>5, <2>1, <3>1, <3>2 DEF Complete, TypeOK
  <2> QED
    BY <1>5, <2>2, <2>3, <2>4 DEF Complete, TypeOK, clientVars, waitVars, histVars
<1>6. ASSUME Notify(w)
      PROVE  TypeOK'
  BY <1>6 DEF Notify, TypeOK, Pcs, taskVars, clientVars, histVars
<1> QED
  BY <1>1, <1>2, <1>3, <1>4, <1>5, <1>6 DEF Worker

\* A stuttering step keeps the types.
LEMMA StutterType == TypeOK /\ UNCHANGED vars => TypeOK'
BY DEF TypeOK, vars, taskVars, poolVars, clientVars, waitVars, histVars

\* Type correctness: every state of the runtime is well-typed, the receiver's
\* mutex is held exactly in recv, a worker has a job exactly while it works
\* on one, and a sleeping actor has something to wait for.
THEOREM TypeCorrect == Spec => []TypeOK
<1>1. TypeOK /\ [Next]_vars => TypeOK'
  BY CallType, WaitType, WorkerType, StutterType DEF Next
<1> QED
  BY InitType, <1>1, PTL DEF Spec

-----------------------------------------------------------------------------
(* Facts about the elements of a sequence.                                 *)

\* The empty queue has no elements.
LEMMA ElemsEmpty == Elems(<<>>) = {}
BY DEF Elems

\* The elements of a queue of one.
LEMMA ElemsSingle == ASSUME NEW e PROVE Elems(<<e>>) = {e}
BY DEF Elems

\* The elements of a queue after a push.
LEMMA ElemsAppend ==
    ASSUME NEW S, NEW s \in Seq(S), NEW e \in S
    PROVE  Elems(Append(s, e)) = Elems(s) \cup {e}
<1>1. Len(Append(s, e)) = Len(s) + 1 /\ Len(s) \in Nat
  OBVIOUS
<1>2. \A i \in 1..Len(s) : Append(s, e)[i] = s[i]
  OBVIOUS
<1>3. Append(s, e)[Len(s) + 1] = e
  OBVIOUS
<1>4. ASSUME NEW x \in Elems(Append(s, e)) PROVE x \in Elems(s) \cup {e}
  <2>1. PICK i \in 1..(Len(s) + 1) : x = Append(s, e)[i]
    BY <1>1, <1>4 DEF Elems
  <2>2. i \in 1..Len(s) \/ i = Len(s) + 1
    BY <1>1
  <2> QED
    BY <1>2, <1>3, <2>1, <2>2 DEF Elems
<1>5. ASSUME NEW x \in Elems(s) PROVE x \in Elems(Append(s, e))
  <2>1. PICK i \in 1..Len(s) : x = s[i]
    BY <1>5 DEF Elems
  <2>2. i \in 1..(Len(s) + 1) /\ Append(s, e)[i] = x
    BY <1>1, <1>2, <2>1
  <2> QED
    BY <1>1, <2>2 DEF Elems
<1>6. e \in Elems(Append(s, e))
  <2>1. Len(s) + 1 \in 1..(Len(s) + 1)
    BY <1>1
  <2> QED
    BY <1>1, <1>3, <2>1 DEF Elems
<1> QED
  BY <1>4, <1>5, <1>6

\* The elements of a queue after a pop.
LEMMA ElemsTail ==
    ASSUME NEW S, NEW s \in Seq(S), s # <<>>
    PROVE  Elems(s) = {Head(s)} \cup Elems(Tail(s))
<1>1. Len(s) \in Nat \ {0} /\ Len(Tail(s)) = Len(s) - 1 /\ Head(s) = s[1]
  OBVIOUS
<1>2. \A i \in 1..(Len(s) - 1) : Tail(s)[i] = s[i + 1]
  OBVIOUS
<1>3. ASSUME NEW x \in Elems(s) PROVE x = Head(s) \/ x \in Elems(Tail(s))
  <2>1. PICK i \in 1..Len(s) : x = s[i]
    BY <1>3 DEF Elems
  <2>2. CASE i = 1
    BY <1>1, <2>1, <2>2
  <2>3. CASE i # 1
    <3>1. i - 1 \in 1..(Len(s) - 1) /\ Tail(s)[i - 1] = s[i]
      BY <1>1, <1>2, <2>3
    <3> QED
      BY <1>1, <2>1, <3>1 DEF Elems
  <2> QED
    BY <2>2, <2>3
<1>4. ASSUME NEW x \in Elems(Tail(s)) PROVE x \in Elems(s)
  <2>1. PICK i \in 1..(Len(s) - 1) : x = Tail(s)[i]
    BY <1>1, <1>4 DEF Elems
  <2>2. i + 1 \in 1..Len(s) /\ s[i + 1] = x
    BY <1>1, <1>2, <2>1
  <2> QED
    BY <2>2 DEF Elems
<1>5. Head(s) \in Elems(s)
  <2>1. 1 \in 1..Len(s)
    BY <1>1
  <2> QED
    BY <1>1, <2>1 DEF Elems
<1> QED
  BY <1>3, <1>4, <1>5

NoRepeats(s) == \A i, j \in 1..Len(s) : s[i] = s[j] => i = j

\* Pushing a new element keeps a queue without repeats.
LEMMA AppendNoRepeats ==
    ASSUME NEW S, NEW s \in Seq(S), NEW e \in S,
           NoRepeats(s), e \notin Elems(s)
    PROVE  NoRepeats(Append(s, e))
<1>1. Len(Append(s, e)) = Len(s) + 1 /\ Len(s) \in Nat
  OBVIOUS
<1>2. \A i \in 1..Len(s) : Append(s, e)[i] = s[i] /\ s[i] # e
  BY DEF Elems
<1>3. Append(s, e)[Len(s) + 1] = e
  OBVIOUS
<1> QED
  BY <1>1, <1>2, <1>3 DEF NoRepeats

\* Popping keeps a queue without repeats.
LEMMA TailNoRepeats ==
    ASSUME NEW S, NEW s \in Seq(S), s # <<>>, NoRepeats(s)
    PROVE  NoRepeats(Tail(s)) /\ Head(s) \notin Elems(Tail(s))
<1>1. Len(s) \in Nat \ {0} /\ Len(Tail(s)) = Len(s) - 1 /\ Head(s) = s[1]
  OBVIOUS
<1>2. \A i \in 1..(Len(s) - 1) : Tail(s)[i] = s[i + 1]
  OBVIOUS
<1>3. NoRepeats(Tail(s))
  BY <1>1, <1>2 DEF NoRepeats
<1>4. ASSUME Head(s) \in Elems(Tail(s)) PROVE FALSE
  <2>1. PICK i \in 1..(Len(s) - 1) : Head(s) = Tail(s)[i]
    BY <1>1, <1>4 DEF Elems
  <2>2. s[1] = s[i + 1] /\ 1 \in 1..Len(s) /\ i + 1 \in 1..Len(s)
    BY <1>1, <1>2, <2>1
  <2> QED
    BY <2>2 DEF NoRepeats
<1> QED
  BY <1>3, <1>4

-----------------------------------------------------------------------------
(* Jobs and results: the invariant behind OneJobPerTask, NoJobLost and the *)
(* refinement of TaskCell.                                                 *)

\* Nothing refers to a task before it is spawned.
Unreferenced(t) ==
    /\ t \notin Elems(queue)
    /\ \A w \in Workers : job[w] # t
    /\ handle[t] = None
    /\ \A g \in Groups : t \notin Elems(children[g])
    /\ \A a \in Actors : t \notin Elems(todo[a])

Fresh == \A t \in Tasks : state[t] = "Unspawned" => Unreferenced(t)

\* A task whose job is not finished has no result yet.
NoResultYet ==
    \A t \in Tasks :
        (t \in Elems(queue) \/ \E w \in Workers : Busy(w, t)) =>
            state[t] \in {"Pending", "Taken"}

\* A result that was delivered is gone from its cell.
DeliveredIsTaken ==
    \A t \in Tasks, a \in Actors :
        <<a, "buf">> \in delivered[t] => state[t] = "Taken"

JobInv ==
    TypeOK /\ OneJobPerTask /\ NoJobLost /\ Fresh /\ NoResultYet
        /\ DeliveredIsTaken

\* The job invariant holds initially.
LEMMA InitJob == Init => JobInv
<1> SUFFICES ASSUME Init PROVE JobInv
  OBVIOUS
<1>1. Elems(queue) = {} /\ Len(queue) = 0
  BY ElemsEmpty DEF Init
<1>2. \A w \in Workers : job[w] = None
  BY DEF Init
<1>3. \A t \in Tasks : t # None
  BY TaskAssumption DEF Actors
<1>4. /\ \A g \in Groups : Elems(children[g]) = {}
      /\ \A a \in Actors : Elems(todo[a]) = {}
  BY ElemsEmpty DEF Init
<1>5. OneJobPerTask
  BY <1>1, <1>2 DEF OneJobPerTask
<1>6. NoJobLost /\ NoResultYet /\ DeliveredIsTaken
  BY <1>1, <1>2, <1>3 DEF Init, NoJobLost, NoResultYet, DeliveredIsTaken, Busy
<1>7. Fresh
  BY <1>1, <1>2, <1>3, <1>4 DEF Init, Fresh, Unreferenced
<1> QED
  BY InitType, <1>5, <1>6, <1>7 DEF JobInv

\* Only tasks are queued.
LEMMA QueueHasTasks == TypeOK => None \notin Elems(queue)
BY TaskAssumption DEF TypeOK, Elems, Actors

\* The job of a worker that has one is a spawned task that is not queued.
LEMMA JobFacts ==
    ASSUME JobInv, NEW w \in Workers, pc[w] \notin {"idle", "recv"}
    PROVE  /\ job[w] \in Tasks /\ job[w] # None
           /\ job[w] \notin Elems(queue)
           /\ \A v \in Workers : v # w => job[v] # job[w]
           /\ state[job[w]] # "Unspawned"
BY DEF JobInv, TypeOK, OneJobPerTask, Fresh, Unreferenced

\* The steps that leave the queue, the jobs and the states alone.
LEMMA QuietJob ==
    ASSUME JobInv, TypeOK', UNCHANGED <<state, queue, pc, job, delivered>>,
           \A t \in Tasks : handle[t] = None => handle'[t] = None,
           \A t \in Tasks : (\A g \in Groups : t \notin Elems(children[g])) =>
              (\A g \in Groups : t \notin Elems(children'[g])),
           \A t \in Tasks :
              (\A a \in Actors : t \notin Elems(todo[a])) /\ handle[t] = None
              /\ (\A g \in Groups : t \notin Elems(children[g]))
              => (\A a \in Actors : t \notin Elems(todo'[a]))
    PROVE  JobInv'
<1>1. OneJobPerTask' /\ NoJobLost' /\ NoResultYet' /\ DeliveredIsTaken'
  BY DEF JobInv, OneJobPerTask, NoJobLost, NoResultYet, DeliveredIsTaken, Busy,
         Elems
<1>2. Elems(queue') = Elems(queue)
  OBVIOUS
<1>3. Fresh'
  BY <1>2 DEF JobInv, Fresh, Unreferenced
<1> QED
  BY <1>1, <1>3 DEF JobInv

\* Spawning keeps the job invariant.
LEMMA SpawnJob ==
    ASSUME JobInv, TypeOK', NEW a \in Actors, NEW g \in Groups \cup {None},
           NEW t \in Tasks, NEW m \in Tasks \cup {None}, Spawn(a, g, t, m)
    PROVE  JobInv'
<1>0. TypeOK /\ Fresh /\ queue \in Seq(Tasks)
  BY DEF JobInv, TypeOK
<1>1. Elems(queue') = Elems(queue) \cup {t}
  BY <1>0, ElemsAppend DEF Spawn
<1>2. t \notin Elems(queue) /\ (\A w \in Workers : job[w] # t)
  BY <1>0 DEF Spawn, Fresh, Unreferenced
<1>3. NoRepeats(queue')
  BY <1>0, <1>2, AppendNoRepeats
     DEF JobInv, Spawn, OneJobPerTask, NoRepeats
<1>4. OneJobPerTask'
  BY <1>1, <1>2, <1>3 DEF JobInv, OneJobPerTask, Spawn, NoRepeats
<1>5. \A x \in Tasks : state'[x] = IF x = t THEN "Pending" ELSE state[x]
  BY <1>0 DEF Spawn, TypeOK
<1>6. NoJobLost' /\ NoResultYet'
  BY <1>1, <1>5 DEF JobInv, NoJobLost, NoResultYet, Busy, Spawn
<1>7. DeliveredIsTaken'
  BY <1>5 DEF JobInv, DeliveredIsTaken, Spawn, histVars
<1>8. \A x \in Tasks : x # t =>
        ((\A h \in Groups : x \notin Elems(children[h])) =>
          (\A h \in Groups : x \notin Elems(children'[h])))
  BY <1>0, ElemsAppend DEF Spawn, TypeOK
<1>9. Fresh'
  <2> SUFFICES ASSUME NEW x \in Tasks, state'[x] = "Unspawned"
               PROVE  Unreferenced(x)'
    BY DEF Fresh, Unreferenced
  <2>1. x # t /\ state[x] = "Unspawned"
    BY <1>5
  <2>2. handle[x] = None /\ x # m
    BY <1>0, <2>1, TaskAssumption DEF Fresh, Unreferenced, Spawn, TypeOK, Actors
  <2>3. handle'[x] = None
    BY <2>1, <2>2 DEF Spawn
  <2> QED
    BY <1>0, <1>1, <1>8, <2>1, <2>3 DEF Fresh, Unreferenced, Spawn, waitVars
<1> QED
  BY <1>4, <1>6, <1>7, <1>9 DEF JobInv

\* Taking or detaching a task moves it to Taken and touches no job.
LEMMA TakenJob ==
    ASSUME JobInv, TypeOK', NEW t \in Tasks, state[t] # "Unspawned",
           state' = [state EXCEPT ![t] = "Taken"],
           UNCHANGED <<queue, pc, job, children>>,
           \A x \in Tasks : handle[x] = None => handle'[x] = None,
           \A a \in Actors : Elems(todo'[a]) \subseteq Elems(todo[a]),
           \A x \in Tasks, a \in Actors :
              <<a, "buf">> \in delivered'[x] =>
                 x = t \/ <<a, "buf">> \in delivered[x]
    PROVE  JobInv'
<1>1. \A x \in Tasks : state'[x] = IF x = t THEN "Taken" ELSE state[x]
  BY DEF JobInv, TypeOK
<1>2. Elems(queue') = Elems(queue)
  OBVIOUS
<1>3. OneJobPerTask'
  BY DEF JobInv, OneJobPerTask, Elems
<1>4. NoJobLost' /\ NoResultYet'
  BY <1>1, <1>2 DEF JobInv, NoJobLost, NoResultYet, Busy
<1>5. DeliveredIsTaken'
  BY <1>1 DEF JobInv, DeliveredIsTaken
<1>6. Fresh'
  BY <1>1, <1>2 DEF JobInv, Fresh, Unreferenced
<1> QED
  BY <1>3, <1>4, <1>5, <1>6 DEF JobInv

\* The steps of a call keep the job invariant.
LEMMA CallJob ==
    ASSUME JobInv, NEW a \in Actors, Call(a)
    PROVE  JobInv'
<1>0. TypeOK /\ TypeOK' /\ Fresh /\ a # None
  BY CallType, TaskAssumption DEF JobInv, Actors
<1>1. ASSUME NEW g \in Groups, GroupOpen(a, g)
      PROVE  JobInv'
  BY <1>0, <1>1, QuietJob
     DEF GroupOpen, taskVars, poolVars, waitVars, histVars
<1>2. ASSUME NEW g \in Groups \cup {None}, NEW t \in Tasks,
             NEW m \in Tasks \cup {None}, Spawn(a, g, t, m)
      PROVE  JobInv'
  BY <1>0, <1>2, SpawnJob
<1>3. ASSUME NEW t \in Tasks, Await(a, t) \/ CancelAndAwait(a, t)
      PROVE  JobInv'
  <2>1. /\ UNCHANGED <<state, queue, pc, job, delivered, children>>
        /\ handle[t] = a
        /\ handle' = [handle EXCEPT ![t] = None]
        /\ todo' = [todo EXCEPT ![a] = <<t>>]
    BY <1>3 DEF Await, CancelAndAwait, taskVars, poolVars, histVars
  <2>2. \A x \in Tasks : handle[x] = None => handle'[x] = None /\ x # t
    BY <1>0, <2>1 DEF TypeOK
  <2>3. \A b \in Actors : Elems(todo'[b]) \subseteq Elems(todo[b]) \cup {t}
    BY <1>0, <2>1, ElemsSingle DEF TypeOK
  <2> QED
    BY <1>0, <2>1, <2>2, <2>3, QuietJob
<1>4. ASSUME NEW t \in Tasks, Cancel(a, t)
      PROVE  JobInv'
  BY <1>0, <1>4, QuietJob DEF Cancel, poolVars, clientVars, waitVars, histVars
<1>5. ASSUME NEW t \in Tasks, Detach(a, t)
      PROVE  JobInv'
  <2>1. state[t] # "Unspawned"
    BY <1>0, <1>5 DEF Detach, Fresh, Unreferenced
  <2>2. \A x \in Tasks : handle[x] = None => handle'[x] = None
    BY <1>0, <1>5 DEF Detach, TypeOK
  <2> QED
    BY <1>0, <1>5, <2>1, <2>2, TakenJob DEF Detach, poolVars, waitVars
<1>6. ASSUME EarlyExit(a)
      PROVE  JobInv'
  <2>1. \A x \in Tasks : handle[x] = None => handle'[x] = None
    BY <1>6 DEF EarlyExit, DropHandles
  <2> QED
    BY <1>0, <1>6, <2>1, QuietJob
       DEF EarlyExit, taskVars, poolVars, waitVars, histVars
<1> QED
  BY <1>1, <1>2, <1>3, <1>4, <1>5, <1>6 DEF Call

\* The steps of a wait keep the job invariant.
LEMMA WaitJob ==
    ASSUME JobInv, NEW a \in Actors,
           JoinStart(a) \/ Wait(a) \/ SpuriousWake(a)
    PROVE  JobInv'
<1>0. TypeOK /\ TypeOK' /\ Fresh
  BY WaitType DEF JobInv
<1>1. ASSUME JoinStart(a)
      PROVE  JobInv'
  <2>1. Innermost(a) \in Groups
    BY <1>0, <1>1, PopType DEF JoinStart
  <2>2. \A x \in Tasks : handle[x] = None => handle'[x] = None
    BY <1>1 DEF JoinStart, DropHandles
  <2>3. \A g \in Groups : Elems(children'[g]) \subseteq Elems(children[g])
    BY <1>0, <1>1, <2>1, ElemsEmpty DEF JoinStart, TypeOK
  <2>4. \A b \in Actors : Elems(todo'[b]) \subseteq
            Elems(todo[b]) \cup Elems(children[Innermost(a)])
    BY <1>0, <1>1 DEF JoinStart, TypeOK
  <2>5. UNCHANGED <<state, queue, pc, job, delivered>>
    BY <1>1 DEF JoinStart, taskVars, poolVars, histVars
  <2> QED
    BY <1>0, <2>1, <2>2, <2>3, <2>4, <2>5, QuietJob
<1>2. ASSUME JoinEnd(a)
      PROVE  JobInv'
  BY <1>0, <1>2, QuietJob DEF JoinEnd, taskVars, poolVars, histVars
<1>3. ASSUME WaitSleep(a)
      PROVE  JobInv'
  BY <1>0, <1>3, QuietJob
     DEF WaitSleep, taskVars, poolVars, clientVars, histVars
<1>4. ASSUME Take(a)
      PROVE  JobInv'
  <2> DEFINE t == Head(todo[a])
  <2>1. todo[a] \in Seq(Tasks) /\ todo[a] # <<>> /\ t \in Tasks
    BY <1>0, <1>4 DEF Take, TypeOK
  <2>2. Elems(todo[a]) = {t} \cup Elems(Tail(todo[a]))
    BY <2>1, ElemsTail
  <2>3. state[t] # "Unspawned"
    BY <1>0, <2>1, <2>2 DEF Fresh, Unreferenced
  <2>4. \A b \in Actors : Elems(todo'[b]) \subseteq Elems(todo[b])
    <3>1. todo \in [Actors -> Seq(Tasks)]
      BY <1>0 DEF TypeOK
    <3>2. todo' = [todo EXCEPT ![a] = Tail(@)]
      BY <1>4 DEF Take
    <3>3. \A b \in Actors : todo'[b] = IF b = a THEN Tail(todo[a]) ELSE todo[b]
      BY <3>1, <3>2
    <3> QED
      BY <2>2, <3>3
  <2>5. \A x \in Tasks : x # t => delivered'[x] = delivered[x]
    BY <1>0, <1>4 DEF Take, TypeOK
  <2>6. /\ state' = [state EXCEPT ![t] = "Taken"]
        /\ UNCHANGED <<queue, pc, job, children, handle>>
    BY <1>4 DEF Take, poolVars, clientVars
  <2> QED
    BY <1>0, <2>1, <2>3, <2>4, <2>5, <2>6, TakenJob
<1>5. ASSUME SpuriousWake(a)
      PROVE  JobInv'
  BY <1>0, <1>5, QuietJob
     DEF SpuriousWake, taskVars, poolVars, clientVars, histVars
<1> QED
  BY <1>1, <1>2, <1>3, <1>4, <1>5 DEF Wait

\* The steps of a pool worker keep the job invariant.
LEMMA WorkerJob ==
    ASSUME JobInv, NEW w \in Workers, Worker(w)
    PROVE  JobInv'
<1>0. TypeOK /\ TypeOK' /\ Fresh /\ (\A t \in Tasks : t # None)
      /\ None \notin Elems(queue)
  BY WorkerType, QueueHasTasks, TaskAssumption DEF JobInv, Actors
<1>1. ASSUME WorkerLock(w)
      PROVE  JobInv'
  <2>1. \A v \in Workers, t \in Tasks : Busy(v, t)' <=> Busy(v, t)
    BY <1>0, <1>1 DEF WorkerLock, Busy, TypeOK
  <2> QED
    BY <1>0, <1>1, <2>1
       DEF WorkerLock, JobInv, OneJobPerTask, NoJobLost, NoResultYet, Fresh,
           Unreferenced, DeliveredIsTaken, taskVars, clientVars, waitVars,
           histVars
<1>2. ASSUME WorkerRecv(w)
      PROVE  JobInv'
  <2> DEFINE t == Head(queue)
  <2>1. queue \in Seq(Tasks) /\ queue # <<>> /\ t \in Tasks
    BY <1>0, <1>2 DEF WorkerRecv, TypeOK
  <2>2. Elems(queue) = {t} \cup Elems(queue') /\ t \notin Elems(queue')
        /\ NoRepeats(queue')
    <3>1. queue' = Tail(queue)
      BY <1>2 DEF WorkerRecv
    <3>2. NoRepeats(queue)
      <4>1. OneJobPerTask
        BY DEF JobInv
      <4> QED
        BY <4>1 DEF OneJobPerTask, NoRepeats
    <3>3. Elems(queue) = {t} \cup Elems(Tail(queue))
      BY <2>1, ElemsTail
    <3>4. NoRepeats(Tail(queue)) /\ t \notin Elems(Tail(queue))
      BY <2>1, <3>2, TailNoRepeats
    <3> QED
      BY <3>1, <3>3, <3>4
  <2>a. job \in [Workers -> Tasks \cup {None}] /\ pc \in [Workers -> Pcs]
    BY <1>0 DEF TypeOK
  <2>b. job' = [job EXCEPT ![w] = t] /\ pc' = [pc EXCEPT ![w] = "check"]
    BY <1>2 DEF WorkerRecv
  <2>3. \A v \in Workers : job'[v] = IF v = w THEN t ELSE job[v]
    BY <2>a, <2>b
  <2>4. \A v \in Workers : pc'[v] = IF v = w THEN "check" ELSE pc[v]
    BY <2>a, <2>b
  <2>5. job[w] = None
    BY <1>0, <1>2 DEF WorkerRecv, TypeOK
  <2>6. OneJobPerTask'
    BY <2>1, <2>2, <2>3 DEF JobInv, OneJobPerTask, NoRepeats
  <2>7. NoJobLost' /\ NoResultYet' /\ DeliveredIsTaken'
    BY <1>0, <1>2, <2>1, <2>2, <2>3, <2>4, <2>5
       DEF WorkerRecv, JobInv, NoJobLost, NoResultYet, DeliveredIsTaken, Busy,
           taskVars, histVars
  <2>8. Fresh'
    BY <1>0, <1>2, <2>1, <2>2, <2>3
       DEF WorkerRecv, Fresh, Unreferenced, taskVars, clientVars, waitVars
  <2> QED
    BY <1>0, <2>6, <2>7, <2>8 DEF JobInv
<1>3. ASSUME JobCheck(w) \/ BodyReturn(w)
      PROVE  JobInv'
  <2>1. pc[w] \in {"check", "body"}
    BY <1>3 DEF JobCheck, BodyReturn
  <2>2. \A v \in Workers :
           pc'[v] = pc[v] \/ (v = w /\ pc'[v] \in {"body", "complete"})
    <3>1. \/ pc' = [pc EXCEPT ![w] = "body"]
          \/ pc' = [pc EXCEPT ![w] = "complete"]
      BY <1>3 DEF JobCheck, BodyReturn
    <3>2. pc \in [Workers -> Pcs]
      BY <1>0 DEF TypeOK
    <3>3. CASE pc' = [pc EXCEPT ![w] = "body"]
      BY <3>2, <3>3
    <3>4. CASE pc' = [pc EXCEPT ![w] = "complete"]
      BY <3>2, <3>4
    <3> QED
      BY <3>1, <3>3, <3>4
  <2>3. UNCHANGED <<state, queue, job, handle, children, todo, delivered>>
    BY <1>3 DEF JobCheck, BodyReturn, clientVars, waitVars, histVars
  <2>4. \A v \in Workers, t \in Tasks : Busy(v, t)' <=> Busy(v, t)
    BY <2>1, <2>2, <2>3 DEF Busy
  <2> QED
    BY <1>0, <2>3, <2>4
       DEF JobInv, OneJobPerTask, NoJobLost, NoResultYet, Fresh, Unreferenced,
           DeliveredIsTaken
<1>4. ASSUME Complete(w)
      PROVE  JobInv'
  <2> DEFINE t == job[w]
  <2>1. /\ t \in Tasks /\ t # None /\ t \notin Elems(queue)
        /\ \A v \in Workers : v # w => job[v] # t
        /\ state[t] # "Unspawned"
    BY <1>4, JobFacts DEF Complete
  <2>2. /\ UNCHANGED <<queue, handle, children, todo, delivered>>
        /\ \A v \in Workers \ {w} : pc'[v] = pc[v] /\ job'[v] = job[v]
        /\ \A x \in Tasks \ {t} : state'[x] = state[x]
        /\ \/ pc'[w] = "idle" /\ job'[w] = None /\ state[t] = "Taken" /\ state'[t] = "Taken"
           \/ pc'[w] = "notify" /\ job'[w] = t /\ state[t] # "Taken" /\ state'[t] = "Completed"
    BY <1>0, <1>4, <2>1 DEF Complete, TypeOK, clientVars, waitVars, histVars
  <2>3. \A v \in Workers, x \in Tasks :
           Busy(v, x)' <=> (Busy(v, x) /\ v # w)
    BY <2>1, <2>2 DEF Busy
  <2>4. \A v \in Workers \ {w} : ~Busy(v, t)
    BY <2>1 DEF Busy
  <2>5. OneJobPerTask'
    BY <1>0, <2>1, <2>2 DEF JobInv, OneJobPerTask
  <2>6. NoJobLost' /\ NoResultYet' /\ DeliveredIsTaken'
    BY <2>1, <2>2, <2>3, <2>4
       DEF JobInv, NoJobLost, NoResultYet, DeliveredIsTaken, Busy
  <2>7. Fresh'
    BY <1>0, <2>1, <2>2 DEF Fresh, Unreferenced
  <2> QED
    BY <1>0, <2>5, <2>6, <2>7 DEF JobInv
<1>5. ASSUME Notify(w)
      PROVE  JobInv'
  <2>1. /\ UNCHANGED <<state, queue, handle, children, todo, delivered>>
        /\ \A v \in Workers \ {w} : pc'[v] = pc[v] /\ job'[v] = job[v]
        /\ pc[w] = "notify" /\ pc'[w] = "idle" /\ job'[w] = None
    BY <1>0, <1>5 DEF Notify, TypeOK, taskVars, clientVars, histVars
  <2>2. \A v \in Workers, x \in Tasks : Busy(v, x)' <=> Busy(v, x)
    BY <2>1 DEF Busy
  <2>3. OneJobPerTask'
    BY <1>0, <2>1 DEF JobInv, OneJobPerTask
  <2> QED
    BY <1>0, <2>1, <2>2, <2>3
       DEF JobInv, NoJobLost, NoResultYet, Fresh, Unreferenced,
           DeliveredIsTaken
<1> QED
  BY <1>1, <1>2, <1>3, <1>4, <1>5 DEF Worker

\* Every step keeps the job invariant.
LEMMA JobInduction == JobInv /\ [Next]_vars => JobInv'
<1>1. ASSUME JobInv, UNCHANGED vars PROVE JobInv'
  BY <1>1, StutterType
     DEF JobInv, OneJobPerTask, NoJobLost, NoResultYet, Fresh, Unreferenced,
         DeliveredIsTaken, Busy, vars, taskVars, poolVars, clientVars,
         waitVars, histVars
<1> QED
  BY <1>1, CallJob, WaitJob, WorkerJob DEF Next

\* The inductive invariant of spawn, the pool queue and its workers holds.
THEOREM JobInvariant == Spec => []JobInv
BY InitJob, JobInduction, PTL DEF Spec

\* No job is lost: a Pending task is queued or a worker is going to complete
\* it, whoever awaits, joins, cancels or detaches it meanwhile.
THEOREM JobsAreNotLost == Spec => []NoJobLost
<1>1. JobInv => NoJobLost
  BY DEF JobInv
<1> QED
  BY <1>1, JobInvariant, PTL

\* No job is in two places: worker_loop takes each out of the channel once.
THEOREM JobsAreNotDuplicated == Spec => []OneJobPerTask
<1>1. JobInv => OneJobPerTask
  BY DEF JobInv
<1> QED
  BY <1>1, JobInvariant, PTL

-----------------------------------------------------------------------------
(* The runtime implements TaskCell.                                        *)

\* The initial state maps to an initial state of the cell.
LEMMA CellInitially == Init => Cell!CellInit
BY DEF Init, Cell!CellInit, Got

\* A Take that finds the result hands it to the awaiting actor or drops it;
\* one that finds Taken changes nothing.
LEMMA CellTake ==
    ASSUME JobInv, NEW a \in Actors, Take(a)
    PROVE  [Cell!CellNext]_(Cell!cellVars)
<1> DEFINE t == Head(todo[a])
<1>0. TypeOK /\ DeliveredIsTaken /\ Fresh
  BY DEF JobInv
<1>1. todo[a] \in Seq(Tasks) /\ todo[a] # <<>> /\ t \in Tasks
  BY <1>0 DEF Take, TypeOK
<1>2. /\ state[t] \in {"Completed", "Taken"}
      /\ state' = [state EXCEPT ![t] = "Taken"]
  <2>1. t \in Elems(todo[a])
    BY <1>1, ElemsTail
  <2> QED
    BY <1>0, <1>1, <2>1 DEF Take, TypeOK, Fresh, Unreferenced
<1>3. CASE state[t] = "Taken" \/ joining[a] # None \/ result[t] = "null"
  <2>1. \A x \in Tasks, b \in Actors :
           <<b, "buf">> \in delivered'[x] <=> <<b, "buf">> \in delivered[x]
    BY <1>0, <1>3 DEF Take, TakeResult, TypeOK
  <2>2. Got' = Got
    BY <2>1 DEF Got
  <2>3. CASE state[t] = "Taken"
    <3>1. state' = state
      BY <1>0, <1>1, <1>2, <2>3 DEF TypeOK
    <3> QED
      BY <2>2, <3>1 DEF Cell!cellVars
  <2>4. CASE state[t] = "Completed"
    <3>1. Cell!Drop(t)
      BY <1>2, <2>2, <2>4 DEF Cell!Drop
    <3> QED
      BY <1>1, <3>1 DEF Cell!CellNext
  <2> QED
    BY <1>2, <2>3, <2>4
<1>4. CASE state[t] = "Completed" /\ joining[a] = None /\ result[t] = "buf"
  <2>1. delivered' = [delivered EXCEPT ![t] = @ \cup {<<a, "buf">>}]
    BY <1>4 DEF Take, TakeResult
  <2>2. Got[t] = {}
    BY <1>0, <1>1, <1>4 DEF Got, DeliveredIsTaken
  <2>3. \A x \in Tasks, b \in Actors :
           <<b, "buf">> \in delivered'[x] <=>
              (<<b, "buf">> \in delivered[x] \/ (x = t /\ b = a))
    BY <1>0, <2>1 DEF TypeOK
  <2>4. \A b \in Actors : <<b, "buf">> \notin delivered[t]
    BY <1>1, <2>2 DEF Got
  <2>5. Got' = [Got EXCEPT ![t] = {a}]
    BY <1>1, <2>3, <2>4 DEF Got
  <2>6. Cell!Deliver(t, a)
    BY <1>2, <1>4, <2>2, <2>5 DEF Cell!Deliver
  <2> QED
    BY <1>1, <2>6 DEF Cell!CellNext
<1> QED
  BY <1>0, <1>1, <1>2, <1>3, <1>4 DEF TypeOK

\* Every step maps to a step of the cell or a stutter.
LEMMA CellStep ==
    ASSUME JobInv, [Next]_vars
    PROVE  [Cell!CellNext]_(Cell!cellVars)
<1>0. TypeOK /\ Fresh /\ NoResultYet
  BY DEF JobInv
<1>1. ASSUME UNCHANGED <<state, delivered>>
      PROVE  [Cell!CellNext]_(Cell!cellVars)
  BY <1>1 DEF Cell!cellVars, Got
<1>2. ASSUME NEW a \in Actors, NEW g \in Groups \cup {None}, NEW t \in Tasks,
             NEW m \in Tasks \cup {None}, Spawn(a, g, t, m)
      PROVE  [Cell!CellNext]_(Cell!cellVars)
  <2>1. Cell!Create(t)
    BY <1>2 DEF Spawn, Cell!Create, Got, histVars
  <2> QED
    BY <2>1 DEF Cell!CellNext
<1>3. ASSUME NEW a \in Actors, NEW t \in Tasks, Detach(a, t)
      PROVE  [Cell!CellNext]_(Cell!cellVars)
  <2>1. state[t] # "Unspawned" /\ Got' = Got
    BY <1>0, <1>3, TaskAssumption
       DEF Detach, Fresh, Unreferenced, Got, Actors
  <2>2. CASE state[t] = "Taken"
    <3>1. state' = state
      BY <1>0, <1>3, <2>2 DEF Detach, TypeOK
    <3> QED
      BY <2>1, <3>1 DEF Cell!cellVars
  <2>3. CASE state[t] # "Taken"
    <3>1. Cell!Drop(t)
      BY <1>0, <1>3, <2>1, <2>3 DEF Detach, Cell!Drop, TypeOK
    <3> QED
      BY <3>1 DEF Cell!CellNext
  <2> QED
    BY <2>2, <2>3
<1>4. ASSUME NEW w \in Workers, Complete(w)
      PROVE  [Cell!CellNext]_(Cell!cellVars)
  <2>1. job[w] \in Tasks /\ Busy(w, job[w]) /\ Got' = Got
    BY <1>4, JobFacts DEF Complete, Busy, Got, histVars
  <2>2. state[job[w]] \in {"Pending", "Taken"}
    BY <1>0, <2>1 DEF NoResultYet
  <2>3. CASE state[job[w]] = "Taken"
    BY <1>4, <2>1, <2>3 DEF Complete, Cell!cellVars
  <2>4. CASE state[job[w]] = "Pending"
    <3>1. Cell!Fill(job[w])
      BY <1>4, <2>1, <2>4 DEF Complete, Cell!Fill
    <3> QED
      BY <2>1, <3>1 DEF Cell!CellNext
  <2> QED
    BY <2>2, <2>3, <2>4
<1>5. ASSUME NEW a \in Actors, Call(a)
      PROVE  [Cell!CellNext]_(Cell!cellVars)
  BY <1>1, <1>2, <1>3, <1>5
     DEF Call, GroupOpen, Await, CancelAndAwait, Cancel, EarlyExit, taskVars,
         histVars
<1>6. ASSUME NEW a \in Actors, JoinStart(a) \/ Wait(a) \/ SpuriousWake(a)
      PROVE  [Cell!CellNext]_(Cell!cellVars)
  BY <1>1, <1>6, CellTake
     DEF JoinStart, Wait, JoinEnd, WaitSleep, SpuriousWake, taskVars, histVars
<1>7. ASSUME NEW w \in Workers, Worker(w)
      PROVE  [Cell!CellNext]_(Cell!cellVars)
  BY <1>1, <1>4, <1>7
     DEF Worker, WorkerLock, WorkerRecv, JobCheck, BodyReturn, Notify,
         taskVars, histVars
<1>8. CASE UNCHANGED vars
  BY <1>1, <1>8 DEF vars, taskVars, histVars
<1> QED
  BY <1>5, <1>6, <1>7, <1>8 DEF Next

\* The runtime implements the one-shot cells of TaskCell: a task's result is
\* stored at most once and delivered to at most one actor.
THEOREM CellRefinement == Spec => ImplementsCell
<1>1. Spec => []JobInv
  BY JobInvariant
<1>2. JobInv /\ [Next]_vars => [Cell!CellNext]_(Cell!cellVars)
  BY CellStep
<1> QED
  BY <1>1, <1>2, CellInitially, PTL DEF Spec, ImplementsCell, Cell!Spec
=============================================================================
