--------------------------- MODULE TaskWaitProofs ---------------------------
(***************************************************************************)
(* Theorems about waiting in TaskRuntime: nobody sleeps through a          *)
(* completion, and an await returns what the body returned, while handles  *)
(* stay with the actor that spawned the task; and a scope whose end is     *)
(* always reached waits for its children.                                  *)
(***************************************************************************)
EXTENDS TaskRuntimeProofs

-----------------------------------------------------------------------------
(* The stacks of scopes.                                                   *)

\* Groups are on one stack at most, once, and never after they were left; an
\* actor joins the group on top of its stack, which has no children left in
\* its list; a group that was never opened has none either.
ScopeInv ==
    /\ \A a \in Actors : NoRepeats(scopes[a]) /\ Elems(scopes[a]) \cap left = {}
    /\ \A a, b \in Actors : Elems(scopes[a]) \cap Elems(scopes[b]) # {} => a = b
    /\ \A a \in Actors : joining[a] # None =>
          joining[a] = Innermost(a) /\ children[joining[a]] = <<>>
    /\ \A g \in Groups : ~Opened(g) => children[g] = <<>>

\* A stack without its last element.
LEMMA ElemsFront ==
    ASSUME NEW S, NEW s \in Seq(S), s # <<>>, NoRepeats(s)
    PROVE  LET f == SubSeq(s, 1, Len(s) - 1)
           IN  /\ Elems(s) = Elems(f) \cup {s[Len(s)]}
               /\ NoRepeats(f)
               /\ s[Len(s)] \notin Elems(f)
<1> DEFINE f == SubSeq(s, 1, Len(s) - 1)
<1>1. Len(s) \in Nat \ {0}
  OBVIOUS
<1>2. Len(f) = Len(s) - 1 /\ \A i \in 1..(Len(s) - 1) : f[i] = s[i]
  BY <1>1, SubSeqProperties
<1>3. NoRepeats(f)
  BY <1>1, <1>2 DEF NoRepeats
<1>4. s[Len(s)] \notin Elems(f)
  BY <1>1, <1>2 DEF Elems, NoRepeats
<1>5. Elems(f) \cup {s[Len(s)]} \subseteq Elems(s)
  BY <1>1, <1>2 DEF Elems
<1>6. ASSUME NEW x \in Elems(s) PROVE x \in Elems(f) \cup {s[Len(s)]}
  <2>1. PICK i \in 1..Len(s) : x = s[i]
    BY <1>6 DEF Elems
  <2>2. i \in 1..(Len(s) - 1) \/ i = Len(s)
    BY <1>1
  <2> QED
    BY <1>2, <2>1, <2>2 DEF Elems
<1> HIDE DEF f
<1> QED
  BY <1>3, <1>4, <1>5, <1>6 DEF f

\* What leaving the innermost scope does to the stacks.
LEMMA PopFacts ==
    ASSUME TypeOK, ScopeInv, NEW a \in Actors, scopes[a] # <<>>
    PROVE  /\ Innermost(a) \in Elems(scopes[a])
           /\ Elems(PopScope(a)[a]) = Elems(scopes[a]) \ {Innermost(a)}
           /\ NoRepeats(PopScope(a)[a])
           /\ \A b \in Actors : b # a => PopScope(a)[b] = scopes[b]
<1>1. scopes \in [Actors -> Seq(Groups)] /\ NoRepeats(scopes[a])
  BY DEF TypeOK, ScopeInv
<1>2. PopScope(a)[a] = SubSeq(scopes[a], 1, Len(scopes[a]) - 1)
  BY <1>1 DEF PopScope
<1>3. Innermost(a) = scopes[a][Len(scopes[a])]
  BY DEF Innermost
<1> QED
  BY <1>1, <1>2, <1>3, ElemsFront, PopType

\* The scope invariant holds initially.
LEMMA InitScope == Init => ScopeInv
BY ElemsEmpty DEF Init, ScopeInv, NoRepeats, Opened

\* Every step keeps the scope invariant.
LEMMA ScopeStep ==
    ASSUME JobInv, ScopeInv, [Next]_vars
    PROVE  ScopeInv'
<1>0. TypeOK
  BY DEF JobInv
<1> USE TaskAssumption
<1>1. ASSUME UNCHANGED <<scopes, left, joining, children>>
      PROVE  ScopeInv'
  BY <1>1 DEF ScopeInv, Opened, Innermost
<1>2. ASSUME NEW a \in Actors, NEW g \in Groups, GroupOpen(a, g)
      PROVE  ScopeInv'
  <2>1. \A b \in Actors : scopes'[b] = IF b = a THEN Append(scopes[a], g) ELSE scopes[b]
    BY <1>0, <1>2 DEF GroupOpen, TypeOK
  <2>2. scopes[a] \in Seq(Groups) /\ g \notin left
        /\ \A b \in Actors : g \notin Elems(scopes[b])
    BY <1>0, <1>2 DEF GroupOpen, Opened, TypeOK
  <2>3. Elems(scopes'[a]) = Elems(scopes[a]) \cup {g} /\ NoRepeats(scopes'[a])
    BY <2>1, <2>2, ElemsAppend, AppendNoRepeats DEF ScopeInv
  <2>4. joining[a] = None /\ UNCHANGED <<left, joining, children>>
    BY <1>2 DEF GroupOpen, Runs, waitVars
  <2>5. \A h \in Groups : Opened(h) => Opened(h)'
    BY <2>1, <2>3, <2>4 DEF Opened
  <2>6. \A b \in Actors : joining'[b] # None =>
           joining'[b] = Innermost(b)' /\ children'[joining'[b]] = <<>>
    BY <2>1, <2>4 DEF ScopeInv, Innermost
  <2>7. \A b \in Actors : NoRepeats(scopes'[b]) /\ Elems(scopes'[b]) \cap left' = {}
    BY <2>1, <2>2, <2>3, <2>4 DEF ScopeInv
  <2>8. \A b, c \in Actors : Elems(scopes'[b]) \cap Elems(scopes'[c]) # {} => b = c
    BY <2>1, <2>2, <2>3 DEF ScopeInv
  <2>9. \A h \in Groups : ~Opened(h)' => children'[h] = <<>>
    BY <2>4, <2>5 DEF ScopeInv
  <2> QED
    BY <2>6, <2>7, <2>8, <2>9 DEF ScopeInv
<1>3. ASSUME NEW a \in Actors, NEW g \in Groups \cup {None}, NEW t \in Tasks,
             NEW m \in Tasks \cup {None}, Spawn(a, g, t, m)
      PROVE  ScopeInv'
  <2>1. g = None \/ (g \in Elems(scopes[a]) /\ Opened(g))
    BY <1>3 DEF Spawn, Opened
  <2>2. \A h \in Groups : h # g => children'[h] = children[h]
    BY <1>0, <1>3 DEF Spawn, TypeOK
  <2>3. joining[a] = None /\ UNCHANGED <<left, joining, scopes>>
    BY <1>3 DEF Spawn, Runs, waitVars
  <2>4. \A b \in Actors : joining[b] # None => joining[b] # g /\ joining[b] \in Groups
    <3> SUFFICES ASSUME NEW b \in Actors, joining[b] # None
                 PROVE  joining[b] # g /\ joining[b] \in Groups
      OBVIOUS
    <3>0. scopes[b] # <<>> /\ joining[b] \in Groups
      BY <1>0 DEF TypeOK
    <3>1. joining[b] \in Elems(scopes[b]) /\ b # a
      <4>1. joining[b] = Innermost(b)
        BY DEF ScopeInv
      <4>2. Innermost(b) \in Elems(scopes[b])
        BY <1>0, <3>0, PopFacts
      <4> QED
        BY <2>3, <4>1, <4>2
    <3> QED
      BY <2>1, <3>0, <3>1 DEF ScopeInv
  <2> QED
    BY <2>1, <2>2, <2>3, <2>4 DEF ScopeInv, Opened, Innermost
<1>4. ASSUME NEW a \in Actors, JoinStart(a)
      PROVE  ScopeInv'
  <2>1. Innermost(a) \in Groups
    BY <1>0, <1>4, PopType DEF JoinStart
  <2>2. /\ UNCHANGED <<scopes, left>>
        /\ \A g \in Groups : children'[g] =
              IF g = Innermost(a) THEN <<>> ELSE children[g]
        /\ \A b \in Actors : joining'[b] =
              IF b = a THEN Innermost(a) ELSE joining[b]
    BY <1>0, <1>4, <2>1 DEF JoinStart, TypeOK
  <2>3. \A b \in Actors : joining'[b] # None =>
           joining'[b] \in Groups /\ joining'[b] = Innermost(b)
    <3>1. \A b \in Actors : joining[b] # None =>
             joining[b] \in Groups /\ joining[b] = Innermost(b)
      BY <1>0 DEF ScopeInv, TypeOK
    <3> QED
      BY <2>1, <2>2, <3>1
  <2> QED
    BY <2>2, <2>3 DEF ScopeInv, Opened, Innermost
<1>5. ASSUME NEW a \in Actors, scopes[a] # <<>>, scopes' = PopScope(a),
             left' = left \cup {Innermost(a)}, children' = children,
             joining'[a] = None,
             \A b \in Actors : b # a => joining'[b] = joining[b]
      PROVE  ScopeInv'
  <2>1. /\ Innermost(a) \in Elems(scopes[a])
        /\ Elems(scopes'[a]) = Elems(scopes[a]) \ {Innermost(a)}
        /\ NoRepeats(scopes'[a])
        /\ \A b \in Actors : b # a => scopes'[b] = scopes[b]
    BY <1>0, <1>5, PopFacts
  <2>2. \A b \in Actors : b # a => Innermost(a) \notin Elems(scopes[b])
    BY <2>1 DEF ScopeInv
  <2>3. \A g \in Groups : Opened(g) => Opened(g)'
    BY <1>5, <2>1 DEF Opened
  <2>4. \A b \in Actors : joining'[b] # None =>
           joining'[b] = Innermost(b)' /\ children'[joining'[b]] = <<>>
    BY <1>5, <2>1 DEF ScopeInv, Innermost
  <2> QED
    BY <1>5, <2>1, <2>2, <2>3, <2>4 DEF ScopeInv
<1>6. ASSUME NEW a \in Actors, JoinEnd(a)
      PROVE  ScopeInv'
  <2>1. /\ scopes[a] # <<>> /\ scopes' = PopScope(a)
        /\ left' = left \cup {Innermost(a)} /\ children' = children
        /\ joining' = [joining EXCEPT ![a] = None]
    BY <1>0, <1>6 DEF JoinEnd, ScopeInv, TypeOK
  <2>2. joining \in [Actors -> Groups \cup {None}]
    BY <1>0 DEF TypeOK
  <2>3. joining'[a] = None /\ \A b \in Actors : b # a => joining'[b] = joining[b]
    BY <2>1, <2>2
  <2> QED
    BY <1>5, <2>1, <2>3
<1>7. ASSUME NEW a \in Actors, EarlyExit(a)
      PROVE  ScopeInv'
  BY <1>5, <1>7 DEF EarlyExit, Runs, waitVars
<1>8. ASSUME NEW a \in Actors, Call(a)
      PROVE  ScopeInv'
  BY <1>1, <1>2, <1>3, <1>7, <1>8
     DEF Call, Await, CancelAndAwait, Cancel, Detach, clientVars, waitVars
<1>9. ASSUME NEW a \in Actors, JoinStart(a) \/ Wait(a) \/ SpuriousWake(a)
      PROVE  ScopeInv'
  BY <1>1, <1>4, <1>6, <1>9
     DEF Wait, WaitSleep, Take, SpuriousWake, clientVars
<1>10. ASSUME NEW w \in Workers, Worker(w)
       PROVE  ScopeInv'
  BY <1>1, <1>10
     DEF Worker, WorkerLock, WorkerRecv, JobCheck, BodyReturn, Complete,
         Notify, clientVars, waitVars
<1>11. CASE UNCHANGED vars
  BY <1>1, <1>11 DEF vars, clientVars, waitVars
<1> QED
  BY <1>8, <1>9, <1>10, <1>11 DEF Next

-----------------------------------------------------------------------------
(* Scopes wait for their children.                                         *)

\* A task that nobody detached is Pending until its job is finished.
Undone ==
    \A t \in Tasks \ detached :
        (t \in Elems(queue) \/ \E w \in Workers : Busy(w, t)) =>
            state[t] = "Pending"

\* The actor is joining the task's group and has yet to wait for the task.
JoinedBy(t, a) == joining[a] = group[t] /\ t \in Elems(todo[a])

\* A pending child is in its group's list or on the list of the actor that
\* joins the group.
ChildTracked ==
    \A t \in Tasks : group[t] # None /\ state[t] = "Pending" =>
        t \in Elems(children[group[t]]) \/ \E a \in Actors : JoinedBy(t, a)

\* A scope that was left has an empty list.
LeftDrained == \A g \in left : children[g] = <<>>

ChildInv == JobInv /\ ScopeInv /\ Undone /\ ChildTracked /\ LeftDrained

\* The child invariant holds initially.
LEMMA InitChild == Init => ChildInv
<1> SUFFICES ASSUME Init PROVE ChildInv
  OBVIOUS
<1>1. JobInv /\ ScopeInv
  BY InitJob, InitScope
<1>2. Elems(queue) = {} /\ \A w \in Workers : job[w] = None
  BY ElemsEmpty DEF Init
<1>3. Undone
  BY <1>2, TaskAssumption DEF Undone, Busy, Actors
<1> QED
  BY <1>1, <1>3 DEF ChildInv, ChildTracked, LeftDrained, Init

\* Every step keeps the children that are not done accounted for.
LEMMA UndoneStep ==
    ASSUME JobInv, Undone, [Next]_vars
    PROVE  Undone'
<1>0. TypeOK
  BY DEF JobInv
<1> USE TaskAssumption
<1>1. ASSUME UNCHANGED <<state, queue, pc, job, detached>>
      PROVE  Undone'
  BY <1>1 DEF Undone, Busy
<1>2. ASSUME NEW a \in Actors, NEW g \in Groups \cup {None}, NEW t \in Tasks,
             NEW m \in Tasks \cup {None}, Spawn(a, g, t, m)
      PROVE  Undone'
  <2>1. Elems(queue') = Elems(queue) \cup {t}
    BY <1>0, <1>2, ElemsAppend DEF Spawn, TypeOK
  <2>2. state'[t] = "Pending" /\ \A x \in Tasks : x # t => state'[x] = state[x]
    BY <1>0, <1>2 DEF Spawn, TypeOK
  <2> QED
    BY <1>2, <2>1, <2>2 DEF Spawn, Undone, Busy, histVars
<1>3. ASSUME NEW a \in Actors, NEW t \in Tasks, Detach(a, t)
      PROVE  Undone'
  <2>1. \A x \in Tasks : x # t => state'[x] = state[x]
    BY <1>0, <1>3 DEF Detach, TypeOK
  <2> QED
    BY <1>3, <2>1 DEF Detach, Undone, Busy, poolVars
<1>4. ASSUME NEW a \in Actors, Take(a)
      PROVE  Undone'
  <2>1. PICK t \in Tasks : /\ state[t] # "Pending"
                          /\ \A x \in Tasks : x # t => state'[x] = state[x]
    BY <1>0, <1>4 DEF Take, TypeOK
  <2> QED
    BY <1>4, <2>1 DEF Take, Undone, Busy, poolVars
<1>5. ASSUME NEW w \in Workers, WorkerRecv(w)
      PROVE  Undone'
  <2>1. Elems(queue) = {Head(queue)} \cup Elems(queue')
    BY <1>0, <1>5, ElemsTail DEF WorkerRecv, TypeOK
  <2>2. job'[w] = Head(queue) /\ \A v \in Workers : v # w => job'[v] = job[v] /\ pc'[v] = pc[v]
    BY <1>0, <1>5 DEF WorkerRecv, TypeOK
  <2> QED
    BY <1>5, <2>1, <2>2 DEF WorkerRecv, Undone, Busy, taskVars, histVars
<1>6. ASSUME NEW w \in Workers, JobCheck(w) \/ BodyReturn(w)
      PROVE  Undone'
  <2>1. /\ UNCHANGED <<state, queue, job, detached>>
        /\ pc[w] \in {"check", "body"}
        /\ \A v \in Workers : v # w => pc'[v] = pc[v]
    BY <1>0, <1>6 DEF JobCheck, BodyReturn, TypeOK, histVars
  <2> QED
    BY <2>1 DEF Undone, Busy
<1>7. ASSUME NEW w \in Workers, Complete(w)
      PROVE  Undone'
  <2>0. pc[w] = "complete"
    BY <1>7 DEF Complete
  <2>1. job[w] \in Tasks /\ job[w] # None
    BY <1>0, <2>0, JobFacts
  <2>2. /\ UNCHANGED <<queue, detached>>
        /\ pc'[w] \in {"idle", "notify"}
        /\ \A v \in Workers : v # w => pc'[v] = pc[v] /\ job'[v] = job[v]
        /\ \A x \in Tasks : x # job[w] => state'[x] = state[x]
    BY <1>0, <1>7, <2>1 DEF Complete, TypeOK, histVars
  <2>3. job[w] \notin Elems(queue) /\ \A v \in Workers : job[v] = job[w] => v = w
    BY <2>1 DEF JobInv, OneJobPerTask
  <2> QED
    BY <2>2, <2>3 DEF Undone, Busy
<1>8. ASSUME NEW w \in Workers, WorkerLock(w) \/ Notify(w)
      PROVE  Undone'
  <2>1. /\ UNCHANGED <<state, queue, detached>>
        /\ pc'[w] \in {"idle", "recv"}
        /\ \A v \in Workers : v # w => pc'[v] = pc[v] /\ job'[v] = job[v]
    BY <1>0, <1>8 DEF WorkerLock, Notify, TypeOK, histVars, taskVars
  <2> QED
    BY <2>1 DEF Undone, Busy
<1>9. ASSUME NEW a \in Actors, Call(a)
      PROVE  Undone'
  BY <1>1, <1>2, <1>3, <1>9
     DEF Call, GroupOpen, Await, CancelAndAwait, Cancel, EarlyExit, taskVars,
         poolVars, histVars
<1>10. ASSUME NEW a \in Actors, JoinStart(a) \/ Wait(a) \/ SpuriousWake(a)
       PROVE  Undone'
  BY <1>1, <1>4, <1>10
     DEF JoinStart, Wait, WaitSleep, JoinEnd, SpuriousWake, taskVars,
         poolVars, histVars
<1>11. ASSUME NEW w \in Workers, Worker(w)
       PROVE  Undone'
  BY <1>5, <1>6, <1>7, <1>8, <1>11 DEF Worker
<1>12. CASE UNCHANGED vars
  BY <1>1, <1>12 DEF vars, taskVars, poolVars, histVars
<1> QED
  BY <1>9, <1>10, <1>11, <1>12 DEF Next

\* An actor that joins does so for the group on top of its own stack.
LEMMA JoinFacts ==
    ASSUME TypeOK, ScopeInv, NEW a \in Actors, joining[a] # None
    PROVE  /\ joining[a] \in Elems(scopes[a])
           /\ joining[a] \in Groups
           /\ joining[a] \notin left
<1>1. scopes[a] # <<>> /\ joining[a] \in Groups
  BY DEF TypeOK
<1>2. Innermost(a) \in Elems(scopes[a])
  BY <1>1, PopFacts
<1> QED
  BY <1>1, <1>2 DEF ScopeInv

\* Every step keeps every child tracked by its scope.
LEMMA TrackedStep ==
    ASSUME ChildInv, ~EarlyExits, [Next]_vars
    PROVE  ChildTracked' /\ LeftDrained'
<1>0. TypeOK /\ ScopeInv /\ ChildTracked /\ LeftDrained
  BY DEF ChildInv, JobInv
<1> USE TaskAssumption
<1>1. ASSUME UNCHANGED <<group, children, left, joining, todo>>,
             \A x \in Tasks : state'[x] = "Pending" => state[x] = "Pending"
      PROVE  ChildTracked' /\ LeftDrained'
  BY <1>0, <1>1 DEF ChildTracked, LeftDrained, JoinedBy
<1>2. ASSUME NEW a \in Actors, NEW g \in Groups \cup {None}, NEW t \in Tasks,
             NEW m \in Tasks \cup {None}, Spawn(a, g, t, m)
      PROVE  ChildTracked' /\ LeftDrained'
  <2>1. /\ group'[t] = g
        /\ \A x \in Tasks : x # t => group'[x] = group[x] /\ state'[x] = state[x]
        /\ UNCHANGED <<todo, joining, left>>
        /\ \A h \in Groups : h # g => children'[h] = children[h]
    BY <1>0, <1>2 DEF Spawn, TypeOK, waitVars
  <2>2. g # None => /\ g \notin left
                    /\ Elems(children'[g]) = Elems(children[g]) \cup {t}
    BY <1>0, <1>2, ElemsAppend DEF Spawn, TypeOK, ScopeInv
  <2>3. left \subseteq Groups
    BY <1>0 DEF TypeOK
  <2>4. \A x \in Tasks : group[x] \in Groups \cup {None}
    BY <1>0 DEF TypeOK
  <2>5. \A h \in Groups : Elems(children[h]) \subseteq Elems(children'[h])
    BY <2>1, <2>2
  <2>6. LeftDrained'
    BY <1>0, <2>1, <2>2, <2>3 DEF LeftDrained
  <2>7. ASSUME NEW x \in Tasks, group'[x] # None, state'[x] = "Pending"
        PROVE  x \in Elems(children'[group'[x]]) \/ \E b \in Actors : JoinedBy(x, b)'
    <3>1. CASE x = t
      BY <2>1, <2>2, <2>7, <3>1
    <3>2. CASE x # t
      BY <1>0, <2>1, <2>4, <2>5, <2>7, <3>2 DEF ChildTracked, JoinedBy
    <3> QED
      BY <3>1, <3>2
  <2> QED
    BY <2>6, <2>7 DEF ChildTracked
<1>3. ASSUME NEW a \in Actors, NEW t \in Tasks, Await(a, t) \/ CancelAndAwait(a, t)
      PROVE  ChildTracked' /\ LeftDrained'
  <2>1. joining[a] = None /\ UNCHANGED <<state, group, children, left, joining>>
        /\ \A b \in Actors : b # a => todo'[b] = todo[b]
    BY <1>0, <1>3 DEF Await, CancelAndAwait, Runs, TypeOK, taskVars
  <2> QED
    BY <1>0, <2>1 DEF ChildTracked, LeftDrained, JoinedBy
<1>4. ASSUME NEW a \in Actors, JoinStart(a)
      PROVE  ChildTracked' /\ LeftDrained'
  <2>1. joining[a] = None /\ scopes[a] # <<>>
    BY <1>4 DEF JoinStart, Runs
  <2>2. Innermost(a) \in Groups
    BY <1>0, <2>1, PopType
  <2>3. /\ UNCHANGED <<state, group, left>>
        /\ \A g \in Groups : children'[g] =
              IF g = Innermost(a) THEN <<>> ELSE children[g]
        /\ joining'[a] = Innermost(a) /\ todo'[a] = children[Innermost(a)]
        /\ \A b \in Actors : b # a => joining'[b] = joining[b] /\ todo'[b] = todo[b]
    BY <1>0, <1>4, <2>2 DEF JoinStart, TypeOK, taskVars
  <2>4. LeftDrained'
    BY <1>0, <2>3 DEF LeftDrained, TypeOK
  <2>5. ASSUME NEW x \in Tasks, group'[x] # None, state'[x] = "Pending"
        PROVE  x \in Elems(children'[group'[x]]) \/ \E b \in Actors : JoinedBy(x, b)'
    <3>1. group[x] \in Groups
      BY <1>0, <2>3, <2>5 DEF TypeOK
    <3>2. CASE x \in Elems(children[group[x]])
      BY <2>3, <3>1, <3>2 DEF JoinedBy
    <3>3. ASSUME NEW b \in Actors, JoinedBy(x, b) PROVE JoinedBy(x, b)'
      BY <2>1, <2>3, <3>1, <3>3 DEF JoinedBy
    <3> QED
      BY <1>0, <2>3, <2>5, <3>2, <3>3 DEF ChildTracked
  <2> QED
    BY <2>4, <2>5 DEF ChildTracked
<1>5. ASSUME NEW a \in Actors, JoinEnd(a)
      PROVE  ChildTracked' /\ LeftDrained'
  <2>1. children[joining[a]] = <<>>
    BY <1>0, <1>5 DEF JoinEnd, ScopeInv
  <2>2. /\ UNCHANGED <<state, group, children, todo>>
        /\ left' = left \cup {joining[a]}
        /\ Elems(todo[a]) = {}
        /\ \A b \in Actors : b # a => joining'[b] = joining[b]
    BY <1>0, <1>5, ElemsEmpty DEF JoinEnd, TypeOK, taskVars
  <2> QED
    BY <1>0, <2>1, <2>2 DEF ChildTracked, LeftDrained, JoinedBy
<1>6. ASSUME NEW a \in Actors, Take(a)
      PROVE  ChildTracked' /\ LeftDrained'
  <2>1. /\ Head(todo[a]) \in Tasks
        /\ Elems(todo[a]) = {Head(todo[a])} \cup Elems(Tail(todo[a]))
    BY <1>0, <1>6, ElemsTail DEF Take, TypeOK
  <2>2. /\ UNCHANGED <<group, children, left, joining>>
        /\ state'[Head(todo[a])] = "Taken"
        /\ \A x \in Tasks : x # Head(todo[a]) => state'[x] = state[x]
        /\ todo'[a] = Tail(todo[a])
        /\ \A b \in Actors : b # a => todo'[b] = todo[b]
    BY <1>0, <1>6, <2>1 DEF Take, TypeOK, clientVars
  <2> QED
    BY <1>0, <2>1, <2>2 DEF ChildTracked, LeftDrained, JoinedBy
<1>7. ASSUME NEW a \in Actors, Call(a)
      PROVE  ChildTracked' /\ LeftDrained'
  <2>1. ASSUME NEW t \in Tasks, Detach(a, t)
        PROVE  ChildTracked' /\ LeftDrained'
    <3>1. \A x \in Tasks : state'[x] = "Pending" => state[x] = "Pending"
      BY <1>0, <2>1 DEF Detach, TypeOK
    <3> QED
      BY <1>1, <2>1, <3>1 DEF Detach, waitVars
  <2> QED
    BY <1>1, <1>2, <1>3, <1>7, <2>1
       DEF Call, GroupOpen, Cancel, EarlyExit, taskVars, clientVars, waitVars
<1>8. ASSUME NEW a \in Actors, JoinStart(a) \/ Wait(a) \/ SpuriousWake(a)
      PROVE  ChildTracked' /\ LeftDrained'
  BY <1>1, <1>4, <1>5, <1>6, <1>8
     DEF Wait, WaitSleep, SpuriousWake, taskVars, clientVars
<1>9. ASSUME NEW w \in Workers, Worker(w)
      PROVE  ChildTracked' /\ LeftDrained'
  <2>1. ASSUME Complete(w)
        PROVE  \A x \in Tasks : state'[x] = "Pending" => state[x] = "Pending"
    BY <1>0, <2>1 DEF Complete, TypeOK
  <2>2. UNCHANGED <<group, children, left, joining, todo>>
    BY <1>9 DEF Worker, WorkerLock, WorkerRecv, JobCheck, BodyReturn, Complete,
                Notify, clientVars, waitVars
  <2>3. Complete(w) \/ state' = state
    BY <1>9 DEF Worker, WorkerLock, WorkerRecv, JobCheck, BodyReturn, Notify,
                taskVars
  <2> QED
    BY <1>1, <2>1, <2>2, <2>3
<1>10. CASE UNCHANGED vars
  BY <1>1, <1>10 DEF vars, taskVars, clientVars, waitVars
<1> QED
  BY <1>7, <1>8, <1>9, <1>10 DEF Next

\* The child invariant implies that a scope waits for its children.
LEMMA ChildImplies == ChildInv => ScopeWaitsForChildren
<1> SUFFICES ASSUME ChildInv, NEW t \in Tasks \ detached, group[t] \in left,
                    t \in Elems(queue) \/ \E w \in Workers : Busy(w, t)
             PROVE  FALSE
  BY DEF ScopeWaitsForChildren
<1>1. TypeOK /\ ScopeInv
  BY DEF ChildInv, JobInv
<1>2. group[t] \in Groups /\ group[t] # None
  BY <1>1, TaskAssumption DEF TypeOK
<1>3. state[t] = "Pending"
  BY DEF ChildInv, Undone
<1>4. Elems(children[group[t]]) = {}
  BY ElemsEmpty DEF ChildInv, LeftDrained
<1>5. PICK a \in Actors : joining[a] = group[t]
  BY <1>2, <1>3, <1>4 DEF ChildInv, ChildTracked, JoinedBy
<1> QED
  BY <1>1, <1>2, <1>5, JoinFacts

\* In a program whose scope bodies all reach the end of their block, a scope
\* that was left has no child that is still queued or running, whatever the
\* number of tasks, groups and workers and however handles move.
THEOREM ScopesWait == ~EarlyExits => (Spec => []ScopeWaitsForChildren)
<1> SUFFICES ASSUME ~EarlyExits PROVE Spec => []ScopeWaitsForChildren
  OBVIOUS
<1>1. ChildInv /\ [Next]_vars => ChildInv'
  BY JobInduction, ScopeStep, UndoneStep, TrackedStep DEF ChildInv
<1> QED
  BY InitChild, ChildImplies, <1>1, PTL DEF Spec

-----------------------------------------------------------------------------
(* Nobody sleeps through a completion.                                     *)

\* The handle of a task in a group is with the actor that opened the group,
\* or consumed.
ChildrenOwned ==
    \A a \in Actors, t \in Tasks : \A g \in Elems(scopes[a]) :
        t \in Elems(children[g]) => handle[t] \in {None, a}

\* Nobody but the waiting actor has the handle of a task somebody waits for.
WaitOwned ==
    \A a \in Actors, t \in Tasks :
        t \in Elems(todo[a]) => handle[t] \in {None, a}

OwnInv == JobInv /\ ScopeInv /\ ChildrenOwned /\ WaitOwned /\ NoLostWakeup

\* The ownership invariant holds initially.
LEMMA InitOwn == Init => OwnInv
<1> SUFFICES ASSUME Init PROVE OwnInv
  OBVIOUS
<1>1. JobInv /\ ScopeInv
  BY InitJob, InitScope
<1> QED
  BY <1>1 DEF OwnInv, ChildrenOwned, WaitOwned, NoLostWakeup, Init

\* Every step keeps every task owned.
LEMMA OwnedStep ==
    ASSUME OwnInv, ~MovesHandles, [Next]_vars
    PROVE  ChildrenOwned' /\ WaitOwned'
<1>0. JobInv /\ TypeOK /\ ScopeInv /\ ChildrenOwned /\ WaitOwned
  BY DEF OwnInv, JobInv
<1> USE TaskAssumption
<1>1. ASSUME \A a \in Actors : /\ Elems(scopes'[a]) \subseteq Elems(scopes[a])
                               /\ Elems(todo'[a]) \subseteq Elems(todo[a]),
             UNCHANGED children,
             \A x \in Tasks : handle'[x] \in {None, handle[x]}
      PROVE  ChildrenOwned' /\ WaitOwned'
  BY <1>0, <1>1 DEF ChildrenOwned, WaitOwned
<1>2. ASSUME NEW a \in Actors, NEW g \in Groups, GroupOpen(a, g)
      PROVE  ChildrenOwned' /\ WaitOwned'
  <2>1. Elems(scopes'[a]) = Elems(scopes[a]) \cup {g}
        /\ \A b \in Actors : b # a => scopes'[b] = scopes[b]
    BY <1>0, <1>2, ElemsAppend DEF GroupOpen, TypeOK
  <2>2. Elems(children[g]) = {} /\ UNCHANGED <<children, handle, todo>>
    BY <1>0, <1>2, ElemsEmpty DEF GroupOpen, ScopeInv, waitVars
  <2> QED
    BY <1>0, <2>1, <2>2 DEF ChildrenOwned, WaitOwned
<1>3. ASSUME NEW a \in Actors, NEW g \in Groups \cup {None}, NEW t \in Tasks,
             NEW m \in Tasks \cup {None}, Spawn(a, g, t, m)
      PROVE  ChildrenOwned' /\ WaitOwned'
  <2>0. m = None /\ None \notin Tasks
    BY <1>3 DEF Spawn, Actors
  <2>1. /\ handle'[t] = a
        /\ \A x \in Tasks : x # t => handle'[x] = handle[x]
        /\ UNCHANGED <<scopes, todo>>
        /\ \A h \in Groups : h # g => children'[h] = children[h]
    BY <1>0, <1>3, <2>0 DEF Spawn, TypeOK, waitVars
  <2>2. g # None => /\ g \in Elems(scopes[a])
                    /\ Elems(children'[g]) = Elems(children[g]) \cup {t}
    BY <1>0, <1>3, ElemsAppend DEF Spawn, TypeOK
  <2>3. /\ \A h \in Groups : t \notin Elems(children[h])
        /\ \A b \in Actors : t \notin Elems(todo[b])
    BY <1>0, <1>3 DEF Spawn, JobInv, Fresh, Unreferenced
  <2>4. \A b \in Actors : Elems(scopes[b]) \subseteq Groups
    BY <1>0 DEF TypeOK, Elems
  <2>5. WaitOwned'
    BY <1>0, <2>1, <2>3 DEF WaitOwned
  <2>6. ASSUME NEW b \in Actors, NEW x \in Tasks, NEW h \in Elems(scopes'[b]),
               x \in Elems(children'[h])
        PROVE  handle'[x] \in {None, b}
    <3>1. h \in Groups /\ h \in Elems(scopes[b])
      BY <2>1, <2>4
    <3>2. CASE x = t
      <4>1. h = g
        BY <2>1, <2>3, <2>6, <3>1, <3>2
      <4>2. b = a
        BY <1>0, <2>2, <3>1, <4>1 DEF ScopeInv
      <4> QED
        BY <2>1, <3>2, <4>2
    <3>3. CASE x # t
      <4>1. x \in Elems(children[h])
        BY <2>1, <2>2, <2>6, <3>1, <3>3
      <4> QED
        BY <1>0, <2>1, <3>1, <3>3, <4>1 DEF ChildrenOwned
    <3> QED
      BY <3>2, <3>3
  <2> QED
    BY <2>5, <2>6 DEF ChildrenOwned
<1>4. ASSUME NEW a \in Actors, NEW t \in Tasks, Await(a, t) \/ CancelAndAwait(a, t)
      PROVE  ChildrenOwned' /\ WaitOwned'
  <2>1. /\ handle'[t] = None
        /\ \A x \in Tasks : x # t => handle'[x] = handle[x]
        /\ UNCHANGED <<scopes, children>>
        /\ Elems(todo'[a]) = {t}
        /\ \A b \in Actors : b # a => todo'[b] = todo[b]
    BY <1>0, <1>4, ElemsSingle DEF Await, CancelAndAwait, TypeOK
  <2> QED
    BY <1>0, <2>1 DEF ChildrenOwned, WaitOwned
<1>5. ASSUME NEW a \in Actors, JoinStart(a)
      PROVE  ChildrenOwned' /\ WaitOwned'
  <2>1. Innermost(a) \in Groups /\ Innermost(a) \in Elems(scopes[a])
    BY <1>0, <1>5, PopType, PopFacts DEF JoinStart
  <2>2. /\ UNCHANGED scopes
        /\ \A g \in Groups : children'[g] =
              IF g = Innermost(a) THEN <<>> ELSE children[g]
        /\ todo'[a] = children[Innermost(a)]
        /\ \A b \in Actors : b # a => todo'[b] = todo[b]
        /\ \A x \in Tasks : handle'[x] \in {None, handle[x]}
    BY <1>0, <1>5, <2>1 DEF JoinStart, DropHandles, TypeOK
  <2>3. \A b \in Actors : Elems(scopes[b]) \subseteq Groups
    BY <1>0 DEF TypeOK, Elems
  <2>4. \A g \in Groups : Elems(children'[g]) \subseteq Elems(children[g])
    BY <2>2, ElemsEmpty
  <2>5. ChildrenOwned'
    BY <1>0, <2>2, <2>3, <2>4 DEF ChildrenOwned
  <2>6. WaitOwned'
    BY <1>0, <2>1, <2>2 DEF ChildrenOwned, WaitOwned
  <2> QED
    BY <2>5, <2>6
<1>6. ASSUME NEW a \in Actors, scopes[a] # <<>>, scopes' = PopScope(a),
             UNCHANGED <<children, todo>>,
             \A x \in Tasks : handle'[x] \in {None, handle[x]}
      PROVE  ChildrenOwned' /\ WaitOwned'
  <2>1. \A b \in Actors : Elems(scopes'[b]) \subseteq Elems(scopes[b])
    BY <1>0, <1>6, PopFacts
  <2> QED
    BY <1>1, <1>6, <2>1
<1>7. ASSUME NEW a \in Actors, Take(a)
      PROVE  ChildrenOwned' /\ WaitOwned'
  <2>1. \A b \in Actors : Elems(todo'[b]) \subseteq Elems(todo[b])
    BY <1>0, <1>7, ElemsTail DEF Take, TypeOK
  <2> QED
    BY <1>1, <1>7, <2>1 DEF Take, clientVars
<1>8. ASSUME NEW a \in Actors, Call(a)
      PROVE  ChildrenOwned' /\ WaitOwned'
  <2>1. ASSUME NEW t \in Tasks, Detach(a, t) \/ Cancel(a, t)
        PROVE  ChildrenOwned' /\ WaitOwned'
    <3>1. \A x \in Tasks : handle'[x] \in {None, handle[x]}
      BY <1>0, <2>1 DEF Detach, Cancel, TypeOK, clientVars
    <3> QED
      BY <1>1, <2>1, <3>1 DEF Detach, Cancel, clientVars, waitVars
  <2>2. ASSUME EarlyExit(a)
        PROVE  ChildrenOwned' /\ WaitOwned'
    <3>1. \A x \in Tasks : handle'[x] \in {None, handle[x]}
      BY <2>2 DEF EarlyExit, DropHandles
    <3> QED
      BY <1>6, <2>2, <3>1 DEF EarlyExit, waitVars
  <2> QED
    BY <1>2, <1>3, <1>4, <1>8, <2>1, <2>2 DEF Call
<1>9. ASSUME NEW a \in Actors, JoinStart(a) \/ Wait(a) \/ SpuriousWake(a)
      PROVE  ChildrenOwned' /\ WaitOwned'
  <2>1. ASSUME JoinEnd(a)
        PROVE  ChildrenOwned' /\ WaitOwned'
    <3>1. scopes[a] # <<>>
      BY <1>0, <2>1 DEF JoinEnd, TypeOK
    <3> QED
      BY <1>6, <2>1, <3>1 DEF JoinEnd
  <2> QED
    BY <1>1, <1>5, <1>7, <1>9, <2>1
       DEF Wait, WaitSleep, SpuriousWake, clientVars
<1>10. ASSUME NEW w \in Workers, Worker(w)
       PROVE  ChildrenOwned' /\ WaitOwned'
  <2>1. UNCHANGED <<scopes, todo, children, handle>>
    BY <1>10 DEF Worker, WorkerLock, WorkerRecv, JobCheck, BodyReturn,
                 Complete, Notify, clientVars, waitVars
  <2> QED
    BY <1>1, <2>1
<1>11. CASE UNCHANGED vars
  BY <1>1, <1>11 DEF vars, clientVars, waitVars
<1> QED
  BY <1>8, <1>9, <1>10, <1>11 DEF Next

\* A worker is about to wake the waiters of task t.
Waking(t) == \E w \in Workers : pc[w] = "notify" /\ job[w] = t

\* Every step keeps the wakeups that waiters count on.
LEMMA WakeupStep ==
    ASSUME OwnInv, [Next]_vars
    PROVE  NoLostWakeup'
<1>0. TypeOK /\ WaitOwned /\ NoLostWakeup
  BY DEF OwnInv, JobInv
<1>00. \A a \in Actors : asleep[a] =>
          /\ Head(todo[a]) \in Tasks
          /\ Head(todo[a]) \in Elems(todo[a])
          /\ state[Head(todo[a])] = "Pending" \/ Waking(Head(todo[a]))
  BY <1>0, ElemsTail DEF NoLostWakeup, TypeOK, Waking
<1> USE TaskAssumption
<1>1. ASSUME \A a \in Actors : asleep'[a] => asleep[a] /\ todo'[a] = todo[a],
             \A a \in Actors : asleep'[a] /\ state[Head(todo[a])] = "Pending" =>
                state'[Head(todo[a])] = "Pending" \/ Waking(Head(todo[a]))',
             \A a \in Actors : asleep'[a] /\ Waking(Head(todo[a])) =>
                Waking(Head(todo[a]))'
      PROVE  NoLostWakeup'
  BY <1>00, <1>1 DEF NoLostWakeup, Waking
<1>2. ASSUME UNCHANGED <<state, pc, job>>,
             \A a \in Actors : asleep'[a] => asleep[a] /\ todo'[a] = todo[a]
      PROVE  NoLostWakeup'
  BY <1>1, <1>2 DEF Waking
<1>3. ASSUME NEW a \in Actors, NEW g \in Groups \cup {None}, NEW t \in Tasks,
             NEW m \in Tasks \cup {None}, Spawn(a, g, t, m)
      PROVE  NoLostWakeup'
  <2>1. \A x \in Tasks : state'[x] \in {state[x], "Pending"}
    BY <1>0, <1>3 DEF Spawn, TypeOK
  <2> QED
    BY <1>00, <1>1, <1>3, <2>1 DEF Spawn, waitVars, Waking
<1>4. ASSUME NEW a \in Actors, NEW t \in Tasks, Await(a, t) \/ CancelAndAwait(a, t)
      PROVE  NoLostWakeup'
  <2>1. todo[a] = <<>> /\ ~asleep[a]
    BY <1>0, <1>4 DEF Await, CancelAndAwait, Runs, TypeOK
  <2>2. \A b \in Actors : b # a => todo'[b] = todo[b]
    BY <1>0, <1>4 DEF Await, CancelAndAwait, TypeOK
  <2> QED
    BY <1>2, <1>4, <2>1, <2>2 DEF Await, CancelAndAwait, taskVars, poolVars
<1>5. ASSUME NEW a \in Actors, NEW t \in Tasks, Detach(a, t)
      PROVE  NoLostWakeup'
  <2>1. ~asleep[a] /\ handle[t] = a /\ a # None
    BY <1>0, <1>5 DEF Detach, Runs, TypeOK
  <2>2. \A b \in Actors : asleep[b] => Head(todo[b]) # t
    BY <1>0, <1>00, <2>1 DEF WaitOwned
  <2>3. \A x \in Tasks : x # t => state'[x] = state[x]
    BY <1>0, <1>5 DEF Detach, TypeOK
  <2> QED
    BY <1>00, <1>1, <1>5, <2>2, <2>3 DEF Detach, waitVars, poolVars, Waking
<1>6. ASSUME NEW a \in Actors, JoinStart(a)
      PROVE  NoLostWakeup'
  <2>1. ~asleep[a] /\ \A b \in Actors : b # a => todo'[b] = todo[b]
    BY <1>0, <1>6 DEF JoinStart, Runs, TypeOK
  <2> QED
    BY <1>2, <1>6, <2>1 DEF JoinStart, taskVars, poolVars
<1>7. ASSUME NEW a \in Actors, WaitSleep(a)
      PROVE  NoLostWakeup'
  <2>1. state[Head(todo[a])] = "Pending"
        /\ \A b \in Actors : b # a => asleep'[b] = asleep[b]
    BY <1>0, <1>7 DEF WaitSleep, TypeOK
  <2> QED
    BY <1>0, <1>7, <2>1 DEF WaitSleep, NoLostWakeup, taskVars, poolVars
<1>8. ASSUME NEW a \in Actors, Take(a)
      PROVE  NoLostWakeup'
  <2>1. PICK t \in Tasks : /\ state[t] # "Pending"
                          /\ \A x \in Tasks : x # t => state'[x] = state[x]
    BY <1>0, <1>8 DEF Take, TypeOK
  <2>2. ~asleep[a] /\ \A b \in Actors : b # a => todo'[b] = todo[b]
    BY <1>0, <1>8 DEF Take, TypeOK
  <2> QED
    BY <1>00, <1>1, <1>8, <2>1, <2>2 DEF Take, poolVars, Waking
<1>9. ASSUME NEW a \in Actors, SpuriousWake(a)
      PROVE  NoLostWakeup'
  <2>1. \A b \in Actors : asleep'[b] => asleep[b]
    BY <1>0, <1>9 DEF SpuriousWake, TypeOK
  <2> QED
    BY <1>2, <1>9, <2>1 DEF SpuriousWake, taskVars, poolVars
<1>10. ASSUME NEW w \in Workers,
              WorkerLock(w) \/ WorkerRecv(w) \/ JobCheck(w) \/ BodyReturn(w)
       PROVE  NoLostWakeup'
  <2>1. /\ pc[w] # "notify" /\ UNCHANGED <<state, todo, asleep>>
        /\ \A v \in Workers : v # w => pc'[v] = pc[v] /\ job'[v] = job[v]
    <3>1. pc \in [Workers -> Pcs] /\ job \in [Workers -> Tasks \cup {None}]
      BY <1>0 DEF TypeOK
    <3>2. pc[w] \in {"idle", "recv", "check", "body"}
      BY <1>10 DEF WorkerLock, WorkerRecv, JobCheck, BodyReturn
    <3>3. UNCHANGED <<state, todo, asleep>>
      BY <1>10
         DEF WorkerLock, WorkerRecv, JobCheck, BodyReturn, waitVars, taskVars
    <3>4. \E s \in Pcs : pc' = [pc EXCEPT ![w] = s]
      BY <1>10 DEF WorkerLock, WorkerRecv, JobCheck, BodyReturn, Pcs
    <3>5. \/ job' = [job EXCEPT ![w] = Head(queue)]
          \/ job' = job
      BY <1>10 DEF WorkerLock, WorkerRecv, JobCheck, BodyReturn
    <3> QED
      BY <3>1, <3>2, <3>3, <3>4, <3>5
  <2> QED
    BY <1>1, <2>1 DEF Waking
<1>11. ASSUME NEW w \in Workers, Complete(w)
       PROVE  NoLostWakeup'
  <2>0. pc[w] = "complete"
    BY <1>11 DEF Complete
  <2>1. job[w] \in Tasks
    <3>1. job \in [Workers -> Tasks \cup {None}]
      BY <1>0 DEF TypeOK
    <3>2. pc[w] \in {"idle", "recv"} <=> job[w] = None
      BY <1>0 DEF TypeOK
    <3> QED
      BY <2>0, <3>1, <3>2
  <2>2. UNCHANGED <<todo, asleep>>
        /\ \A v \in Workers : v # w => pc'[v] = pc[v] /\ job'[v] = job[v]
    <3>1. pc \in [Workers -> Pcs] /\ job \in [Workers -> Tasks \cup {None}]
      BY <1>0 DEF TypeOK
    <3>2. /\ UNCHANGED <<todo, asleep>>
          /\ \E s \in Pcs : pc' = [pc EXCEPT ![w] = s]
          /\ job' = job \/ job' = [job EXCEPT ![w] = None]
      BY <1>11 DEF Complete, Pcs, waitVars
    <3> QED
      BY <3>1, <3>2
  <2>3. \/ state' = state
        \/ /\ pc'[w] = "notify" /\ job'[w] = job[w]
           /\ \A x \in Tasks : x # job[w] => state'[x] = state[x]
    BY <1>0, <1>11, <2>1 DEF Complete, TypeOK
  <2> QED
    BY <1>00, <1>1, <2>0, <2>2, <2>3 DEF Waking
<1>12. ASSUME NEW w \in Workers, Notify(w)
       PROVE  NoLostWakeup'
  <2>1. /\ UNCHANGED <<state, todo>>
        /\ \A a \in Actors : asleep'[a] => asleep[a] /\ Head(todo[a]) # job[w]
        /\ \A v \in Workers : v # w => pc'[v] = pc[v] /\ job'[v] = job[v]
    BY <1>0, <1>12 DEF Notify, TypeOK, taskVars
  <2> QED
    BY <1>1, <2>1 DEF Waking
<1>13. ASSUME NEW a \in Actors, Call(a)
       PROVE  NoLostWakeup'
  BY <1>2, <1>3, <1>4, <1>5, <1>13
     DEF Call, GroupOpen, Cancel, EarlyExit, taskVars, poolVars, waitVars
<1>14. ASSUME NEW a \in Actors, JoinStart(a) \/ Wait(a) \/ SpuriousWake(a)
       PROVE  NoLostWakeup'
  BY <1>2, <1>6, <1>7, <1>8, <1>9, <1>14
     DEF Wait, JoinEnd, taskVars, poolVars
<1>15. ASSUME NEW w \in Workers, Worker(w)
       PROVE  NoLostWakeup'
  BY <1>10, <1>11, <1>12, <1>15 DEF Worker
<1>16. CASE UNCHANGED vars
  BY <1>2, <1>16 DEF vars, taskVars, poolVars, waitVars
<1> QED
  BY <1>13, <1>14, <1>15, <1>16 DEF Next

\* While the handle of a task stays with the actor that spawned it, an actor
\* in await or join never sleeps on a task that is finished: it sleeps only
\* while the task is Pending or a notification for it is on its way.
THEOREM WaitersAreWoken == ~MovesHandles => (Spec => []NoLostWakeup)
<1> SUFFICES ASSUME ~MovesHandles PROVE Spec => []NoLostWakeup
  OBVIOUS
<1>1. OwnInv /\ [Next]_vars => OwnInv'
  BY JobInduction, ScopeStep, OwnedStep, WakeupStep DEF OwnInv
<1>2. OwnInv => NoLostWakeup
  BY DEF OwnInv
<1> QED
  BY InitOwn, <1>1, <1>2, PTL DEF Spec

-----------------------------------------------------------------------------
(* An await returns the result of the body.                                *)

\* A child is on the list of its group only.
ChildGroup == \A g \in Groups, t \in Tasks : t \in Elems(children[g]) => group[t] = g

\* A task somebody waits for has no handle any more, nobody else waits for
\* it, and it is on no list but one of the waiting actor; an await is for one
\* task, which is not taken, and neither is a task that has a handle.
WaitAlone ==
    /\ \A a \in Actors, t \in Tasks : t \in Elems(todo[a]) => handle[t] = None
    /\ \A a, b \in Actors, t \in Tasks :
          t \in Elems(todo[a]) /\ t \in Elems(todo[b]) => a = b
    /\ \A a, b \in Actors, t \in Tasks : \A g \in Elems(scopes[b]) :
          t \in Elems(children[g]) /\ t \in Elems(todo[a]) => a = b
    /\ \A a \in Actors : joining[a] = None => Len(todo[a]) <= 1
    /\ \A a \in Actors, t \in Tasks :
          joining[a] = None /\ t \in Elems(todo[a]) => state[t] # "Taken"
    /\ \A t \in Tasks : handle[t] # None => state[t] # "Taken"

\* The stored pointer is the body's, or null for a task that was not run.
ResultOK(t) ==
    IF t \in ran THEN result[t] = BodyResult(t)
                 ELSE result[t] = "null" /\ cancelled[t]

Unfinished(t) == t \in Elems(queue) \/ \E w \in Workers : Busy(w, t)

\* The body of a job runs between its check and its completion, the result is
\* right from there on, and a delivered task is never worked on again.
ResultInv ==
    /\ \A t \in Tasks : state[t] = "Completed" => ResultOK(t)
    /\ \A w \in Workers : pc[w] = "complete" => ResultOK(job[w])
    /\ \A w \in Workers : pc[w] = "body" => job[w] \in ran
    /\ \A w \in Workers : pc[w] = "check" => job[w] \notin ran
    /\ \A t \in Tasks : t \in Elems(queue) \/ state[t] = "Unspawned" => t \notin ran
    /\ \A t \in Tasks : delivered[t] # {} => state[t] = "Taken" /\ ~Unfinished(t)
    /\ AwaitReturnsResult

ReturnInv == OwnInv /\ ChildGroup /\ WaitAlone /\ ResultInv

\* The invariant of the results holds initially.
LEMMA InitReturn == Init => ReturnInv
<1> SUFFICES ASSUME Init PROVE ReturnInv
  OBVIOUS
<1> USE DEF Init
<1>1. /\ Elems(queue) = {}
      /\ \A g \in Groups : Elems(children[g]) = {}
      /\ \A a \in Actors : Elems(todo[a]) = {} /\ Len(todo[a]) = 0
  BY ElemsEmpty
<1>2. ChildGroup /\ WaitAlone
  BY <1>1 DEF ChildGroup, WaitAlone
<1>3. ResultInv
  BY <1>1 DEF ResultInv, AwaitReturnsResult
<1> QED
  BY <1>2, <1>3, InitOwn DEF ReturnInv

\* Every step keeps waiting actors apart.
LEMMA WaitAloneStep ==
    ASSUME ReturnInv, ~MovesHandles, [Next]_vars
    PROVE  ChildGroup' /\ WaitAlone'
<1>0. JobInv /\ TypeOK /\ ScopeInv /\ ChildrenOwned /\ ChildGroup /\ WaitAlone
  BY DEF ReturnInv, OwnInv, JobInv
<1>00. /\ None \notin Actors /\ None \notin Tasks /\ None \notin Groups
       /\ \A a \in Actors : Elems(scopes[a]) \subseteq Groups
       /\ \A a \in Actors : Elems(todo[a]) \subseteq Tasks
  BY <1>0, TaskAssumption DEF Actors, Elems, TypeOK
<1>1. ASSUME UNCHANGED <<children, group>>,
             \A a \in Actors : /\ Elems(scopes'[a]) \subseteq Elems(scopes[a])
                               /\ Elems(todo'[a]) \subseteq Elems(todo[a])
                               /\ joining'[a] = None =>
                                     /\ Len(todo'[a]) <= 1
                                     /\ joining[a] = None \/ Elems(todo'[a]) = {},
             \A x \in Tasks : handle'[x] \in {None, handle[x]},
             \A x \in Tasks : state'[x] = "Taken" => state[x] = "Taken"
      PROVE  ChildGroup' /\ WaitAlone'
  BY <1>0, <1>1 DEF ChildGroup, WaitAlone
<1>2. ASSUME NEW a \in Actors, NEW g \in Groups, GroupOpen(a, g)
      PROVE  ChildGroup' /\ WaitAlone'
  <2>1. Elems(scopes'[a]) = Elems(scopes[a]) \cup {g}
        /\ \A b \in Actors : b # a => scopes'[b] = scopes[b]
    BY <1>0, <1>2, ElemsAppend DEF GroupOpen, TypeOK
  <2>2. Elems(children[g]) = {} /\ UNCHANGED <<children, group, handle, todo, joining, state>>
    BY <1>0, <1>2, ElemsEmpty DEF GroupOpen, ScopeInv, waitVars, taskVars
  <2> QED
    BY <1>0, <2>1, <2>2 DEF ChildGroup, WaitAlone
<1>3. ASSUME NEW a \in Actors, NEW g \in Groups \cup {None}, NEW t \in Tasks,
             NEW m \in Tasks \cup {None}, Spawn(a, g, t, m)
      PROVE  ChildGroup' /\ WaitAlone'
  <2>0. m = None
    BY <1>3 DEF Spawn
  <2>1. /\ \A x \in Tasks : x # t => handle'[x] = handle[x] /\ group'[x] = group[x]
                                     /\ state'[x] = state[x]
        /\ UNCHANGED <<scopes, todo, joining>> /\ group'[t] = g /\ state'[t] = "Pending"
        /\ \A h \in Groups : h # g => children'[h] = children[h]
    BY <1>0, <1>00, <1>3, <2>0 DEF Spawn, TypeOK, waitVars
  <2>2. g # None => Elems(children'[g]) = Elems(children[g]) \cup {t}
    BY <1>0, <1>3, ElemsAppend DEF Spawn, TypeOK
  <2>3. /\ \A h \in Groups : t \notin Elems(children[h])
        /\ \A b \in Actors : t \notin Elems(todo[b])
    BY <1>0, <1>3 DEF Spawn, JobInv, Fresh, Unreferenced
  <2>4. \A h \in Groups : \A x \in Elems(children'[h]) :
           x \in Elems(children[h]) \/ (x = t /\ h = g)
    BY <1>00, <2>1, <2>2
  <2>5. ChildGroup'
    BY <1>0, <1>00, <2>1, <2>3, <2>4 DEF ChildGroup
  <2>6. ASSUME NEW b \in Actors, NEW c \in Actors, NEW x \in Tasks, NEW h \in Elems(scopes'[c]),
               x \in Elems(children'[h]), x \in Elems(todo'[b])
        PROVE  b = c
    <3>1. x # t /\ h \in Groups /\ x \in Elems(children[h])
      BY <1>00, <2>1, <2>3, <2>4, <2>6
    <3> QED
      BY <1>0, <2>1, <2>6, <3>1 DEF WaitAlone
  <2> QED
    BY <1>0, <2>1, <2>3, <2>5, <2>6 DEF WaitAlone
<1>4. ASSUME NEW a \in Actors, NEW t \in Tasks, Await(a, t) \/ CancelAndAwait(a, t)
      PROVE  ChildGroup' /\ WaitAlone'
  <2>1. /\ handle[t] = a /\ handle'[t] = None
        /\ \A x \in Tasks : x # t => handle'[x] = handle[x]
        /\ UNCHANGED <<scopes, children, group, joining, state>>
        /\ joining[a] = None /\ Elems(todo'[a]) = {t} /\ Len(todo'[a]) = 1
        /\ \A b \in Actors : b # a => todo'[b] = todo[b]
    BY <1>0, <1>4, ElemsSingle DEF Await, CancelAndAwait, TypeOK, Runs, taskVars
  <2>2. \A b \in Actors : t \notin Elems(todo[b])
    BY <1>0, <1>00, <2>1 DEF WaitAlone
  <2>3. ChildGroup'
    BY <1>0, <2>1 DEF ChildGroup
  <2>4. state[t] # "Taken"
    BY <1>0, <1>00, <2>1 DEF WaitAlone
  <2>5. \A b \in Actors : \A g \in Elems(scopes[b]) : t \in Elems(children[g]) => b = a
    BY <1>0, <1>00, <2>1 DEF ChildrenOwned
  <2>6. ASSUME NEW b \in Actors, NEW c \in Actors, NEW x \in Tasks, NEW h \in Elems(scopes'[c]),
               x \in Elems(children'[h]), x \in Elems(todo'[b])
        PROVE  b = c
    <3>1. CASE b = a
      BY <2>1, <2>5, <2>6, <3>1
    <3>2. CASE b # a
      BY <1>0, <2>1, <2>6, <3>2 DEF WaitAlone
    <3> QED
      BY <3>1, <3>2
  <2>7. \A b \in Actors, x \in Tasks :
           x \in Elems(todo'[b]) => (b = a /\ x = t) \/ (b # a /\ x # t /\ x \in Elems(todo[b]))
    BY <2>1, <2>2
  <2>8. \A b \in Actors, x \in Tasks : x \in Elems(todo'[b]) => handle'[x] = None
    BY <1>0, <2>1, <2>7 DEF WaitAlone
  <2>9. \A b, c \in Actors, x \in Tasks :
           x \in Elems(todo'[b]) /\ x \in Elems(todo'[c]) => b = c
    BY <1>0, <2>7 DEF WaitAlone
  <2>10. ASSUME NEW b \in Actors, joining'[b] = None
         PROVE  Len(todo'[b]) <= 1
    <3>1. CASE b = a
      <4>1. Len(todo'[b]) = 1
        BY <2>1, <3>1
      <4> QED
        BY <4>1
    <3>2. CASE b # a
      <4>1. joining[b] = None /\ todo'[b] = todo[b]
        BY <2>1, <2>10, <3>2
      <4>2. Len(todo[b]) <= 1
        BY <1>0, <4>1 DEF WaitAlone
      <4> QED
        BY <4>1, <4>2
    <3> QED
      BY <3>1, <3>2
  <2>11. \A b \in Actors, x \in Tasks :
            joining'[b] = None /\ x \in Elems(todo'[b]) => state'[x] # "Taken"
    BY <1>0, <2>1, <2>4, <2>7 DEF WaitAlone
  <2>12. \A x \in Tasks : handle'[x] # None => state'[x] # "Taken"
    BY <1>0, <2>1 DEF WaitAlone
  <2> QED
    BY <2>3, <2>6, <2>8, <2>9, <2>10, <2>11, <2>12 DEF WaitAlone
<1>5. ASSUME NEW a \in Actors, JoinStart(a)
      PROVE  ChildGroup' /\ WaitAlone'
  <2>1. Innermost(a) \in Groups /\ Innermost(a) \in Elems(scopes[a])
    BY <1>0, <1>5, PopType, PopFacts DEF JoinStart
  <2>2. /\ UNCHANGED <<scopes, group, state>>
        /\ \A g \in Groups : children'[g] =
              IF g = Innermost(a) THEN <<>> ELSE children[g]
        /\ todo'[a] = children[Innermost(a)] /\ joining'[a] = Innermost(a)
        /\ \A b \in Actors : b # a => todo'[b] = todo[b] /\ joining'[b] = joining[b]
        /\ \A x \in Tasks : handle'[x] =
              IF handle[x] = a /\ group[x] = Innermost(a) THEN None ELSE handle[x]
    BY <1>0, <1>5, <2>1 DEF JoinStart, DropHandles, TypeOK, taskVars
  <2>3. \A g \in Groups : Elems(children'[g]) \subseteq Elems(children[g])
    BY <2>2, ElemsEmpty
  <2>4. ChildGroup'
    BY <1>0, <2>2, <2>3 DEF ChildGroup
  <2>5. \A x \in Tasks : x \in Elems(children[Innermost(a)]) => handle'[x] = None
    BY <1>0, <2>1, <2>2 DEF ChildGroup, ChildrenOwned
  <2>6. \A b \in Actors, x \in Tasks :
           b # a /\ x \in Elems(children[Innermost(a)]) => x \notin Elems(todo[b])
    BY <1>0, <2>1 DEF WaitAlone
  <2>7. ASSUME NEW b \in Actors, NEW c \in Actors, NEW x \in Tasks, NEW h \in Elems(scopes'[c]),
               x \in Elems(children'[h]), x \in Elems(todo'[b])
        PROVE  b = c
    <3>0. h \in Groups /\ h \in Elems(scopes[c]) /\ x \in Elems(children[h]) /\ h # Innermost(a)
      BY <1>00, <2>2, <2>3, <2>7, ElemsEmpty
    <3>1. b # a
      BY <1>0, <2>1, <2>2, <2>7, <3>0 DEF ChildGroup
    <3> QED
      BY <1>0, <2>2, <2>7, <3>0, <3>1 DEF WaitAlone
  <2>8. joining'[a] # None
    BY <1>00, <2>1, <2>2
  <2>9. \A b \in Actors, x \in Tasks : x \in Elems(todo'[b]) => handle'[x] = None
    BY <1>0, <2>2, <2>5 DEF WaitAlone
  <2>10. \A b, c \in Actors, x \in Tasks :
            x \in Elems(todo'[b]) /\ x \in Elems(todo'[c]) => b = c
    BY <1>0, <2>2, <2>6 DEF WaitAlone
  <2>11. \A b \in Actors : joining'[b] = None => b # a
    BY <2>8
  <2> QED
    BY <1>0, <2>2, <2>4, <2>7, <2>9, <2>10, <2>11 DEF WaitAlone
<1>6. ASSUME NEW a \in Actors, NEW t \in Tasks, Detach(a, t)
      PROVE  ChildGroup' /\ WaitAlone'
  <2>1. /\ handle[t] = a /\ handle'[t] = None
        /\ \A x \in Tasks : x # t => handle'[x] = handle[x] /\ state'[x] = state[x]
        /\ UNCHANGED <<scopes, children, group, joining, todo>>
    BY <1>0, <1>6 DEF Detach, TypeOK, waitVars
  <2>2. \A b \in Actors : t \notin Elems(todo[b])
    BY <1>0, <1>00, <2>1 DEF WaitAlone
  <2>3. ChildGroup'
    BY <1>0, <2>1 DEF ChildGroup
  <2> QED
    BY <1>0, <2>1, <2>2, <2>3 DEF WaitAlone
<1>7. ASSUME NEW a \in Actors, Take(a)
      PROVE  ChildGroup' /\ WaitAlone'
  <2> DEFINE t == Head(todo[a])
  <2>1. /\ t \in Tasks /\ todo[a] # <<>> /\ todo[a] \in Seq(Tasks) /\ t \in Elems(todo[a])
        /\ Elems(todo'[a]) \subseteq Elems(todo[a])
        /\ todo'[a] = Tail(todo[a])
        /\ \A b \in Actors : b # a => todo'[b] = todo[b]
    BY <1>0, <1>7, ElemsTail DEF Take, TypeOK
  <2>2. /\ \A x \in Tasks : x # t => state'[x] = state[x]
        /\ UNCHANGED <<scopes, children, group, joining, handle>>
    BY <1>0, <1>7 DEF Take, TypeOK, clientVars
  <2>3. joining[a] = None => Elems(todo'[a]) = {} /\ Len(todo'[a]) <= 1
    <3> SUFFICES ASSUME joining[a] = None PROVE Elems(todo'[a]) = {} /\ Len(todo'[a]) <= 1
      OBVIOUS
    <3>1. Len(todo[a]) <= 1
      BY <1>0 DEF WaitAlone
    <3>2. Len(todo'[a]) = 0
      <4>1. Len(todo[a]) \in Nat /\ Len(todo[a]) # 0
        BY <2>1
      <4>2. Len(todo'[a]) = Len(todo[a]) - 1
        BY <2>1
      <4>3. \A n \in Nat : n <= 1 /\ n # 0 => n - 1 = 0
        OBVIOUS
      <4>4. Len(todo[a]) - 1 = 0
        BY <3>1, <4>1, <4>3
      <4> QED
        BY <4>2, <4>4
    <3> QED
      BY <3>2 DEF Elems
  <2>4. handle[t] = None /\ \A b \in Actors : t \in Elems(todo[b]) => b = a
    BY <1>0, <2>1 DEF WaitAlone
  <2> HIDE DEF t
  <2>5. ChildGroup'
    BY <1>0, <2>2 DEF ChildGroup
  <2>6. \A b \in Actors : Elems(todo'[b]) \subseteq Elems(todo[b])
    BY <2>1
  <2>7. \A b \in Actors : joining'[b] = None => Len(todo'[b]) <= 1
    BY <1>0, <2>1, <2>2, <2>3 DEF WaitAlone
  <2>8. \A b \in Actors, x \in Tasks :
           joining'[b] = None /\ x \in Elems(todo'[b]) => x # t
    BY <2>1, <2>2, <2>3, <2>4
  <2>9. /\ \A b \in Actors, x \in Tasks : x \in Elems(todo'[b]) => handle'[x] = None
        /\ \A b, c \in Actors, x \in Tasks :
              x \in Elems(todo'[b]) /\ x \in Elems(todo'[c]) => b = c
        /\ \A b, c \in Actors, x \in Tasks : \A g \in Elems(scopes'[c]) :
              x \in Elems(children'[g]) /\ x \in Elems(todo'[b]) => b = c
    BY <1>0, <2>2, <2>6 DEF WaitAlone
  <2>10. /\ \A b \in Actors, x \in Tasks :
               joining'[b] = None /\ x \in Elems(todo'[b]) => state'[x] # "Taken"
         /\ \A x \in Tasks : handle'[x] # None => state'[x] # "Taken"
    BY <1>0, <2>2, <2>4, <2>6, <2>8 DEF WaitAlone
  <2> QED
    BY <2>5, <2>7, <2>9, <2>10 DEF WaitAlone
<1>8. ASSUME NEW a \in Actors, scopes[a] # <<>>, scopes' = PopScope(a),
             UNCHANGED <<children, group, todo, state>>,
             \A b \in Actors : joining'[b] = None => joining[b] = None \/ todo[b] = <<>>,
             \A x \in Tasks : handle'[x] \in {None, handle[x]}
      PROVE  ChildGroup' /\ WaitAlone'
  <2>1. \A b \in Actors : Elems(scopes'[b]) \subseteq Elems(scopes[b])
    BY <1>0, <1>8, PopFacts
  <2>2. \A b \in Actors : todo[b] = <<>> => Elems(todo[b]) = {} /\ Len(todo[b]) <= 1
    BY ElemsEmpty
  <2>3. \A b \in Actors : joining'[b] = None =>
           Len(todo'[b]) <= 1 /\ (joining[b] = None \/ Elems(todo'[b]) = {})
    BY <1>0, <1>8, <2>2 DEF WaitAlone
  <2> QED
    BY <1>1, <1>8, <2>1, <2>3
<1>9. \A b \in Actors : joining[b] = None => Len(todo[b]) <= 1
  BY <1>0 DEF WaitAlone
<1>10. ASSUME NEW a \in Actors, Call(a)
       PROVE  ChildGroup' /\ WaitAlone'
  <2>1. ASSUME NEW t \in Tasks, Cancel(a, t)
        PROVE  ChildGroup' /\ WaitAlone'
    BY <1>1, <1>9, <2>1 DEF Cancel, clientVars, waitVars
  <2>2. ASSUME EarlyExit(a)
        PROVE  ChildGroup' /\ WaitAlone'
    <3>1. \A x \in Tasks : handle'[x] \in {None, handle[x]}
      BY <2>2 DEF EarlyExit, DropHandles
    <3> QED
      BY <1>8, <2>2, <3>1 DEF EarlyExit, waitVars, taskVars
  <2> QED
    BY <1>2, <1>3, <1>4, <1>6, <1>10, <2>1, <2>2 DEF Call
<1>11. ASSUME NEW a \in Actors, JoinStart(a) \/ Wait(a) \/ SpuriousWake(a)
       PROVE  ChildGroup' /\ WaitAlone'
  <2>1. ASSUME JoinEnd(a)
        PROVE  ChildGroup' /\ WaitAlone'
    <3>1. scopes[a] # <<>>
      BY <1>0, <2>1 DEF JoinEnd, TypeOK
    <3>2. \A b \in Actors : joining'[b] = None => joining[b] = None \/ todo[b] = <<>>
      BY <1>0, <2>1 DEF JoinEnd, TypeOK
    <3> QED
      BY <1>8, <2>1, <3>1, <3>2 DEF JoinEnd, taskVars
  <2>2. ASSUME WaitSleep(a) \/ SpuriousWake(a)
        PROVE  ChildGroup' /\ WaitAlone'
    BY <1>1, <1>9, <2>2 DEF WaitSleep, SpuriousWake, clientVars, taskVars
  <2> QED
    BY <1>5, <1>7, <1>11, <2>1, <2>2 DEF Wait
<1>12. ASSUME NEW w \in Workers, Worker(w)
       PROVE  ChildGroup' /\ WaitAlone'
  <2>1. UNCHANGED <<scopes, todo, children, handle, group, joining>>
    BY <1>12 DEF Worker, WorkerLock, WorkerRecv, JobCheck, BodyReturn,
                 Complete, Notify, clientVars, waitVars
  <2>2. \A x \in Tasks : state'[x] = "Taken" => state[x] = "Taken"
    BY <1>0, <1>12 DEF Worker, WorkerLock, WorkerRecv, JobCheck, BodyReturn,
                       Complete, Notify, taskVars, TypeOK
  <2> QED
    BY <1>1, <1>9, <2>1, <2>2
<1>13. CASE UNCHANGED vars
  BY <1>1, <1>9, <1>13 DEF vars, clientVars, waitVars, taskVars
<1> QED
  BY <1>10, <1>11, <1>12, <1>13 DEF Next

\* Every step keeps the results right.
LEMMA ResultStep ==
    ASSUME ReturnInv, [Next]_vars
    PROVE  ResultInv'
<1>0. JobInv /\ TypeOK /\ Fresh /\ NoResultYet /\ WaitAlone /\ ResultInv
  BY DEF ReturnInv, OwnInv, JobInv
<1> USE DEF Busy
<1>1. ASSUME UNCHANGED <<ran, delivered, result>>,
             Elems(queue') \subseteq Elems(queue),
             \A w \in Workers : pc'[w] \in {"check", "body", "complete"} =>
                pc'[w] = pc[w] /\ job'[w] = job[w],
             \A x \in Tasks : /\ cancelled[x] => cancelled'[x]
                              /\ state'[x] = "Completed" => state[x] = "Completed"
                              /\ state'[x] = "Unspawned" => state[x] = "Unspawned"
                              /\ state[x] = "Taken" => state'[x] = "Taken"
      PROVE  ResultInv'
  <2>1. \A x \in Tasks : ResultOK(x) => ResultOK(x)'
    BY <1>1 DEF ResultOK
  <2>2. \A x \in Tasks : Unfinished(x)' => Unfinished(x)
    BY <1>1 DEF Unfinished
  <2>3. \A w \in Workers : pc[w] = "complete" => job[w] \in Tasks
    BY <1>0, JobFacts
  <2>4. /\ \A x \in Tasks : state'[x] = "Completed" => ResultOK(x)'
        /\ \A w \in Workers : pc'[w] = "complete" => ResultOK(job[w])'
    BY <1>0, <1>1, <2>3 DEF ResultInv, ResultOK
  <2>5. /\ \A w \in Workers : pc'[w] = "body" => job'[w] \in ran'
        /\ \A w \in Workers : pc'[w] = "check" => job'[w] \notin ran'
        /\ \A x \in Tasks : x \in Elems(queue') \/ state'[x] = "Unspawned" => x \notin ran'
    BY <1>0, <1>1 DEF ResultInv
  <2>6. \A x \in Tasks : delivered'[x] # {} => state'[x] = "Taken" /\ ~Unfinished(x)'
    BY <1>0, <1>1, <2>2 DEF ResultInv
  <2>7. AwaitReturnsResult'
    BY <1>0, <1>1 DEF ResultInv, AwaitReturnsResult
  <2> QED
    BY <2>4, <2>5, <2>6, <2>7 DEF ResultInv
<1>2. ASSUME NEW a \in Actors, NEW g \in Groups \cup {None}, NEW t \in Tasks,
             NEW m \in Tasks \cup {None}, Spawn(a, g, t, m)
      PROVE  ResultInv'
  <2>1. /\ state[t] = "Unspawned" /\ state'[t] = "Pending"
        /\ \A x \in Tasks : x # t => state'[x] = state[x]
        /\ UNCHANGED <<result, cancelled, pc, job, ran, delivered>>
    BY <1>0, <1>2 DEF Spawn, TypeOK, histVars
  <2>2. Elems(queue') = Elems(queue) \cup {t}
    BY <1>0, <1>2, ElemsAppend DEF Spawn, TypeOK
  <2>3. t \notin ran /\ delivered[t] = {}
    BY <1>0, <2>1 DEF ResultInv
  <2>4. \A x \in Tasks : ResultOK(x) => ResultOK(x)'
    BY <2>1 DEF ResultOK
  <2>5. \A x \in Tasks : x # t /\ Unfinished(x)' => Unfinished(x)
    BY <2>1, <2>2 DEF Unfinished
  <2>6. \A w \in Workers : pc[w] = "complete" => job[w] \in Tasks
    BY <1>0, JobFacts
  <2>7. /\ \A x \in Tasks : state'[x] = "Completed" => ResultOK(x)'
        /\ \A w \in Workers : pc'[w] = "complete" => ResultOK(job[w])'
    BY <1>0, <2>1, <2>4, <2>6 DEF ResultInv, ResultOK
  <2>8. /\ \A w \in Workers : pc'[w] = "body" => job'[w] \in ran'
        /\ \A w \in Workers : pc'[w] = "check" => job'[w] \notin ran'
        /\ \A x \in Tasks : x \in Elems(queue') \/ state'[x] = "Unspawned" => x \notin ran'
    BY <1>0, <2>1, <2>2, <2>3 DEF ResultInv
  <2>9. \A x \in Tasks : delivered'[x] # {} => state'[x] = "Taken" /\ ~Unfinished(x)'
    BY <1>0, <2>1, <2>3, <2>5 DEF ResultInv
  <2>10. AwaitReturnsResult'
    BY <1>0, <2>1 DEF ResultInv, AwaitReturnsResult
  <2> QED
    BY <2>7, <2>8, <2>9, <2>10 DEF ResultInv
<1>3. ASSUME NEW a \in Actors, Take(a)
      PROVE  ResultInv'
  <2> DEFINE t == Head(todo[a])
  <2>1. /\ t \in Tasks /\ t \in Elems(todo[a])
        /\ state[t] # "Pending" /\ state'[t] = "Taken"
        /\ \A x \in Tasks : x # t => state'[x] = state[x]
        /\ UNCHANGED <<result, cancelled, queue, pc, job, ran>>
    BY <1>0, <1>3, ElemsTail DEF Take, TypeOK, poolVars
  <2>2. CASE joining[a] # None
    <3>1. UNCHANGED delivered
      BY <1>3, <2>2 DEF Take
    <3> QED
      BY <1>1, <2>1, <3>1
  <2>3. CASE joining[a] = None
    <3>1. /\ delivered'[t] = delivered[t] \cup {<<a, TakeResult(t)>>}
          /\ \A x \in Tasks : x # t => delivered'[x] = delivered[x]
      BY <1>0, <1>3, <2>1, <2>3 DEF Take, TypeOK
    <3>2. state[t] = "Completed"
      BY <1>0, <2>1, <2>3 DEF WaitAlone, TypeOK, Fresh, Unreferenced
    <3>3. ResultOK(t) /\ ~Unfinished(t)
      BY <1>0, <2>1, <3>2 DEF ResultInv, NoResultYet, Unfinished
    <3>4. delivered'[t] = delivered[t] \cup {<<a, result[t]>>}
      BY <3>1, <3>2 DEF TakeResult
    <3> HIDE DEF t
    <3>5. \A x \in Tasks : (ResultOK(x) => ResultOK(x)') /\ (Unfinished(x)' => Unfinished(x))
      BY <2>1 DEF ResultOK, Unfinished
    <3>6. \A w \in Workers : pc[w] = "complete" => job[w] \in Tasks
      BY <1>0, JobFacts
    <3>7. /\ \A x \in Tasks : state'[x] = "Completed" => ResultOK(x)'
          /\ \A w \in Workers : pc'[w] = "complete" => ResultOK(job[w])'
      BY <1>0, <2>1, <3>5, <3>6 DEF ResultInv, ResultOK
    <3>8. /\ \A w \in Workers : pc'[w] = "body" => job'[w] \in ran'
          /\ \A w \in Workers : pc'[w] = "check" => job'[w] \notin ran'
          /\ \A x \in Tasks : x \in Elems(queue') \/ state'[x] = "Unspawned" => x \notin ran'
      BY <1>0, <2>1 DEF ResultInv
    <3>9. \A x \in Tasks : delivered'[x] # {} => state'[x] = "Taken" /\ ~Unfinished(x)'
      BY <1>0, <2>1, <3>1, <3>3, <3>5 DEF ResultInv
    <3>10. ASSUME NEW x \in Tasks, NEW b \in Actors, NEW r \in {"null", "buf"},
                  <<b, r>> \in delivered'[x]
           PROVE  IF x \in ran THEN r = BodyResult(x) ELSE r = "null" /\ cancelled[x]
      <4>1. CASE <<b, r>> \in delivered[x]
        BY <1>0, <4>1 DEF ResultInv, AwaitReturnsResult
      <4>2. CASE <<b, r>> \notin delivered[x]
        <5>1. x = t /\ <<b, r>> = <<a, result[t]>>
          BY <3>1, <3>4, <3>10, <4>2
        <5>2. x = t /\ r = result[t]
          BY <5>1
        <5> QED
          BY <3>3, <5>2 DEF ResultOK
      <4> QED
        BY <4>1, <4>2
    <3>11. AwaitReturnsResult'
      BY <2>1, <3>10 DEF AwaitReturnsResult
    <3> QED
      BY <3>7, <3>8, <3>9, <3>11 DEF ResultInv
  <2> QED
    BY <2>2, <2>3
<1>4. ASSUME NEW w \in Workers, pc[w] \in {"check", "body", "complete"}
      PROVE  /\ job[w] \in Tasks /\ job[w] \notin Elems(queue)
             /\ \A v \in Workers : v # w => job[v] # job[w]
             /\ state[job[w]] # "Unspawned" /\ state[job[w]] # "Completed"
             /\ Unfinished(job[w]) /\ delivered[job[w]] = {}
  <2>1. /\ job[w] \in Tasks /\ job[w] \notin Elems(queue)
        /\ \A v \in Workers : v # w => job[v] # job[w]
        /\ state[job[w]] # "Unspawned"
    BY <1>0, <1>4, JobFacts
  <2>2. Unfinished(job[w]) /\ state[job[w]] # "Completed"
    BY <1>0, <1>4, <2>1 DEF Unfinished, NoResultYet
  <2> QED
    BY <1>0, <2>1, <2>2 DEF ResultInv
\* The steps of a worker that change nothing but the record of its own task.
<1>5. ASSUME NEW w \in Workers, pc[w] \in {"check", "body", "complete"},
             UNCHANGED <<queue, cancelled, delivered, job>>,
             pc'[w] \in {"body", "complete", "notify"},
             \A v \in Workers : v # w => pc'[v] = pc[v],
             \A x \in Tasks : x # job[w] => /\ state'[x] = state[x]
                                            /\ result'[x] = result[x]
                                            /\ x \in ran' <=> x \in ran,
             state'[job[w]] # "Unspawned",
             state'[job[w]] = "Completed" \/ pc'[w] = "complete" => ResultOK(job[w])',
             pc'[w] = "body" => job[w] \in ran'
      PROVE  ResultInv'
  <2>1. /\ job[w] \in Tasks /\ job[w] \notin Elems(queue)
        /\ \A v \in Workers : v # w => job[v] # job[w]
        /\ delivered[job[w]] = {}
    BY <1>4, <1>5
  <2>2. \A x \in Tasks : x # job[w] => (ResultOK(x) => ResultOK(x)')
    BY <1>5 DEF ResultOK
  <2>3. \A x \in Tasks : x # job[w] => (Unfinished(x)' => Unfinished(x))
    BY <1>5 DEF Unfinished
  <2>4. \A v \in Workers : pc[v] \in {"check", "body", "complete"} => job[v] \in Tasks
    BY <1>4
  <2>5. \A x \in Tasks : state'[x] = "Completed" => ResultOK(x)'
    BY <1>0, <1>5, <2>2 DEF ResultInv
  <2>6. ASSUME NEW v \in Workers
        PROVE  /\ pc'[v] = "complete" => ResultOK(job[v])'
               /\ pc'[v] = "body" => job'[v] \in ran'
               /\ pc'[v] = "check" => job'[v] \notin ran'
    <3>0. job'[v] = job[v] /\ job'[w] = job[w]
      BY <1>5
    <3>1. CASE v = w
      BY <1>5, <3>0, <3>1
    <3>2. CASE v # w
      <4>1. pc'[v] = pc[v] /\ job[v] # job[w]
        BY <1>5, <2>1, <3>2
      <4>2. pc[v] = "complete" => ResultOK(job[v])'
        BY <1>0, <1>5, <2>4, <3>0, <4>1 DEF ResultInv, ResultOK
      <4>3. (pc[v] = "body" => job[v] \in ran') /\ (pc[v] = "check" => job[v] \notin ran')
        BY <1>0, <1>5, <2>4, <4>1 DEF ResultInv
      <4> QED
        BY <3>0, <4>1, <4>2, <4>3
    <3> QED
      BY <3>1, <3>2
  <2>7. \A x \in Tasks : x \in Elems(queue') \/ state'[x] = "Unspawned" => x \notin ran'
    BY <1>0, <1>5, <2>1 DEF ResultInv
  <2>8. \A x \in Tasks : delivered'[x] # {} => state'[x] = "Taken" /\ ~Unfinished(x)'
    BY <1>0, <1>5, <2>1, <2>3 DEF ResultInv
  <2>9. AwaitReturnsResult'
    BY <1>0, <1>5, <2>1 DEF ResultInv, AwaitReturnsResult
  <2> QED
    BY <2>5, <2>6, <2>7, <2>8, <2>9 DEF ResultInv
<1>6. ASSUME NEW w \in Workers, JobCheck(w)
      PROVE  ResultInv'
  <2>1. pc[w] = "check" /\ job[w] \in Tasks /\ job[w] \notin ran
        /\ state[job[w]] # "Unspawned" /\ state[job[w]] # "Completed"
    BY <1>0, <1>4, <1>6 DEF JobCheck, ResultInv
  <2>2. UNCHANGED <<queue, state, cancelled, delivered, job>>
        /\ \A v \in Workers : v # w => pc'[v] = pc[v]
    BY <1>0, <1>6 DEF JobCheck, TypeOK
  <2>3. CASE cancelled[job[w]]
    <3>1. /\ pc'[w] = "complete" /\ ran' = ran /\ result'[job[w]] = "null"
          /\ \A x \in Tasks : x # job[w] => result'[x] = result[x]
      BY <1>0, <1>6, <2>1, <2>3 DEF JobCheck, TypeOK
    <3>2. ResultOK(job[w])'
      BY <2>1, <2>2, <2>3, <3>1 DEF ResultOK
    <3> QED
      BY <1>5, <2>1, <2>2, <3>1, <3>2
  <2>4. CASE ~cancelled[job[w]]
    <3>1. pc'[w] = "body" /\ ran' = ran \cup {job[w]} /\ result' = result
      BY <1>0, <1>6, <2>4 DEF JobCheck, TypeOK
    <3> QED
      BY <1>5, <2>1, <2>2, <3>1
  <2> QED
    BY <2>3, <2>4
<1>7. ASSUME NEW w \in Workers, BodyReturn(w)
      PROVE  ResultInv'
  <2>1. pc[w] = "body" /\ job[w] \in Tasks /\ job[w] \in ran
        /\ state[job[w]] # "Unspawned" /\ state[job[w]] # "Completed"
    BY <1>0, <1>4, <1>7 DEF BodyReturn, ResultInv
  <2>2. /\ UNCHANGED <<queue, state, cancelled, delivered, job, ran>>
        /\ \A v \in Workers : v # w => pc'[v] = pc[v]
        /\ pc'[w] = "complete" /\ result'[job[w]] = BodyResult(job[w])
        /\ \A x \in Tasks : x # job[w] => result'[x] = result[x]
    BY <1>0, <1>7, <2>1 DEF BodyReturn, TypeOK, histVars
  <2>3. ResultOK(job[w])'
    BY <2>1, <2>2 DEF ResultOK
  <2> QED
    BY <1>5, <2>1, <2>2, <2>3
<1>8. ASSUME NEW w \in Workers, Complete(w)
      PROVE  ResultInv'
  <2>1. pc[w] = "complete" /\ job[w] \in Tasks /\ ResultOK(job[w])
    BY <1>0, <1>4, <1>8 DEF Complete, ResultInv
  <2>2. UNCHANGED <<queue, cancelled, delivered, ran, result>>
        /\ \A v \in Workers : v # w => pc'[v] = pc[v]
    BY <1>0, <1>8 DEF Complete, TypeOK, histVars
  <2>3. CASE state[job[w]] = "Taken"
    <3>1. pc'[w] = "idle" /\ UNCHANGED state
          /\ \A v \in Workers : v # w => job'[v] = job[v]
      BY <1>0, <1>8, <2>3 DEF Complete, TypeOK
    <3> QED
      BY <1>1, <2>2, <3>1
  <2>4. CASE state[job[w]] # "Taken"
    <3>1. /\ pc'[w] = "notify" /\ UNCHANGED job /\ state'[job[w]] = "Completed"
          /\ \A x \in Tasks : x # job[w] => state'[x] = state[x]
      BY <1>0, <1>8, <2>1, <2>4 DEF Complete, TypeOK
    <3>2. ResultOK(job[w])'
      BY <2>1, <2>2, <3>1 DEF ResultOK
    <3> QED
      BY <1>5, <2>1, <2>2, <3>1, <3>2
  <2> QED
    BY <2>3, <2>4
<1>9. ASSUME NEW w \in Workers, WorkerRecv(w)
      PROVE  ResultInv'
  <2>1. /\ Head(queue) \in Tasks /\ Head(queue) \in Elems(queue)
        /\ Elems(queue') \subseteq Elems(queue)
    BY <1>0, <1>9, ElemsTail DEF WorkerRecv, TypeOK
  <2>2. /\ UNCHANGED <<state, result, cancelled, delivered, ran>>
        /\ pc'[w] = "check" /\ job'[w] = Head(queue)
        /\ \A v \in Workers : v # w => pc'[v] = pc[v] /\ job'[v] = job[v]
    BY <1>0, <1>9 DEF WorkerRecv, TypeOK, taskVars, histVars
  <2>3. \A x \in Tasks : (ResultOK(x) => ResultOK(x)') /\ (Unfinished(x)' => Unfinished(x))
    BY <2>1, <2>2 DEF ResultOK, Unfinished
  <2>4. \A v \in Workers : pc[v] = "complete" => job[v] \in Tasks
    BY <1>4
  <2>5. /\ \A x \in Tasks : state'[x] = "Completed" => ResultOK(x)'
        /\ \A v \in Workers : pc'[v] = "complete" => ResultOK(job[v])'
    BY <1>0, <2>2, <2>4 DEF ResultInv, ResultOK
  <2>6. /\ \A v \in Workers : pc'[v] = "body" => job'[v] \in ran'
        /\ \A v \in Workers : pc'[v] = "check" => job'[v] \notin ran'
        /\ \A x \in Tasks : x \in Elems(queue') \/ state'[x] = "Unspawned" => x \notin ran'
    BY <1>0, <2>1, <2>2 DEF ResultInv
  <2>7. \A x \in Tasks : delivered'[x] # {} => state'[x] = "Taken" /\ ~Unfinished(x)'
    BY <1>0, <2>2, <2>3 DEF ResultInv
  <2>8. AwaitReturnsResult'
    BY <1>0, <2>2 DEF ResultInv, AwaitReturnsResult
  <2> QED
    BY <2>5, <2>6, <2>7, <2>8 DEF ResultInv
<1>10. ASSUME NEW w \in Workers, WorkerLock(w) \/ Notify(w)
       PROVE  ResultInv'
  <2>1. /\ UNCHANGED <<state, result, cancelled, delivered, ran, queue>>
        /\ pc'[w] \in {"idle", "recv"}
        /\ \A v \in Workers : v # w => pc'[v] = pc[v] /\ job'[v] = job[v]
    BY <1>0, <1>10 DEF WorkerLock, Notify, TypeOK, taskVars, histVars
  <2> QED
    BY <1>1, <2>1
<1>11. ASSUME NEW a \in Actors, Call(a)
       PROVE  ResultInv'
  <2>1. ASSUME NEW t \in Tasks, Cancel(a, t) \/ CancelAndAwait(a, t)
        PROVE  ResultInv'
    <3>1. /\ UNCHANGED <<state, result, delivered, ran, queue, pc, job>>
          /\ \A x \in Tasks : cancelled[x] => cancelled'[x]
      BY <1>0, <2>1 DEF Cancel, CancelAndAwait, TypeOK, poolVars, histVars
    <3> QED
      BY <1>1, <3>1
  <2>2. ASSUME NEW t \in Tasks, Detach(a, t)
        PROVE  ResultInv'
    <3>1. /\ UNCHANGED <<result, cancelled, delivered, ran, queue, pc, job>>
          /\ \A x \in Tasks : state'[x] \in {state[x], "Taken"}
      BY <1>0, <2>2 DEF Detach, TypeOK, poolVars
    <3> QED
      BY <1>1, <3>1
  <2>4. ASSUME NEW t \in Tasks, Await(a, t)
        PROVE  ResultInv'
    BY <1>1, <2>4 DEF Await, taskVars, poolVars, histVars
  <2>5. ASSUME NEW g \in Groups, GroupOpen(a, g)
        PROVE  ResultInv'
    BY <1>1, <2>5 DEF GroupOpen, taskVars, poolVars, histVars
  <2>6. ASSUME EarlyExit(a)
        PROVE  ResultInv'
    BY <1>1, <2>6 DEF EarlyExit, taskVars, poolVars, histVars
  <2> QED
    BY <1>2, <1>11, <2>1, <2>2, <2>4, <2>5, <2>6 DEF Call
<1>12. ASSUME NEW a \in Actors, JoinStart(a) \/ Wait(a) \/ SpuriousWake(a)
       PROVE  ResultInv'
  <2>1. ASSUME JoinStart(a) \/ JoinEnd(a) \/ WaitSleep(a) \/ SpuriousWake(a)
        PROVE  ResultInv'
    BY <1>1, <2>1
       DEF JoinStart, JoinEnd, WaitSleep, SpuriousWake, taskVars, poolVars, histVars
  <2> QED
    BY <1>3, <1>12, <2>1 DEF Wait
<1>13. ASSUME NEW w \in Workers, Worker(w)
       PROVE  ResultInv'
  BY <1>6, <1>7, <1>8, <1>9, <1>10, <1>13 DEF Worker
<1>14. CASE UNCHANGED vars
  BY <1>1, <1>14 DEF vars, taskVars, poolVars, histVars
<1> QED
  BY <1>11, <1>12, <1>13, <1>14 DEF Next

\* While a handle stays with the actor that spawned the task, an await
\* returns what the task really did: what the body returned if it ran (the
\* buffer, or null for a body without a result), and null for a task that was
\* cancelled before a worker looked at it.  No interleaving of cancel, join,
\* early exit and the pool's workers mixes the two up.  With moved handles the join of the spawner's scope may take the
\* result before the awaiting task does, and the await returns null.
THEOREM AwaitsReturn == ~MovesHandles => (Spec => []AwaitReturnsResult)
<1> SUFFICES ASSUME ~MovesHandles PROVE Spec => []AwaitReturnsResult
  OBVIOUS
<1>1. ReturnInv /\ [Next]_vars => ReturnInv'
  <2> SUFFICES ASSUME ReturnInv, [Next]_vars PROVE ReturnInv'
    OBVIOUS
  <2>1. OwnInv'
    BY JobInduction, ScopeStep, OwnedStep, WakeupStep DEF OwnInv, ReturnInv
  <2>2. ChildGroup' /\ WaitAlone'
    BY WaitAloneStep
  <2>3. ResultInv'
    BY ResultStep
  <2> QED
    BY <2>1, <2>2, <2>3 DEF ReturnInv
<1>2. ReturnInv => AwaitReturnsResult
  BY DEF ReturnInv, ResultInv
<1> QED
  BY InitReturn, <1>1, <1>2, PTL DEF Spec

=============================================================================
