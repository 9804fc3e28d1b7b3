--------------------------- MODULE CascadeSortProofs ---------------------------
(***************************************************************************)
(* Proofs about the source graph a build works on: the depth-first search  *)
(* of `topo_or_cycles` orders the modules and finds import cycles.         *)
(***************************************************************************)
EXTENDS CascadeProofs

-----------------------------------------------------------------------------
(* The depth-first search. *)

Sorting == phase \in {"sort", "report", "done"}

\* Nothing is left of an earlier search when one starts.
Unsorted ==
    ~Sorting => stack = <<>> /\ order = <<>> /\ cycles = {} /\ unreported = {}

\* The frames of the stack are a path: the last child a frame looked at is
\* the node of the frame above.
StackIsPath ==
    \A k \in 1 .. Len(stack) :
        /\ stack[k].next <= Len(adj[stack[k].node]) + 1
        /\ k < Len(stack) =>
              /\ stack[k].next > 1
              /\ adj[stack[k].node][stack[k].next - 1] = stack[k + 1].node

\* The gray nodes are those of the stack, each once.
StackIsGray ==
    /\ \A j, k \in 1 .. Len(stack) : stack[j].node = stack[k].node => j = k
    /\ \A k \in 1 .. Len(stack) : color[stack[k].node] = 1

\* The black nodes are those of the order, each once.
OrderIsBlack ==
    /\ \A j, k \in 1 .. Len(order) : order[j] = order[k] => j = k
    /\ \A i \in Ids : color[i] = 2 <=> \E k \in 1 .. Len(order) : order[k] = i

\* Without a cycle, what a frame has looked at is black, or is the frame above;
\* and what a black node imports turned black before it.
LookedAt ==
    cycles = {} =>
        /\ \A k \in 1 .. Len(stack) : \A m \in 1 .. stack[k].next - 1 :
              LET c == adj[stack[k].node][m]
              IN  color[c] = 2 \/ (k < Len(stack) /\ c = stack[k + 1].node)
        /\ \A k \in 1 .. Len(order) : \A m \in 1 .. Len(adj[order[k]]) :
              \E j \in 1 .. k - 1 : order[j] = adj[order[k]][m]

CyclesAreCycles == \A c \in cycles : IsCycle(c)

\* When the search is over, every node is black and a cycle that is not to be
\* reported any more has been.
SearchOver ==
    phase \in {"report", "done"} =>
        /\ stack = <<>>
        /\ \A i \in Ids : color[i] # 0
        /\ topo = [k \in 1 .. Len(order) |-> order[Len(order) + 1 - k]]
        /\ Silent("cycle") => unreported = cycles
        /\ phase = "done" => unreported = {}

SortInv ==
    /\ Unsorted
    /\ Sorting => StackIsPath /\ StackIsGray /\ OrderIsBlack /\ LookedAt /\ CyclesAreCycles
    /\ SearchOver

\* What the search knows of the top of its stack.
LEMMA TopFacts ==
    ASSUME GraphType, phase = "sort", stack # <<>>
    PROVE  /\ stack \in Seq(Frames) /\ Len(stack) \in Nat /\ Len(stack) > 0
           /\ \A k \in 1 .. Len(stack) : stack[k].node \in Ids /\ stack[k].next \in Nat \ {0}
           /\ Top = stack[Len(stack)] /\ Top.node \in Ids /\ Top.next \in Nat \ {0}
           /\ Below \in Seq(Frames) /\ Len(Below) = Len(stack) - 1
           /\ \A k \in 1 .. Len(stack) - 1 : Below[k] = stack[k]
           /\ color \in [Ids -> 0 .. 2] /\ adj \in [Ids -> Seq(Ids)]
<1>1. stack \in Seq(Frames) /\ Len(stack) \in Nat /\ Len(stack) > 0
      /\ color \in [Ids -> 0 .. 2] /\ adj \in [Ids -> Seq(Ids)]
  BY DEF GraphType, Frames
<1>2. \A k \in 1 .. Len(stack) : stack[k] \in Frames
  BY <1>1, ElementOf
<1>3. \A k \in 1 .. Len(stack) : stack[k].node \in Ids /\ stack[k].next \in Nat \ {0}
  BY <1>2 DEF Frames
<1>4. /\ Below \in Seq(Frames) /\ Len(Below) = Len(stack) - 1
      /\ \A k \in 1 .. Len(stack) - 1 : Below[k] = stack[k]
  BY <1>1, ButLast DEF Below
<1> QED
  BY <1>1, <1>3, <1>4 DEF Top

\* Advancing changes the counter of the top frame only.
LEMMA AdvanceFacts ==
    ASSUME GraphType, phase = "sort", stack # <<>>, HasChild
    PROVE  /\ Child \in Ids /\ Top.next \in 1 .. Len(adj[Top.node])
           /\ Advance \in Seq(Frames) /\ Len(Advance) = Len(stack)
           /\ \A k \in 1 .. Len(stack) - 1 : Advance[k] = stack[k]
           /\ Advance[Len(stack)].node = Top.node
           /\ Advance[Len(stack)].next = Top.next + 1
<1>1. /\ Top.node \in Ids /\ Top.next \in Nat \ {0} /\ adj \in [Ids -> Seq(Ids)]
      /\ Below \in Seq(Frames) /\ Len(Below) = Len(stack) - 1 /\ Len(stack) \in Nat /\ Len(stack) > 0
      /\ \A k \in 1 .. Len(stack) - 1 : Below[k] = stack[k]
  BY TopFacts
<1>2. Top.next \in 1 .. Len(adj[Top.node])
  BY <1>1 DEF HasChild
<1>3. Child \in Ids
  BY <1>1, <1>2 DEF Child
<1> DEFINE f == [node |-> Top.node, next |-> Top.next + 1]
<1>4. f \in Frames /\ f.node = Top.node /\ f.next = Top.next + 1
  BY <1>1 DEF Frames
<1>5. Advance = Append(Below, f)
  BY DEF Advance
<1> HIDE DEF f
<1>6. /\ Advance \in Seq(Frames) /\ Len(Advance) = Len(Below) + 1
      /\ \A k \in 1 .. Len(Below) : Advance[k] = Below[k]
      /\ Advance[Len(Below) + 1] = f
  BY <1>1, <1>4, <1>5
<1>7. Len(Below) + 1 = Len(stack)
  BY <1>1
<1> QED
  BY <1>1, <1>2, <1>3, <1>4, <1>6, <1>7

\* A rotated cycle is a cycle: normalize_cycle keeps what is reported true.
LEMMA RotationIsCycle ==
    ASSUME NEW c \in Seq(Ids), NEW n \in Seq(Ids), IsCycle(c), NEW m \in 1 .. Len(c),
           Len(n) = Len(c),
           \A k \in 1 .. Len(c) :
              n[k] = IF m + k - 1 <= Len(c) THEN c[m + k - 1] ELSE c[m + k - 1 - Len(c)]
    PROVE  IsCycle(n)
<1> DEFINE L == Len(c)
<1>0. L \in Nat /\ L > 0 /\ m \in 1 .. L
  BY DEF IsCycle
<1>1. /\ \A k \in 1 .. L - 1 : EdgeTo(c[k], c[k + 1])
      /\ EdgeTo(c[L], c[1])
  BY DEF IsCycle
<1>2. \A k \in 1 .. L :
         n[k] = IF m + k - 1 <= L THEN c[m + k - 1] ELSE c[m + k - 1 - L]
  OBVIOUS
<1> HIDE DEF L
<1>3. ASSUME NEW k \in 1 .. L - 1
      PROVE  EdgeTo(n[k], n[k + 1])
  <2>0. k \in 1 .. L /\ k + 1 \in 1 .. L
    BY <1>0
  <2>1. CASE m + k <= L
    <3>1. n[k] = c[m + k - 1] /\ n[k + 1] = c[m + k]
      <4>1. m + k - 1 <= L /\ m + (k + 1) - 1 <= L /\ m + (k + 1) - 1 = m + k
        BY <1>0, <2>0, <2>1
      <4> QED BY <1>2, <2>0, <4>1
    <3>2. m + k - 1 \in 1 .. L - 1 /\ (m + k - 1) + 1 = m + k
      BY <1>0, <2>1
    <3>3. EdgeTo(c[m + k - 1], c[(m + k - 1) + 1])
      BY <1>1, <3>2
    <3> QED BY <3>1, <3>2, <3>3
  <2>2. CASE m + k - 1 = L
    <3>1. n[k] = c[L] /\ n[k + 1] = c[1]
      <4>1. m + k - 1 <= L /\ ~(m + (k + 1) - 1 <= L) /\ m + (k + 1) - 1 - L = 1
        BY <1>0, <2>0, <2>2
      <4> QED BY <1>2, <2>0, <2>2, <4>1
    <3> QED BY <1>1, <3>1
  <2>3. CASE m + k - 1 > L
    <3>1. n[k] = c[m + k - 1 - L] /\ n[k + 1] = c[m + k - L]
      <4>1. /\ ~(m + k - 1 <= L) /\ ~(m + (k + 1) - 1 <= L)
            /\ m + (k + 1) - 1 - L = m + k - L
        BY <1>0, <2>0, <2>3
      <4> QED BY <1>2, <2>0, <4>1
    <3>2. m + k - 1 - L \in 1 .. L - 1 /\ (m + k - 1 - L) + 1 = m + k - L
      BY <1>0, <2>3
    <3>3. EdgeTo(c[m + k - 1 - L], c[(m + k - 1 - L) + 1])
      BY <1>1, <3>2
    <3> QED BY <3>1, <3>2, <3>3
  <2> QED
    BY <1>0, <2>1, <2>2, <2>3
<1>4. EdgeTo(n[L], n[1])
  <2>0. L \in 1 .. L /\ 1 \in 1 .. L
    BY <1>0
  <2>1. n[1] = c[m]
    <3>1. m + 1 - 1 <= L /\ m + 1 - 1 = m
      BY <1>0
    <3> QED BY <1>2, <2>0, <3>1
  <2>2. CASE m = 1
    <3>1. n[L] = c[L]
      <4>1. m + L - 1 <= L /\ m + L - 1 = L
        BY <1>0, <2>2
      <4> QED BY <1>2, <2>0, <4>1
    <3> QED BY <1>1, <2>1, <2>2, <3>1
  <2>3. CASE m # 1
    <3>1. n[L] = c[m - 1]
      <4>1. ~(m + L - 1 <= L) /\ m + L - 1 - L = m - 1
        BY <1>0, <2>3
      <4> QED BY <1>2, <2>0, <4>1
    <3>2. m - 1 \in 1 .. L - 1 /\ (m - 1) + 1 = m
      BY <1>0, <2>3
    <3>3. EdgeTo(c[m - 1], c[(m - 1) + 1])
      BY <1>1, <3>2
    <3> QED BY <2>1, <3>1, <3>2, <3>3
  <2> QED BY <2>2, <2>3
<1>5. Len(n) = L
  BY DEF L
<1> QED
  BY <1>0, <1>3, <1>4, <1>5 DEF IsCycle

\* A gray child closes a cycle: what extract_cycle finds and normalize_cycle
\* rotates are modules that import each other in turn.
LEMMA CycleFound ==
    ASSUME GraphType, GrayOnStack, StackIsPath, phase = "sort", stack # <<>>, HasChild,
           color[Child] = 1
    PROVE  IsCycle(normalize_cycle(extract_cycle(Child)))
<1>1. /\ stack \in Seq(Frames) /\ Len(stack) \in Nat /\ Len(stack) > 0
      /\ \A k \in 1 .. Len(stack) : stack[k].node \in Ids /\ stack[k].next \in Nat \ {0}
      /\ Top = stack[Len(stack)] /\ adj \in [Ids -> Seq(Ids)]
  BY TopFacts
<1>2. Child \in Ids /\ Top.next \in 1 .. Len(adj[Top.node]) /\ Child = adj[Top.node][Top.next]
  BY AdvanceFacts DEF Child
<1>3. \E k \in 1 .. Len(stack) : stack[k].node = Child
  BY <1>2 DEF GrayOnStack
<1> DEFINE c == extract_cycle(Child)
<1>4. PICK b \in 1 .. Len(stack) :
         /\ stack[b].node = Child
         /\ c = [k \in 1 .. Len(stack) - b + 1 |-> stack[b + k - 1].node]
         /\ c \in Seq(Ids) /\ Len(c) = Len(stack) - b + 1
  BY <1>1, <1>3, ExtractShape
<1> HIDE DEF c
<1>5. \A k \in 1 .. Len(c) : c[k] = stack[b + k - 1].node
  BY <1>4
<1>6. ASSUME NEW j \in 1 .. Len(stack) - 1
      PROVE  EdgeTo(stack[j].node, stack[j + 1].node)
  <2>1. /\ stack[j].next <= Len(adj[stack[j].node]) + 1 /\ stack[j].next > 1
        /\ adj[stack[j].node][stack[j].next - 1] = stack[j + 1].node
    <3>1. j \in 1 .. Len(stack) /\ j < Len(stack)
      BY <1>1
    <3> QED BY <3>1 DEF StackIsPath
  <2>2. stack[j].node \in Ids /\ stack[j].next \in Nat /\ Len(adj[stack[j].node]) \in Nat
    BY <1>1
  <2>3. stack[j].next - 1 \in 1 .. Len(adj[stack[j].node])
    BY <2>1, <2>2
  <2> QED BY <2>1, <2>3 DEF EdgeTo
<1>7. IsCycle(c)
  <2>1. Len(c) \in Nat /\ Len(c) > 0
    BY <1>1, <1>4
  <2>2. ASSUME NEW k \in 1 .. Len(c) - 1
        PROVE  EdgeTo(c[k], c[k + 1])
    <3>1. /\ b + k - 1 \in 1 .. Len(stack) - 1 /\ (b + k - 1) + 1 = b + (k + 1) - 1
          /\ k \in 1 .. Len(c) /\ k + 1 \in 1 .. Len(c)
      BY <1>1, <1>4
    <3>2. EdgeTo(stack[b + k - 1].node, stack[(b + k - 1) + 1].node)
      BY <1>6, <3>1
    <3> QED BY <1>5, <3>1, <3>2
  <2>3. c[1] = Child /\ c[Len(c)] = Top.node
    <3>1. 1 \in 1 .. Len(c) /\ Len(c) \in 1 .. Len(c) /\ b + 1 - 1 = b /\ b + Len(c) - 1 = Len(stack)
      BY <1>1, <1>4, <2>1
    <3> QED BY <1>1, <1>4, <1>5, <3>1
  <2>4. EdgeTo(Top.node, Child)
    BY <1>2 DEF EdgeTo
  <2> QED
    BY <2>1, <2>2, <2>3, <2>4 DEF IsCycle
<1>8. mods \in Seq([file: Paths, name: Names]) /\ Len(c) > 0
  BY <1>7 DEF GraphType, IsCycle
<1>9. PICK m \in 1 .. Len(c) :
         /\ normalize_cycle(c) \in Seq(Ids)
         /\ Len(normalize_cycle(c)) = Len(c)
         /\ \A k \in 1 .. Len(c) : normalize_cycle(c)[k] =
               IF m + k - 1 <= Len(c) THEN c[m + k - 1] ELSE c[m + k - 1 - Len(c)]
  BY <1>4, <1>8, NormalizeShape
<1>10. IsCycle(normalize_cycle(c))
  BY <1>4, <1>7, <1>9, RotationIsCycle
<1> QED
  BY <1>10 DEF c

\* The invariant of the search only depends on the graph and on what was
\* reported: a later report leaves it alone.
LEMMA SortFrame ==
    ASSUME SortInv, raised \subseteq raised',
           UNCHANGED <<mods, adj, color, stack, order, topo, cycles, unreported, phase, pass>>
    PROVE  SortInv'
<1>1. Silent("cycle")' => Silent("cycle")
  BY DEF Silent
<1>2. Unsorted' /\ SearchOver'
  BY <1>1 DEF SortInv, Unsorted, Sorting, SearchOver, Ids
<1>3. Sorting' => StackIsPath' /\ StackIsGray' /\ OrderIsBlack' /\ LookedAt' /\ CyclesAreCycles'
  <2>1. Sorting' <=> Sorting
    BY DEF Sorting
  <2>2. StackIsPath => StackIsPath'
    BY DEF StackIsPath
  <2>3. StackIsGray => StackIsGray'
    BY DEF StackIsGray
  <2>4. OrderIsBlack => OrderIsBlack'
    BY DEF OrderIsBlack, Ids
  <2>5. LookedAt => LookedAt'
    BY DEF LookedAt
  <2>6. CyclesAreCycles => CyclesAreCycles'
    BY DEF CyclesAreCycles, IsCycle, EdgeTo
  <2> QED BY <2>1, <2>2, <2>3, <2>4, <2>5, <2>6 DEF SortInv
<1> QED
  BY <1>2, <1>3 DEF SortInv

\* StartSort finds nothing gray or black.
LEMMA StartSortInv ==
    ASSUME GraphType, SortInv, StartSort
    PROVE  SortInv'
<1>1. /\ stack' = <<>> /\ order' = <<>> /\ cycles' = {} /\ phase' = "sort" /\ mods' = mods
      /\ color' = [i \in Ids |-> 0]
  BY DEF StartSort, SortInv, Unsorted, Sorting, loadVars
<1>2. StackIsPath' /\ StackIsGray' /\ OrderIsBlack' /\ LookedAt' /\ CyclesAreCycles'
  BY <1>1 DEF StackIsPath, StackIsGray, OrderIsBlack, LookedAt, CyclesAreCycles, Ids
<1> QED
  BY <1>1, <1>2 DEF SortInv, Unsorted, Sorting, SearchOver

\* SortRoot pushes one white node on the empty stack.
LEMMA SortRootInv ==
    ASSUME GraphType, GrayOnStack, SortInv, SortRoot
    PROVE  SortInv'
<1>1. PICK r \in Ids : /\ color[r] = 0 /\ color' = [color EXCEPT ![r] = 1]
                       /\ stack' = <<[node |-> r, next |-> 1]>>
  BY DEF SortRoot
<1>2. /\ phase = "sort" /\ phase' = "sort" /\ order' = order /\ cycles' = cycles
      /\ mods' = mods /\ adj' = adj
  BY DEF SortRoot, loadVars
<1>3. /\ color \in [Ids -> 0 .. 2] /\ adj \in [Ids -> Seq(Ids)] /\ Ids' = Ids
      /\ order \in Seq(Ids)
  BY <1>2 DEF GraphType, Ids
<1>4. /\ StackIsPath /\ StackIsGray /\ OrderIsBlack /\ LookedAt /\ CyclesAreCycles
  BY <1>2 DEF SortInv, Sorting
<1>5. Len(stack') = 1 /\ stack'[1].node = r /\ stack'[1].next = 1 /\ Len(adj[r]) \in Nat
  BY <1>1, <1>3
<1>6. StackIsPath' /\ StackIsGray'
  BY <1>1, <1>2, <1>3, <1>5 DEF StackIsPath, StackIsGray
<1>7. \A i \in Ids : color'[i] = 2 <=> color[i] = 2
  BY <1>1, <1>3
<1>8. OrderIsBlack'
  BY <1>2, <1>3, <1>4, <1>7 DEF OrderIsBlack
<1>9. LookedAt'
  <2>1. \A k \in 1 .. Len(stack') : \A m \in 1 .. stack'[k].next - 1 : FALSE
    BY <1>5
  <2> QED BY <1>2, <1>4, <2>1 DEF LookedAt
<1>10. CyclesAreCycles'
  BY <1>2, <1>4 DEF CyclesAreCycles, IsCycle, EdgeTo
<1> QED
  BY <1>2, <1>6, <1>8, <1>9, <1>10 DEF SortInv, Unsorted, Sorting, SearchOver

\* Examine looks at one child of the top frame.
LEMMA ExamineInv ==
    ASSUME GraphType, GrayOnStack, SortInv, Examine
    PROVE  SortInv'
<1>1. /\ phase = "sort" /\ phase' = "sort" /\ stack # <<>> /\ HasChild /\ order' = order
      /\ mods' = mods /\ adj' = adj /\ Ids' = Ids
  BY DEF Examine, loadVars, Ids
<1>2. StackIsPath /\ StackIsGray /\ OrderIsBlack /\ LookedAt /\ CyclesAreCycles
  BY <1>1 DEF SortInv, Sorting
<1>3. /\ Len(stack) \in Nat /\ Len(stack) > 0
      /\ \A k \in 1 .. Len(stack) : stack[k].node \in Ids /\ stack[k].next \in Nat \ {0}
      /\ Top = stack[Len(stack)]
      /\ color \in [Ids -> 0 .. 2] /\ adj \in [Ids -> Seq(Ids)]
  BY <1>1, TopFacts
<1>4. /\ Child \in Ids /\ Top.next \in 1 .. Len(adj[Top.node])
      /\ Advance \in Seq(Frames) /\ Len(Advance) = Len(stack)
      /\ \A k \in 1 .. Len(stack) - 1 : Advance[k] = stack[k]
      /\ Advance[Len(stack)].node = Top.node
      /\ Advance[Len(stack)].next = Top.next + 1
  BY <1>1, AdvanceFacts
<1> DEFINE L == Len(stack)
<1>a. L \in Nat /\ L > 0 /\ L \in 1 .. L /\ \A k \in 1 .. L : k = L \/ k \in 1 .. L - 1
  BY <1>3
<1>5. ASSUME NEW k \in 1 .. L
      PROVE  Advance[k].node = stack[k].node
  <2>1. CASE k = L
    BY <1>3, <1>4, <2>1
  <2>2. CASE k \in 1 .. L - 1
    BY <1>4, <2>2
  <2> QED BY <1>a, <2>1, <2>2
<1>b. Child = adj[Top.node][Top.next] /\ Top.node = stack[L].node /\ Top.next = stack[L].next
  BY <1>3 DEF Child
<1> HIDE DEF L
\* The frames that stay, whatever is pushed on them.
<1>6. ASSUME \A k \in 1 .. L : stack'[k] = Advance[k]
      PROVE  /\ \A k \in 1 .. L : stack'[k].node = stack[k].node
             /\ \A k \in 1 .. L - 1 : stack'[k].next = stack[k].next
             /\ stack'[L].next = Top.next + 1
             /\ \A k \in 1 .. L : stack'[k].next <= Len(adj[stack'[k].node]) + 1
             /\ \A k \in 1 .. L - 1 :
                   /\ stack'[k].next > 1
                   /\ adj[stack'[k].node][stack'[k].next - 1] = stack'[k + 1].node
             /\ adj[stack'[L].node][stack'[L].next - 1] = Child /\ stack'[L].next > 1
  <2>1. /\ \A k \in 1 .. L : stack'[k].node = stack[k].node
        /\ \A k \in 1 .. L - 1 : stack'[k].next = stack[k].next
        /\ stack'[L].next = Top.next + 1
    <3>1. \A k \in 1 .. L : stack'[k].node = stack[k].node
      BY <1>5, <1>6
    <3>2. stack'[L].next = Top.next + 1
      BY <1>4, <1>6, <1>a DEF L
    <3>3. ASSUME NEW k \in 1 .. L - 1
          PROVE  stack'[k].next = stack[k].next
      <4>1. k \in 1 .. L
        BY <1>a
      <4> QED BY <1>4, <1>6, <4>1 DEF L
    <3> QED BY <3>1, <3>2, <3>3
  <2>2. Top.next \in Nat \ {0} /\ Len(adj[Top.node]) \in Nat /\ Top.next <= Len(adj[Top.node])
    BY <1>3, <1>4, <1>b, <1>a DEF L
  <2>3. \A k \in 1 .. L : stack'[k].next <= Len(adj[stack'[k].node]) + 1
    <3> SUFFICES ASSUME NEW k \in 1 .. L
                 PROVE  stack'[k].next <= Len(adj[stack'[k].node]) + 1
      OBVIOUS
    <3>1. CASE k = L
      BY <1>a, <1>b, <2>1, <2>2, <3>1
    <3>2. CASE k \in 1 .. L - 1
      BY <1>2, <2>1, <3>2 DEF StackIsPath, L
    <3> QED BY <1>a, <3>1, <3>2
  <2>4. ASSUME NEW k \in 1 .. L - 1
        PROVE  /\ stack'[k].next > 1
               /\ adj[stack'[k].node][stack'[k].next - 1] = stack'[k + 1].node
    <3>1. k \in 1 .. L /\ k < L /\ k + 1 \in 1 .. L
      BY <1>a
    <3>2. stack[k].next > 1 /\ adj[stack[k].node][stack[k].next - 1] = stack[k + 1].node
      BY <1>2, <3>1 DEF StackIsPath, L
    <3> QED BY <2>1, <3>1, <3>2
  <2>5. (Top.next + 1) - 1 = Top.next /\ Top.next + 1 > 1
    BY <2>2
  <2>6. adj[stack'[L].node][stack'[L].next - 1] = Child /\ stack'[L].next > 1
    BY <1>a, <1>b, <2>1, <2>5
  <2> QED BY <2>1, <2>3, <2>4, <2>6
<1>7. cycles = {} => /\ \A m \in 1 .. Top.next - 1 : color[adj[Top.node][m]] = 2
                     /\ \A k \in 1 .. L - 1 : \A m \in 1 .. stack[k].next - 1 :
                           color[adj[stack[k].node][m]] = 2 \/ adj[stack[k].node][m] = stack[k + 1].node
  BY <1>2, <1>a, <1>b DEF LookedAt, L
<1>8. CASE /\ color[Child] = 0 /\ color' = [color EXCEPT ![Child] = 1]
           /\ stack' = Append(Advance, [node |-> Child, next |-> 1]) /\ cycles' = cycles
  <2>1. /\ Len(stack') = L + 1 /\ stack'[L + 1].node = Child /\ stack'[L + 1].next = 1
        /\ \A k \in 1 .. L : stack'[k] = Advance[k]
    <3>1. [node |-> Child, next |-> 1] \in Frames
      BY <1>4 DEF Frames
    <3>2. Len(stack') = Len(Advance) + 1 /\ stack'[Len(Advance) + 1] = [node |-> Child, next |-> 1]
          /\ \A k \in 1 .. Len(Advance) : stack'[k] = Advance[k]
      BY <1>4, <1>8, <3>1
    <3> QED BY <1>4, <3>2 DEF L
  <2>2. \A i \in Ids : /\ color'[i] = 2 <=> color[i] = 2
                       /\ color[i] = 1 => color'[i] = 1
    BY <1>3, <1>4, <1>8
  <2>3. \A k \in 1 .. L + 1 : k = L + 1 \/ k \in 1 .. L
    BY <1>a
  <2>4. StackIsPath'
    <3>1. 1 <= Len(adj[Child]) + 1
      BY <1>3, <1>4
    <3>2. ASSUME NEW k \in 1 .. L + 1
          PROVE  stack'[k].next <= Len(adj[stack'[k].node]) + 1
      BY <1>6, <2>1, <2>3, <3>1
    <3>3. ASSUME NEW k \in 1 .. L + 1, k < L + 1
          PROVE  /\ stack'[k].next > 1
                 /\ adj[stack'[k].node][stack'[k].next - 1] = stack'[k + 1].node
      <4>1. CASE k = L
        BY <1>6, <2>1, <4>1
      <4>2. CASE k # L
        <5>1. k \in 1 .. L - 1
          BY <1>a, <3>3, <4>2
        <5> QED BY <1>6, <2>1, <5>1
      <4> QED BY <4>1, <4>2
    <3> QED BY <1>1, <2>1, <3>2, <3>3 DEF StackIsPath
  <2>5. StackIsGray'
    <3>1. \A k \in 1 .. L : stack'[k].node = stack[k].node /\ stack[k].node # Child
      BY <1>2, <1>6, <1>8, <2>1 DEF StackIsGray, L
    <3>2. \A k \in 1 .. L : color'[stack'[k].node] = 1
      BY <1>2, <1>3, <2>2, <3>1 DEF StackIsGray, L
    <3>3. color'[Child] = 1
      BY <1>3, <1>4, <1>8
    <3>4. \A j, k \in 1 .. L : stack'[j].node = stack'[k].node => j = k
      BY <1>2, <3>1 DEF StackIsGray, L
    <3> QED BY <2>1, <2>3, <3>1, <3>2, <3>3, <3>4 DEF StackIsGray
  <2>6. OrderIsBlack'
    BY <1>1, <1>2, <2>2 DEF OrderIsBlack
  <2>7. LookedAt'
    <3> SUFFICES ASSUME cycles = {} PROVE LookedAt'
      BY <1>8 DEF LookedAt
    <3>1. ASSUME NEW k \in 1 .. L + 1, NEW m \in 1 .. stack'[k].next - 1
          PROVE  \/ color'[adj[stack'[k].node][m]] = 2
                 \/ k < L + 1 /\ adj[stack'[k].node][m] = stack'[k + 1].node
      <4>1. CASE k = L + 1
        BY <2>1, <3>1, <4>1
      <4>2. CASE k = L
        <5>1. m \in 1 .. (Top.next + 1) - 1 /\ Top.next \in Nat /\ stack'[L].node = Top.node
          BY <1>3, <1>6, <1>a, <1>b, <2>1, <4>2 DEF L
        <5>2. CASE m = Top.next
          BY <1>a, <1>b, <2>1, <4>2, <5>1, <5>2
        <5>3. CASE m # Top.next
          <6>1. m \in 1 .. Top.next - 1
            BY <5>1, <5>3
          <6>2. color[adj[Top.node][m]] = 2
            BY <1>7, <6>1
          <6>3. adj[Top.node][m] \in Ids
            <7>1. m \in 1 .. Len(adj[Top.node]) /\ Top.node \in Ids
              BY <1>3, <1>4, <1>a, <1>b, <6>1 DEF L
            <7> QED BY <1>3, <7>1
          <6> QED BY <2>2, <4>2, <5>1, <6>2, <6>3
        <5> QED BY <5>2, <5>3
      <4>3. CASE k \in 1 .. L - 1
        <5>1. k \in 1 .. L /\ k + 1 \in 1 .. L /\ k < L + 1
          BY <1>a, <4>3
        <5>2. m \in 1 .. stack[k].next - 1 /\ stack'[k].node = stack[k].node
              /\ stack'[k + 1].node = stack[k + 1].node
          BY <1>6, <2>1, <4>3, <5>1
        <5>3. adj[stack[k].node][m] \in Ids
          <6>1. /\ stack[k].node \in Ids /\ stack[k].next \in Nat
                /\ stack[k].next <= Len(adj[stack[k].node]) + 1 /\ Len(adj[stack[k].node]) \in Nat
            BY <1>2, <1>3, <5>1 DEF StackIsPath, L
          <6>2. m \in 1 .. Len(adj[stack[k].node])
            BY <5>2, <6>1
          <6> QED BY <1>3, <6>1, <6>2
        <5> QED BY <1>7, <2>2, <4>3, <5>1, <5>2, <5>3
      <4> QED BY <1>a, <2>3, <4>1, <4>2, <4>3
    <3> QED BY <1>1, <1>2, <2>1, <3>1 DEF LookedAt
  <2>8. CyclesAreCycles'
    BY <1>1, <1>2, <1>8 DEF CyclesAreCycles, IsCycle, EdgeTo
  <2> QED
    BY <1>1, <2>4, <2>5, <2>6, <2>7, <2>8 DEF SortInv, Unsorted, Sorting, SearchOver
<1>9. CASE /\ stack' = Advance /\ color' = color
           /\ \/ color[Child] = 1 /\ cycles' = cycles \cup {normalize_cycle(extract_cycle(Child))}
              \/ color[Child] = 2 /\ cycles' = cycles
  <2>1. Len(stack') = L /\ \A k \in 1 .. L : stack'[k] = Advance[k]
    BY <1>4, <1>9 DEF L
  <2>2. StackIsPath'
    <3>1. ASSUME NEW k \in 1 .. L, k < L
          PROVE  k \in 1 .. L - 1
      BY <1>a, <3>1
    <3> QED BY <1>1, <1>6, <2>1, <3>1 DEF StackIsPath
  <2>3. StackIsGray'
    BY <1>2, <1>6, <1>9, <2>1 DEF StackIsGray, L
  <2>4. OrderIsBlack'
    BY <1>1, <1>2, <1>9 DEF OrderIsBlack
  <2>5. LookedAt'
    <3> SUFFICES ASSUME cycles' = {} PROVE LookedAt'
      BY DEF LookedAt
    <3>0. color[Child] = 2 /\ cycles = {}
      BY <1>9
    <3>1. ASSUME NEW k \in 1 .. L, NEW m \in 1 .. stack'[k].next - 1
          PROVE  \/ color'[adj[stack'[k].node][m]] = 2
                 \/ k < L /\ adj[stack'[k].node][m] = stack'[k + 1].node
      <4>2. CASE k = L
        <5>1. m \in 1 .. (Top.next + 1) - 1 /\ Top.next \in Nat /\ stack'[L].node = Top.node
          BY <1>3, <1>6, <1>a, <1>b, <2>1, <4>2 DEF L
        <5>2. CASE m = Top.next
          BY <1>9, <1>b, <3>0, <4>2, <5>1, <5>2
        <5>3. CASE m # Top.next
          <6>1. m \in 1 .. Top.next - 1
            BY <5>1, <5>3
          <6> QED BY <1>7, <1>9, <3>0, <4>2, <5>1, <6>1
        <5> QED BY <5>2, <5>3
      <4>3. CASE k \in 1 .. L - 1
        <5>1. k \in 1 .. L /\ k + 1 \in 1 .. L /\ k < L
          BY <1>a, <4>3
        <5>2. m \in 1 .. stack[k].next - 1 /\ stack'[k].node = stack[k].node
              /\ stack'[k + 1].node = stack[k + 1].node
          BY <1>6, <2>1, <4>3, <5>1
        <5> QED BY <1>7, <1>9, <3>0, <4>3, <5>1, <5>2
      <4> QED BY <1>a, <4>2, <4>3
    <3> QED BY <1>1, <1>2, <2>1, <3>0, <3>1 DEF LookedAt
  <2>6. CyclesAreCycles'
    <3>1. \A c : IsCycle(c)' <=> IsCycle(c)
      BY <1>1 DEF IsCycle, EdgeTo
    <3>2. color[Child] = 1 => IsCycle(normalize_cycle(extract_cycle(Child)))
      BY <1>1, <1>2, CycleFound
    <3>3. \A c \in cycles' : IsCycle(c)
      BY <1>2, <1>9, <3>2 DEF CyclesAreCycles
    <3> QED BY <1>1, <3>3 DEF CyclesAreCycles, IsCycle, EdgeTo
  <2> QED
    BY <1>1, <2>2, <2>3, <2>4, <2>5, <2>6 DEF SortInv, Unsorted, Sorting, SearchOver
<1> QED
  BY <1>8, <1>9 DEF Examine

\* Retire makes the top of the stack black, after all that it imports.
LEMMA RetireInv ==
    ASSUME GraphType, SortInv, Retire
    PROVE  SortInv'
<1>1. /\ phase = "sort" /\ phase' = "sort" /\ stack # <<>> /\ ~HasChild /\ cycles' = cycles
      /\ mods' = mods /\ adj' = adj /\ Ids' = Ids /\ stack' = Below
      /\ color' = [color EXCEPT ![Top.node] = 2] /\ order' = Append(order, Top.node)
  BY DEF Retire, loadVars, Ids
<1>2. StackIsPath /\ StackIsGray /\ OrderIsBlack /\ LookedAt /\ CyclesAreCycles
  BY <1>1 DEF SortInv, Sorting
<1>3. /\ Len(stack) \in Nat /\ Len(stack) > 0
      /\ \A k \in 1 .. Len(stack) : stack[k].node \in Ids /\ stack[k].next \in Nat \ {0}
      /\ Top = stack[Len(stack)] /\ Len(Below) = Len(stack) - 1
      /\ \A k \in 1 .. Len(stack) - 1 : Below[k] = stack[k]
      /\ color \in [Ids -> 0 .. 2] /\ adj \in [Ids -> Seq(Ids)]
      /\ Top.node \in Ids /\ Top.next \in Nat \ {0}
  BY <1>1, TopFacts
<1> DEFINE L == Len(stack)
           M == Len(order)
<1>4. /\ L \in Nat /\ L > 0 /\ L \in 1 .. L /\ Len(stack') = L - 1 /\ Top = stack[L]
      /\ \A k \in 1 .. L - 1 : stack'[k] = stack[k] /\ k \in 1 .. L /\ k < L /\ k + 1 \in 1 .. L
  BY <1>1, <1>3
<1>5. /\ M \in Nat /\ Len(order') = M + 1 /\ order'[M + 1] = Top.node
      /\ \A k \in 1 .. M : order'[k] = order[k] /\ order[k] \in Ids
      /\ \A k \in 1 .. M + 1 : k = M + 1 \/ k \in 1 .. M
  <2>1. order \in Seq(Ids)
    BY DEF GraphType
  <2>2. M \in Nat /\ \A k \in 1 .. M + 1 : k = M + 1 \/ k \in 1 .. M
    BY <2>1
  <2>3. /\ Len(order') = M + 1 /\ order'[M + 1] = Top.node
        /\ \A k \in 1 .. M : order'[k] = order[k]
    BY <1>1, <1>3, <2>1
  <2> QED BY <2>1, <2>2, <2>3
<1>6. /\ color[Top.node] = 1 /\ color'[Top.node] = 2
      /\ \A i \in Ids : i # Top.node => color'[i] = color[i]
  BY <1>1, <1>2, <1>3, <1>4 DEF StackIsGray
<1> HIDE DEF L, M
<1>7. StackIsPath'
  <2>1. ASSUME NEW k \in 1 .. L - 1
        PROVE  stack'[k].next <= Len(adj[stack'[k].node]) + 1
    BY <1>2, <1>4 DEF StackIsPath, L
  <2>2. ASSUME NEW k \in 1 .. L - 1, k < L - 1
        PROVE  /\ stack'[k].next > 1
               /\ adj[stack'[k].node][stack'[k].next - 1] = stack'[k + 1].node
    <3>1. k + 1 \in 1 .. L - 1
      BY <1>4, <2>2
    <3> QED BY <1>2, <1>4, <2>2, <3>1 DEF StackIsPath, L
  <2> QED BY <1>1, <1>4, <2>1, <2>2 DEF StackIsPath
<1>8. StackIsGray'
  <2>1. ASSUME NEW k \in 1 .. L - 1
        PROVE  color'[stack'[k].node] = 1
    <3>1. stack[k].node # Top.node
      BY <1>2, <1>4 DEF StackIsGray, L
    <3> QED BY <1>2, <1>3, <1>4, <1>6, <3>1 DEF StackIsGray, L
  <2>2. \A j, k \in 1 .. L - 1 : stack'[j].node = stack'[k].node => j = k
    BY <1>2, <1>4 DEF StackIsGray, L
  <2> QED BY <1>4, <2>1, <2>2 DEF StackIsGray
<1>9. OrderIsBlack'
  <2>1. \A k \in 1 .. M : order[k] # Top.node
    <3>1. ~ \E k \in 1 .. M : order[k] = Top.node
      <4>1. color[Top.node] = 2 <=> \E k \in 1 .. M : order[k] = Top.node
        BY <1>2, <1>3 DEF OrderIsBlack, M
      <4> QED BY <1>6, <4>1
    <3> QED BY <3>1
  <2>2. ASSUME NEW j \in 1 .. M + 1, NEW k \in 1 .. M + 1, order'[j] = order'[k]
        PROVE  j = k
    BY <1>2, <1>5, <2>1, <2>2 DEF OrderIsBlack, M
  <2>3. ASSUME NEW i \in Ids
        PROVE  color'[i] = 2 <=> \E k \in 1 .. M + 1 : order'[k] = i
    <3>1. CASE i = Top.node
      <4>1. M + 1 \in 1 .. M + 1
        BY <1>5
      <4> QED BY <1>5, <1>6, <3>1, <4>1
    <3>2. CASE i # Top.node
      <4>1. color'[i] = 2 <=> \E k \in 1 .. M : order[k] = i
        BY <1>2, <1>6, <3>2 DEF OrderIsBlack, M
      <4>2. \A k \in 1 .. M : k \in 1 .. M + 1
        BY <1>5
      <4> QED BY <1>5, <3>2, <4>1, <4>2
    <3> QED BY <3>1, <3>2
  <2> QED BY <1>1, <1>5, <2>2, <2>3 DEF OrderIsBlack
<1>10. LookedAt'
  <2> SUFFICES ASSUME cycles = {} PROVE LookedAt'
    BY <1>1 DEF LookedAt
  <2>0. \A i \in Ids : color[i] = 2 => color'[i] = 2
    BY <1>6
  <2>1. ASSUME NEW k \in 1 .. L - 1, NEW m \in 1 .. stack'[k].next - 1
        PROVE  \/ color'[adj[stack'[k].node][m]] = 2
               \/ k < L - 1 /\ adj[stack'[k].node][m] = stack'[k + 1].node
    <3>1. /\ k \in 1 .. L /\ stack'[k] = stack[k] /\ k < L /\ stack[k].node \in Ids
          /\ stack[k].next \in Nat /\ m \in 1 .. stack[k].next - 1
      BY <1>3, <1>4 DEF L
    <3>2. color[adj[stack[k].node][m]] = 2 \/ adj[stack[k].node][m] = stack[k + 1].node
      BY <1>2, <3>1 DEF LookedAt, L
    <3>3. adj[stack[k].node][m] \in Ids
      <4>1. stack[k].next <= Len(adj[stack[k].node]) + 1 /\ Len(adj[stack[k].node]) \in Nat
        BY <1>2, <1>3, <3>1 DEF StackIsPath, L
      <4>2. m \in 1 .. Len(adj[stack[k].node])
        BY <3>1, <4>1
      <4> QED BY <1>3, <3>1, <4>2
    <3>4. CASE color[adj[stack[k].node][m]] = 2
      BY <2>0, <3>1, <3>3, <3>4
    <3>5. CASE adj[stack[k].node][m] = stack[k + 1].node /\ k + 1 = L
      BY <1>4, <1>6, <3>1, <3>5
    <3>6. CASE adj[stack[k].node][m] = stack[k + 1].node /\ k + 1 # L
      <4>1. k + 1 \in 1 .. L - 1 /\ k < L - 1
        BY <1>4, <3>6
      <4> QED BY <1>4, <3>1, <3>6, <4>1
    <3> QED BY <3>2, <3>4, <3>5, <3>6
  <2>2. ASSUME NEW k \in 1 .. M + 1, NEW m \in 1 .. Len(adj[order'[k]])
        PROVE  \E j \in 1 .. k - 1 : order'[j] = adj[order'[k]][m]
    <3>1. CASE k \in 1 .. M
      <4>1. order'[k] = order[k] /\ \A j \in 1 .. k - 1 : j \in 1 .. M
        BY <1>5, <3>1
      <4>2. \E j \in 1 .. k - 1 : order[j] = adj[order[k]][m]
        BY <1>2, <2>2, <3>1, <4>1 DEF LookedAt, M
      <4> QED BY <1>5, <4>1, <4>2
    <3>2. CASE k = M + 1
      <4>1. order'[k] = Top.node /\ m \in 1 .. Len(adj[Top.node])
        BY <1>5, <2>2, <3>2
      <4>2. m \in 1 .. Top.next - 1
        BY <1>1, <1>3, <4>1 DEF HasChild
      <4>3. color[adj[Top.node][m]] = 2
        <5>1. L \in 1 .. L /\ ~(L < L) /\ m \in 1 .. stack[L].next - 1
          BY <1>4, <4>2
        <5> QED BY <1>2, <1>4, <5>1 DEF LookedAt, L
      <4>4. adj[Top.node][m] \in Ids
        BY <1>3, <4>1
      <4>5. PICK j \in 1 .. M : order[j] = adj[Top.node][m]
        BY <1>2, <4>3, <4>4 DEF OrderIsBlack, M
      <4>6. j \in 1 .. k - 1 /\ order'[j] = order[j]
        BY <1>5, <3>2
      <4> QED BY <4>1, <4>5, <4>6
    <3> QED BY <1>5, <3>1, <3>2
  <2>3. \A k \in 1 .. Len(stack') : \A m \in 1 .. stack'[k].next - 1 :
           \/ color'[adj[stack'[k].node][m]] = 2
           \/ k < Len(stack') /\ adj[stack'[k].node][m] = stack'[k + 1].node
    BY <1>4, <2>1
  <2>4. \A k \in 1 .. Len(order') : \A m \in 1 .. Len(adj[order'[k]]) :
           \E j \in 1 .. k - 1 : order'[j] = adj[order'[k]][m]
    BY <1>5, <2>2
  <2> QED BY <1>1, <2>3, <2>4 DEF LookedAt
<1>11. CyclesAreCycles'
  BY <1>1, <1>2 DEF CyclesAreCycles, IsCycle, EdgeTo
<1> QED
  BY <1>1, <1>7, <1>8, <1>9, <1>10, <1>11 DEF SortInv, Unsorted, Sorting, SearchOver

\* EndSort reverses the order; nothing has been reported yet.
LEMMA EndSortInv ==
    ASSUME GraphType, SortInv, EndSort
    PROVE  SortInv'
<1>1. /\ phase = "sort" /\ phase' = "report" /\ stack = <<>>
      /\ UNCHANGED <<mods, adj, color, stack, order, cycles, raised, pass>>
      /\ topo' = [k \in 1 .. Len(order) |-> order[Len(order) + 1 - k]]
      /\ unreported' = cycles /\ \A i \in Ids : color[i] # 0
  BY DEF EndSort, loadVars
<1>2. StackIsPath /\ StackIsGray /\ OrderIsBlack /\ LookedAt /\ CyclesAreCycles
  BY <1>1 DEF SortInv, Sorting
<1>3. StackIsPath' /\ StackIsGray'
  BY <1>1, <1>2 DEF StackIsPath, StackIsGray
<1>4. OrderIsBlack' /\ LookedAt'
  <2>1. OrderIsBlack'
    BY <1>1, <1>2 DEF OrderIsBlack, Ids
  <2>2. LookedAt'
    BY <1>1, <1>2 DEF LookedAt
  <2> QED BY <2>1, <2>2
<1>5. CyclesAreCycles'
  BY <1>1, <1>2 DEF CyclesAreCycles, IsCycle, EdgeTo
<1>6. SearchOver'
  BY <1>1 DEF SearchOver, Ids
<1>7. Unsorted' /\ Sorting'
  BY <1>1 DEF Unsorted, Sorting
<1> QED
  BY <1>3, <1>4, <1>5, <1>6, <1>7 DEF SortInv

\* A cycle leaves the set of unreported ones with a diagnostic, and finalize
\* ends when there is none left.
LEMMA ReportInv ==
    ASSUME SortInv, ReportCycle \/ EndGraph
    PROVE  SortInv'
<1>1. /\ phase = "report" /\ phase' \in {"report", "done"}
      /\ UNCHANGED <<mods, adj, color, stack, order, topo, cycles, pass>>
  BY DEF ReportCycle, EndGraph, loadVars, sortVars
<1>2. StackIsPath /\ StackIsGray /\ OrderIsBlack /\ LookedAt /\ CyclesAreCycles
  BY <1>1 DEF SortInv, Sorting
<1>3. StackIsPath' /\ StackIsGray'
  BY <1>1, <1>2 DEF StackIsPath, StackIsGray
<1>4. OrderIsBlack' /\ LookedAt'
  <2>1. OrderIsBlack'
    BY <1>1, <1>2 DEF OrderIsBlack, Ids
  <2>2. LookedAt'
    BY <1>1, <1>2 DEF LookedAt
  <2> QED BY <2>1, <2>2
<1>5. CyclesAreCycles'
  BY <1>1, <1>2 DEF CyclesAreCycles, IsCycle, EdgeTo
<1>6. SearchOver'
  <2>1. CASE ReportCycle
    <3>1. Diag("cycle", "graph") \in raised' /\ phase' = "report"
      <4>1. raised' = raised \cup {<<Diag("cycle", "graph")>>[k] : k \in 1 .. Len(<<Diag("cycle", "graph")>>)}
        BY <2>1 DEF ReportCycle, Emit
      <4>2. 1 \in 1 .. Len(<<Diag("cycle", "graph")>>) /\ <<Diag("cycle", "graph")>>[1] = Diag("cycle", "graph")
        OBVIOUS
      <4> QED BY <2>1, <4>1, <4>2 DEF ReportCycle
    <3>2. ~Silent("cycle")'
      BY <1>1, <3>1 DEF Silent, Diag
    <3> QED BY <1>1, <3>1, <3>2 DEF SortInv, SearchOver, Ids
  <2>2. CASE EndGraph
    <3>1. unreported = {} /\ UNCHANGED <<unreported, raised>>
      BY <2>2 DEF EndGraph, sortVars
    <3> QED BY <1>1, <3>1 DEF SortInv, SearchOver, Ids, Silent
  <2> QED BY <2>1, <2>2
<1>7. Unsorted' /\ Sorting'
  BY <1>1 DEF Unsorted, Sorting
<1> QED
  BY <1>3, <1>4, <1>5, <1>6, <1>7 DEF SortInv

\* When the graph is done, the order is right and every cycle is reported.
LEMMA SortImplies ==
    ASSUME GraphType, GrayOnStack, SortInv, phase = "done"
    PROVE  Sorted
<1>1. /\ stack = <<>> /\ (\A i \in Ids : color[i] # 0)
      /\ topo = [k \in 1 .. Len(order) |-> order[Len(order) + 1 - k]]
      /\ Silent("cycle") => cycles = {}
      /\ OrderIsBlack /\ LookedAt /\ CyclesAreCycles
  BY DEF SortInv, SearchOver, Sorting
<1>2. color \in [Ids -> 0 .. 2] /\ order \in Seq(Ids) /\ adj \in [Ids -> Seq(Ids)]
  BY DEF GraphType
<1> DEFINE M == Len(order)
<1>3. M \in Nat /\ Len(topo) = M /\ (\A k \in 1 .. M : topo[k] = order[M + 1 - k] /\ M + 1 - k \in 1 .. M)
  <2>1. M \in Nat /\ \A k \in 1 .. M : M + 1 - k \in 1 .. M
    BY <1>2
  <2>2. topo = [k \in 1 .. M |-> order[M + 1 - k]]
    BY <1>1
  <2>3. topo \in [1 .. M -> Ids]
    BY <1>2, <2>1, <2>2
  <2>4. Len(topo) = M
    BY <2>1, <2>3, FunctionIsSeq
  <2>5. \A k \in 1 .. M : topo[k] = order[M + 1 - k]
    BY <2>2
  <2> QED BY <2>1, <2>4, <2>5
<1>4. \A i \in Ids : color[i] = 2
  BY <1>1, <1>2 DEF GrayOnStack
<1>5. ASSUME NEW i \in Ids
      PROVE  \E k \in 1 .. Len(topo) : topo[k] = i
  <2>1. PICK k \in 1 .. M : order[k] = i
    BY <1>1, <1>4 DEF OrderIsBlack
  <2> HIDE DEF M
  <2>2. M + 1 - k \in 1 .. M /\ M + 1 - (M + 1 - k) = k
    BY <1>3, <2>1
  <2>3. topo[M + 1 - k] = order[M + 1 - (M + 1 - k)]
    BY <1>3, <2>2
  <2>4. topo[M + 1 - k] = i
    BY <2>1, <2>2, <2>3
  <2> QED BY <1>3, <2>2, <2>4
<1>6. ASSUME NEW j \in 1 .. Len(topo), NEW k \in 1 .. Len(topo), topo[j] = topo[k]
      PROVE  j = k
  <2>1. order[M + 1 - j] = order[M + 1 - k]
    BY <1>3, <1>6
  <2>2. M + 1 - j = M + 1 - k
    BY <1>1, <1>3, <2>1 DEF OrderIsBlack
  <2> HIDE DEF M
  <2> QED BY <1>3, <2>2
<1>7. ASSUME Silent("cycle"), NEW j \in 1 .. Len(topo), NEW k \in 1 .. Len(topo),
             EdgeTo(topo[j], topo[k])
      PROVE  j < k
  <2>1. PICK m \in 1 .. Len(adj[topo[j]]) : adj[topo[j]][m] = topo[k]
    BY <1>7 DEF EdgeTo
  <2>2. topo[j] = order[M + 1 - j] /\ M + 1 - j \in 1 .. M /\ topo[k] = order[M + 1 - k]
        /\ M + 1 - k \in 1 .. M
    BY <1>3
  <2>3. PICK l \in 1 .. (M + 1 - j) - 1 : order[l] = adj[order[M + 1 - j]][m]
    BY <1>1, <1>7, <2>1, <2>2 DEF LookedAt
  <2>4. l \in 1 .. M
    BY <1>3, <2>2, <2>3
  <2>5. l = M + 1 - k
    <3>1. order[l] = order[M + 1 - k]
      BY <2>1, <2>2, <2>3
    <3> QED BY <1>1, <2>2, <2>4, <3>1 DEF OrderIsBlack
  <2> HIDE DEF M
  <2> QED BY <1>3, <2>3, <2>5
<1> QED
  BY <1>1, <1>5, <1>6, <1>7 DEF Sorted, CyclesAreCycles

\* What a step pushes stays in the record of all that was pushed.
LEMMA RaisedGrows ==
    ASSUME \/ UNCHANGED raised
           \/ \E ds : Emit(ds)
    PROVE  raised \subseteq raised'
BY DEF Emit

\* Every step keeps the invariant of the search.
LEMMA SortStep ==
    ASSUME Inv1, SortInv, [Next]_vars
    PROVE  SortInv'
<1>0. GraphType /\ GrayOnStack
  BY TypeParts DEF Inv1
<1>1. CASE Resolve
  <2>1. CASE Visit \/ StartLink \/ LinkEdge
    <3>1. /\ phase \in {"load", "link"} /\ phase' \in {"load", "link"}
          /\ UNCHANGED <<stack, order, cycles, unreported>>
      BY <2>1 DEF Visit, StartLink, LinkEdge, sortVars
    <3> QED BY <3>1 DEF SortInv, Unsorted, Sorting, SearchOver
  <2> QED
    BY <1>0, <1>1, <2>1, StartSortInv, SortRootInv, ExamineInv, RetireInv, EndSortInv, ReportInv
       DEF Resolve, GraphNext
<1>2. CASE DriverStep
  <2>1. UNCHANGED <<mods, adj, color, stack, order, topo, cycles, unreported, phase, pass>>
    BY <1>2 DEF DriverStep, Resolved, Check, SkipCodegen, StartCodegen, Generate, Commit,
                WriteRunner, Lint, CompileStage, LinkStage, finish, unchangedGraph, loadVars, sortVars
  <2>2. raised \subseteq raised'
    BY <1>0, <1>2, DriverEmits, RaisedGrows
  <2> QED BY <2>1, <2>2, SortFrame
<1>3. CASE Discover \/ Restart
  <2>1. CASE stack' = <<>> /\ order' = <<>> /\ cycles' = {} /\ unreported' = {} /\ phase' = "load"
    BY <2>1 DEF SortInv, Unsorted, Sorting, SearchOver
  <2>2. CASE /\ Emit(<<Diag("parse", "driver")>>) /\ pass' = pass
             /\ UNCHANGED <<phase, loadVars, adj, linkedTo, sortVars>>
    <3>1. raised \subseteq raised'
      BY <2>2, RaisedGrows
    <3> QED BY <2>2, <3>1, SortFrame DEF loadVars, sortVars
  <2> QED BY <1>3, <2>1, <2>2 DEF Discover, Restart, StartGraph
<1>4. CASE UNCHANGED vars
  BY <1>4, SortFrame DEF vars, graphVars, loadVars, sortVars
<1> QED
  BY <1>1, <1>2, <1>3, <1>4 DEF Next, DriverStep

\* The invariant of the search always holds.
LEMMA SortHolds == Spec => [](Inv1 /\ SortInv)
<1>1. Init => SortInv
  <2> SUFFICES ASSUME Init PROVE SortInv
    OBVIOUS
  <2>1. phase = "idle" /\ stack = <<>> /\ order = <<>> /\ cycles = {} /\ unreported = {}
    BY DEF Init, GraphInit
  <2> QED BY <2>1 DEF SortInv, Unsorted, Sorting, SearchOver
<1>2. Inv1 /\ SortInv /\ [Next]_vars => (Inv1 /\ SortInv)'
  BY StepInv1, SortStep
<1> QED
  BY <1>1, <1>2, InitInv1, PTL DEF Spec

\* Whenever build_source_graph has returned, for any number of files and any
\* imports: the order lists every module once, it has every module before
\* those it imports unless a cycle was reported, and every reported cycle is one.
THEOREM CascadeOrder == Spec => []OrderSound
<1>1. Inv1 /\ SortInv => OrderSound
  BY SortImplies, TypeParts DEF Inv1, OrderSound
<1> QED
  BY <1>1, SortHolds, PTL

=============================================================================
