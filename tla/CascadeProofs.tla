----------------------------- MODULE CascadeProofs -----------------------------
(***************************************************************************)
(* Proofs about the build cascade: its types, and that no diagnostic is    *)
(* lost when the second pass discards what the first typecheck said.       *)
(***************************************************************************)
EXTENDS Cascade, WellFoundedInduction, TLAPS

D == [class: Classes, pass: 1 .. 2, by: Stages]

\* What the stages in B may push during the current pass.
Fresh(B) == {d \in D : d.pass = pass /\ d.by \in B}

FromGraph == {"graph"}
FromDriver == Stages \ {"graph"}

-----------------------------------------------------------------------------
(* Sequences. *)

\* A function on 1 .. n is a sequence of length n.
LEMMA FunctionIsSeq ==
    ASSUME NEW S, NEW n \in Nat, NEW f \in [1 .. n -> S]
    PROVE  f \in Seq(S) /\ Len(f) = n
OBVIOUS

\* The elements of a sequence are in its set.
LEMMA ElementOf ==
    ASSUME NEW S, NEW q \in Seq(S)
    PROVE  Len(q) \in Nat /\ \A i \in 1 .. Len(q) : q[i] \in S
OBVIOUS

\* What SubSeq returns.
LEMMA SubSeqFacts ==
    ASSUME NEW S, NEW q \in Seq(S), NEW a \in Nat \ {0}, NEW m \in 0 .. Len(q)
    PROVE  /\ SubSeq(q, a, m) \in Seq(S)
           /\ Len(SubSeq(q, a, m)) = IF a <= m THEN m - a + 1 ELSE 0
           /\ \A k \in 1 .. m - a + 1 : SubSeq(q, a, m)[k] = q[a + k - 1]
OBVIOUS

\* A sequence without its last element.
LEMMA ButLast ==
    ASSUME NEW S, NEW q \in Seq(S), Len(q) > 0
    PROVE  /\ SubSeq(q, 1, Len(q) - 1) \in Seq(S)
           /\ Len(SubSeq(q, 1, Len(q) - 1)) = Len(q) - 1
           /\ \A k \in 1 .. Len(q) - 1 : SubSeq(q, 1, Len(q) - 1)[k] = q[k]
<1>1. Len(q) - 1 \in 0 .. Len(q) /\ Len(q) \in Nat
  OBVIOUS
<1>2. PICK m \in 0 .. Len(q) : m = Len(q) - 1
  BY <1>1
<1>3. SubSeq(q, 1, m) \in Seq(S) /\ Len(SubSeq(q, 1, m)) = m
  BY <1>1, <1>2
<1>4. \A k \in 1 .. m : SubSeq(q, 1, m)[k] = q[k]
  BY <1>1, <1>2
<1> QED
  BY <1>2, <1>3, <1>4

\* What concatenation returns.
LEMMA ConcatFacts ==
    ASSUME NEW S, NEW q \in Seq(S), NEW r \in Seq(S)
    PROVE  /\ q \o r \in Seq(S)
           /\ Len(q \o r) = Len(q) + Len(r)
           /\ \A j \in 1 .. Len(q) : (q \o r)[j] = q[j]
           /\ \A j \in 1 .. Len(r) : (q \o r)[Len(q) + j] = r[j]
OBVIOUS

\* Sequences over a set are sequences over a larger one.
LEMMA SeqGrows ==
    ASSUME NEW S, NEW T, S \subseteq T
    PROVE  Seq(S) \subseteq Seq(T)
OBVIOUS

-----------------------------------------------------------------------------
(* Diagnostics and the fields of a package. *)

\* The parts of a package have the types its record says.
LEMMA PackageFields ==
    ASSUME pkg \in Packages
    PROVE  /\ pkg.real \in [Paths -> Paths]
           /\ pkg.name \in [Paths -> Names \cup {NoName}]
           /\ pkg.imports \in [Paths -> Seq(Imports)]
           /\ pkg.fault \in [Paths -> SUBSET Classes]
           /\ pkg.errors \in SUBSET Classes
           /\ pkg.disk \in SUBSET Paths
           /\ pkg.entries \in Seq(Paths)
           /\ pkg.demands \in [Paths -> SUBSET Specs]
           /\ pkg.nested \in [Specs -> SUBSET Specs]
           /\ pkg.home \in [Specs -> Names]
           /\ pkg.art \in [Specs -> Paths]
           /\ pkg.runner \in Paths
           /\ pkg.stop \in 2 .. 6
           /\ pkg.properties \in BOOLEAN
<1>1. pkg \in Package
  BY GraphAssumption
<1> QED
  BY <1>1 DEF Package

\* What Diag builds is a diagnostic of its stage and of the pass.
LEMMA DiagTyped ==
    ASSUME pass \in 1 .. 2, NEW B \in SUBSET Stages, NEW class \in Classes, NEW by \in B
    PROVE  /\ <<Diag(class, by)>> \in Seq(Fresh(B))
           /\ <<>> \in Seq(Fresh(B))
<1>1. Diag(class, by) \in Fresh(B)
  BY DEF Diag, D, Fresh
<1> QED
  BY <1>1

\* Pushing diagnostics keeps the two records of them well typed.
LEMMA EmitTyped ==
    ASSUME diags \in Seq(D), raised \in SUBSET D,
           NEW B, NEW ds \in Seq(Fresh(B)), Emit(ds)
    PROVE  diags' \in Seq(D) /\ raised' \in SUBSET D
<1>1. ds \in Seq(D)
  <2>1. Fresh(B) \subseteq D
    BY DEF Fresh
  <2> QED BY <2>1, SeqGrows
<1>2. \A k \in 1 .. Len(ds) : ds[k] \in D
  BY <1>1, ElementOf
<1> QED
  BY <1>1, <1>2 DEF Emit

\* Pushing diagnostics adds them at the end of the diagnostics.
LEMMA EmitAppends ==
    ASSUME diags \in Seq(D), NEW ds \in Seq(D), Emit(ds)
    PROVE  /\ Len(diags') = Len(diags) + Len(ds)
           /\ \A k \in 1 .. Len(diags) : diags'[k] = diags[k]
           /\ \A k \in 1 .. Len(ds) : diags'[Len(diags) + k] = ds[k]
BY DEF Emit

-----------------------------------------------------------------------------
(* Types. *)

\* The graph's types only depend on the variables of the graph.
LEMMA GraphKept ==
    ASSUME GraphType, unchangedGraph,
           disk' \in SUBSET Paths, diags' \in Seq(D), raised' \in SUBSET D
    PROVE  GraphType'
BY DEF GraphType, unchangedGraph, loadVars, sortVars, Ids, D

\* A fresh graph is well typed.
LEMMA StartGraphTyped ==
    ASSUME GraphType, NEW es \in Seq(Paths), StartGraph(es),
           pkg' = pkg, disk' = disk, pass' \in 1 .. 2,
           diags' \in Seq(D), raised' \in SUBSET D
    PROVE  GraphType'
<1> DEFINE F == [from: Ids', name: Names, file: Paths]
           N == [node: Ids', next: Nat \ {0}]
<1>1. /\ queue' = es /\ entries' = es /\ seen' = {} /\ mods' = <<>> /\ edges' = <<>>
      /\ linkedTo' = 0 /\ stack' = <<>> /\ order' = <<>> /\ topo' = <<>>
      /\ cycles' = {} /\ unreported' = {} /\ phase' = "load"
  BY DEF StartGraph
<1>2. mods' \in Seq([file: Paths, name: Names])
  BY <1>1
<1>3. edges' \in Seq(F) /\ stack' \in Seq(N) /\ linkedTo' \in 0 .. Len(edges')
  BY <1>1
<1>4. order' \in Seq(Ids') /\ topo' \in Seq(Ids')
  BY <1>1
<1> QED
  BY <1>1, <1>2, <1>3, <1>4 DEF GraphType, D

\* canonical_key is a path.
LEMMA KeyTyped ==
    ASSUME pkg \in Packages, NEW p \in Paths
    PROVE  canonical_key(p) \in Paths
BY PackageFields DEF canonical_key

\* A non-empty set of natural numbers has a least element.
LEMMA LeastNatural ==
    ASSUME NEW T \in SUBSET Nat, T # {}
    PROVE  \E x \in T : \A y \in T : x <= y
<1>1. PICK x \in T : \A y \in T : ~ (<<y, x>> \in OpToRel(<, Nat))
  BY NatLessThanWellFounded, WFMin, Zenon
<1>2. \A y \in T : ~ (y < x)
  BY <1>1 DEF OpToRel
<1> QED
  BY <1>2

Frames == [node: Ids, next: Nat \ {0}]

\* A gray node is on the stack of the depth-first search.
GrayOnStack ==
    phase \in {"sort", "report", "done"} =>
        \A i \in Ids : color[i] = 1 => \E k \in 1 .. Len(stack) : stack[k].node = i

\* What extract_cycle takes from the stack.
LEMMA ExtractShape ==
    ASSUME stack \in Seq(Frames), NEW c, \E k \in 1 .. Len(stack) : stack[k].node = c
    PROVE  \E b \in 1 .. Len(stack) :
              /\ stack[b].node = c
              /\ extract_cycle(c) = [k \in 1 .. Len(stack) - b + 1 |-> stack[b + k - 1].node]
              /\ extract_cycle(c) \in Seq(Ids)
              /\ Len(extract_cycle(c)) = Len(stack) - b + 1
<1> DEFINE b == CHOOSE k \in 1 .. Len(stack) : stack[k].node = c
           e == [k \in 1 .. Len(stack) - b + 1 |-> stack[b + k - 1].node]
<1>1. b \in 1 .. Len(stack) /\ stack[b].node = c
  OBVIOUS
<1>2. extract_cycle(c) = e
  BY DEF extract_cycle
<1> HIDE DEF b
<1>3. \A k \in 1 .. Len(stack) - b + 1 : stack[b + k - 1].node \in Ids
  <2>0. \A j \in 1 .. Len(stack) : stack[j] \in Frames
    BY ElementOf
  <2>1. \A j \in 1 .. Len(stack) : stack[j].node \in Ids
    BY <2>0 DEF Frames
  <2> QED BY <1>1, <2>1
<1>4. e \in Seq(Ids) /\ Len(e) = Len(stack) - b + 1
  BY <1>1, <1>3
<1> QED
  BY <1>1, <1>2, <1>4

\* normalize_cycle rotates a non-empty sequence of modules.
LEMMA NormalizeShape ==
    ASSUME mods \in Seq([file: Paths, name: Names]), NEW c \in Seq(Ids), Len(c) > 0
    PROVE  \E m \in 1 .. Len(c) :
              /\ normalize_cycle(c) \in Seq(Ids)
              /\ Len(normalize_cycle(c)) = Len(c)
              /\ \A k \in 1 .. Len(c) : normalize_cycle(c)[k] =
                    IF m + k - 1 <= Len(c) THEN c[m + k - 1] ELSE c[m + k - 1 - Len(c)]
<1> DEFINE m == CHOOSE k \in 1 .. Len(c) : \A j \in 1 .. Len(c) : c[k] <= c[j]
           n == [k \in 1 .. Len(c) |->
                    IF m + k - 1 <= Len(c) THEN c[m + k - 1] ELSE c[m + k - 1 - Len(c)]]
           T == {c[k] : k \in 1 .. Len(c)}
<1>1. T \in SUBSET Nat /\ T # {}
  BY DEF Ids
<1>2. PICK x \in T : \A y \in T : x <= y
  BY <1>1, LeastNatural
<1>3. \E k \in 1 .. Len(c) : \A j \in 1 .. Len(c) : c[k] <= c[j]
  BY <1>2
<1>4. m \in 1 .. Len(c)
  BY <1>3, Zenon
<1>5. normalize_cycle(c) = n
  BY DEF normalize_cycle
<1> HIDE DEF m
<1>6. \A k \in 1 .. Len(c) :
        (IF m + k - 1 <= Len(c) THEN c[m + k - 1] ELSE c[m + k - 1 - Len(c)]) \in Ids
  BY <1>4
<1>7. n \in Seq(Ids) /\ Len(n) = Len(c)
  BY <1>6
<1> QED
  BY <1>4, <1>5, <1>7

-----------------------------------------------------------------------------
(* Every step of the graph keeps its types. *)

\* Visiting one file of the queue keeps the graph's types.
LEMMA VisitTyped ==
    ASSUME GraphType, Visit
    PROVE  GraphType'
<1> DEFINE p == Head(queue)
           DS == [class: Classes, pass: 1 .. 2, by: Stages]
<1>0. /\ queue \in Seq(Paths) /\ queue # <<>> /\ phase = "load" /\ phase' = phase
      /\ p \in Paths /\ Tail(queue) \in Seq(Paths) /\ pass \in 1 .. 2 /\ pass' = pass
      /\ pkg \in Packages /\ diags \in Seq(D) /\ raised \in SUBSET D
      /\ entries' = entries /\ linkedTo' = linkedTo /\ pkg' = pkg /\ disk' = disk
      /\ stack' = stack /\ order' = order /\ topo' = topo /\ cycles' = cycles
      /\ unreported' = unreported
  BY DEF Visit, GraphType, D, sortVars
<1>1. canonical_key(p) \in Paths
  BY <1>0, KeyTyped
<1>2. seen' \in SUBSET Paths
  BY <1>1 DEF Visit, GraphType
<1>3. <<Diag("import", "graph")>> \in Seq(Fresh(FromGraph))
  BY <1>0, DiagTyped DEF Classes, Stages, FromGraph
<1>4. /\ Complaints(p, "parse") \in Seq(Fresh(FromGraph))
      /\ Complaints(p, "import") \in Seq(Fresh(FromGraph))
  BY <1>0, DiagTyped DEF Classes, Stages, Complaints, When, FromGraph
<1>5. CASE mods' = mods /\ edges' = edges /\ queue' = Tail(queue)
  <2>1. diags' \in Seq(D) /\ raised' \in SUBSET D
    <3>1. CASE UNCHANGED <<diags, raised>>
      BY <1>0, <3>1
    <3>2. CASE Emit(<<Diag("import", "graph")>>)
      BY <1>0, <1>3, <3>2, EmitTyped
    <3>3. CASE Emit(Complaints(p, "parse") \o <<Diag("import", "graph")>>)
      <4>1. Complaints(p, "parse") \o <<Diag("import", "graph")>> \in Seq(Fresh(FromGraph))
        BY <1>3, <1>4
      <4> QED BY <1>0, <4>1, <3>3, EmitTyped
    <3>4. CASE Register(p)
      <4>1. Len(mods') = Len(mods) + 1
        BY <3>4 DEF Register, GraphType
      <4> QED BY <4>1, <1>5, SMTT(60) DEF GraphType
    <3> QED BY <3>1, <3>2, <3>3, <3>4 DEF Visit
  <2> QED
    BY <1>0, <1>2, <1>5, <2>1 DEF GraphType, Ids, D
<1>6. CASE Register(p) /\ pkg.name[p] # NoName
  <2> DEFINE is == pkg.imports[p]
             id == Len(mods) + 1
             qs == [k \in 1 .. Len(is) |-> is[k].file]
             es == [k \in 1 .. Len(is) |-> [from |-> id, name |-> is[k].name, file |-> is[k].file]]
             E == [from: Ids', name: Names, file: Paths]
  <2>1. is \in Seq(Imports)
    BY <1>0, PackageFields
  <2>2. pkg.name[p] \in Names
    BY <1>0, <1>6, PackageFields, SMTT(60)
  <2>3. mods' = Append(mods, [file |-> p, name |-> pkg.name[p]])
    BY <1>6 DEF Register
  <2>4. mods' \in Seq([file: Paths, name: Names]) /\ Len(mods') = Len(mods) + 1 /\ Len(mods) \in Nat
    BY <1>0, <2>2, <2>3 DEF GraphType
  <2>5. Ids \subseteq Ids' /\ id \in Ids'
    BY <2>4 DEF Ids
  <2>6. qs \in Seq(Paths)
    <3>1. Len(is) \in Nat /\ \A k \in 1 .. Len(is) : is[k] \in Imports
      BY <2>1, ElementOf
    <3>2. qs \in [1 .. Len(is) -> Paths]
      BY <3>1 DEF Imports
    <3> QED BY <3>1, <3>2, FunctionIsSeq
  <2>7. es \in Seq(E)
    <3>1. Len(is) \in Nat /\ \A k \in 1 .. Len(is) : is[k] \in Imports
      BY <2>1, ElementOf
    <3>2. es \in [1 .. Len(is) -> E]
      BY <2>5, <3>1 DEF Imports
    <3> QED BY <3>1, <3>2, FunctionIsSeq
  <2>8. edges \in Seq(E)
    <3>1. [from: Ids, name: Names, file: Paths] \subseteq E
      BY <2>5
    <3>2. edges \in Seq([from: Ids, name: Names, file: Paths])
      BY DEF GraphType
    <3> HIDE DEF E
    <3> QED BY <3>1, <3>2, SeqGrows
  <2>9. queue' = Tail(queue) \o qs /\ edges' = edges \o es
    BY <1>6 DEF Register
  <2>10. queue' \in Seq(Paths) /\ edges' \in Seq(E) /\ Len(edges') >= Len(edges) /\ Len(edges) \in Nat
         /\ Len(edges') \in Nat
    <3> HIDE DEF es, qs, E
    <3> QED BY <1>0, <2>6, <2>7, <2>8, <2>9, SMTT(60)
  <2>11. Complaints(p, "parse") \o Complaints(p, "import") \in Seq(Fresh(FromGraph))
    BY <1>4
  <2>12. diags' \in Seq(D) /\ raised' \in SUBSET D
    BY <1>0, <1>6, <2>11, EmitTyped DEF Register
  <2>13. linkedTo' \in 0 .. Len(edges')
    BY <1>0, <2>10 DEF GraphType
  <2>14. stack' \in Seq([node: Ids', next: Nat \ {0}])
    <3>1. [node: Ids, next: Nat \ {0}] \subseteq [node: Ids', next: Nat \ {0}]
      BY <2>5
    <3>2. stack \in Seq([node: Ids, next: Nat \ {0}])
      BY DEF GraphType
    <3>3. Seq([node: Ids, next: Nat \ {0}]) \subseteq Seq([node: Ids', next: Nat \ {0}])
      BY <3>1, SeqGrows
    <3> QED BY <1>0, <3>2, <3>3
  <2>15. order' \in Seq(Ids') /\ topo' \in Seq(Ids')
    BY <1>0, <2>5 DEF GraphType
  <2>16. cycles' \subseteq Seq(Ids') /\ unreported' \subseteq cycles'
    <3>1. Seq(Ids) \subseteq Seq(Ids')
      BY <2>5
    <3> QED BY <1>0, <3>1 DEF GraphType
  <2> QED
    BY <1>0, <1>2, <2>4, <2>10, <2>12, <2>13, <2>14, <2>15, <2>16 DEF GraphType, D
<1> QED
  BY <1>5, <1>6 DEF Visit

\* Turning pending edges into adjacency lists keeps the graph's types.
LEMMA LinkTyped ==
    ASSUME GraphType, StartLink \/ LinkEdge
    PROVE  GraphType'
<1>1. CASE StartLink
  <2>1. adj' \in [Ids' -> Seq(Ids')]
    BY <1>1, SMTT(60) DEF StartLink, Ids, loadVars
  <2> QED
    BY <1>1, <2>1, SMTT(60) DEF StartLink, GraphType, Ids, loadVars, sortVars
<1>2. CASE LinkEdge
  <2> DEFINE e == edges[linkedTo + 1]
  <2>1. e.from \in Ids /\ linkedTo' \in 0 .. Len(edges) /\ adj \in [Ids -> Seq(Ids)]
    <3>1. edges \in Seq([from: Ids, name: Names, file: Paths]) /\ linkedTo \in 0 .. Len(edges)
          /\ linkedTo < Len(edges) /\ linkedTo' = linkedTo + 1 /\ phase = "link"
      BY <1>2 DEF LinkEdge, GraphType
    <3>2. linkedTo + 1 \in 1 .. Len(edges)
      BY <3>1
    <3>3. e \in [from: Ids, name: Names, file: Paths]
      BY <3>1, <3>2, ElementOf
    <3> QED BY <3>1, <3>2, <3>3, SMTT(60) DEF GraphType
  <2>2. adj' \in [Ids -> Seq(Ids)]
    <3>1. CASE adj' = adj
      BY <2>1, <3>1
    <3>2. ASSUME NEW t \in target_id(e), adj' = [adj EXCEPT ![e.from] = Append(@, t)]
          PROVE  adj' \in [Ids -> Seq(Ids)]
      <4>1. t \in Ids
        BY <3>2 DEF target_id, by_path, by_file_path
      <4>2. Append(adj[e.from], t) \in Seq(Ids)
        BY <2>1, <4>1
      <4> QED BY <2>1, <3>2, <4>2
    <3> QED BY <1>2, <3>1, <3>2 DEF LinkEdge
  <2> QED
    BY <1>2, <2>1, <2>2 DEF LinkEdge, GraphType, Ids, loadVars, sortVars
<1> QED
  BY <1>1, <1>2

\* The depth-first search keeps the graph's types and its gray nodes on the stack.
LEMMA SortTyped ==
    ASSUME GraphType, GrayOnStack, StartSort \/ SortRoot \/ Examine \/ Retire \/ EndSort
    PROVE  GraphType' /\ GrayOnStack'
<1> DEFINE fixed == UNCHANGED <<pkg, disk, pass, diags, raised, loadVars, adj, linkedTo>>
<1>0. fixed
  BY DEF StartSort, SortRoot, Examine, Retire, EndSort
<1>1. /\ mods \in Seq([file: Paths, name: Names]) /\ Len(mods) \in Nat
      /\ mods' = mods /\ Ids' = Ids /\ adj' = adj
      /\ stack \in Seq(Frames) /\ Frames' = Frames /\ order \in Seq(Ids)
  BY <1>0 DEF GraphType, Ids, loadVars, Frames
\* It remains to look at the variables of the search.
<1>2. ASSUME phase' \in {"sort", "report"},
             phase \in {"link", "sort"},
             color' \in [Ids -> 0 .. 2], stack' \in Seq(Frames), order' \in Seq(Ids),
             topo' \in Seq(Ids), cycles' \subseteq Seq(Ids), unreported' \subseteq cycles'
      PROVE  GraphType'
  BY <1>0, <1>1, <1>2 DEF GraphType, Ids, loadVars, Frames
<1>t. /\ topo \in Seq(Ids) /\ cycles \subseteq Seq(Ids) /\ unreported \subseteq cycles
      /\ phase = "sort" => color \in [Ids -> 0 .. 2] /\ adj \in [Ids -> Seq(Ids)]
  BY DEF GraphType
<1>3. CASE StartSort
  <2>1. /\ phase = "link" /\ phase' = "sort" /\ color' = [i \in Ids |-> 0] /\ stack' = stack
        /\ order' = order /\ topo' = topo /\ cycles' = cycles /\ unreported' = unreported
    BY <1>3 DEF StartSort
  <2>2. GraphType'
    BY <1>1, <1>2, <2>1, SMTT(60) DEF GraphType
  <2>3. GrayOnStack'
    BY <1>1, <2>1 DEF GrayOnStack
  <2> QED BY <2>2, <2>3
<1>4. CASE SortRoot
  <2>1. PICK r \in Ids : /\ color' = [color EXCEPT ![r] = 1]
                         /\ stack' = <<[node |-> r, next |-> 1]>>
    BY <1>4 DEF SortRoot
  <2>2. /\ phase = "sort" /\ phase' = "sort" /\ stack = <<>> /\ order' = order /\ topo' = topo
        /\ cycles' = cycles /\ unreported' = unreported
        /\ color \in [Ids -> 0 .. 2]
    BY <1>4 DEF SortRoot, GraphType
  <2>3. [node |-> r, next |-> 1] \in Frames
    BY DEF Frames
  <2>4. stack' \in Seq(Frames) /\ Len(stack') = 1 /\ stack'[1].node = r
    BY <2>1, <2>3
  <2>5. GraphType'
    BY <1>1, <1>2, <2>1, <2>2, <2>4, SMTT(60) DEF GraphType
  <2>6. \A i \in Ids : color[i] # 1
    BY <2>2 DEF GrayOnStack
  <2>7. GrayOnStack'
    <3> SUFFICES ASSUME NEW i \in Ids, color'[i] = 1
                 PROVE  \E k \in 1 .. Len(stack') : stack'[k].node = i
      BY <1>1 DEF GrayOnStack
    <3>1. i = r
      BY <2>1, <2>2, <2>6
    <3> QED BY <2>4, <3>1
  <2> QED BY <2>5, <2>7
<1>5. ASSUME stack # <<>>, phase = "sort"
      PROVE  /\ Len(stack) \in Nat /\ Len(stack) > 0
             /\ Top \in Frames /\ Below \in Seq(Frames) /\ Len(Below) = Len(stack) - 1
             /\ \A k \in 1 .. Len(stack) - 1 : Below[k] = stack[k]
             /\ color \in [Ids -> 0 .. 2] /\ adj \in [Ids -> Seq(Ids)]
             /\ Top = stack[Len(stack)]
  <2>1. Len(stack) \in Nat /\ Len(stack) > 0
    BY <1>1, <1>5
  <2>2. stack[Len(stack)] \in Frames
    BY <1>1, <2>1, ElementOf
  <2>3. /\ Below \in Seq(Frames) /\ Len(Below) = Len(stack) - 1
        /\ \A k \in 1 .. Len(stack) - 1 : Below[k] = stack[k]
    BY <1>1, <2>1, ButLast DEF Below
  <2> QED BY <1>5, <1>t, <2>1, <2>2, <2>3 DEF Top
<1>6. CASE Examine
  <2>1. /\ phase = "sort" /\ phase' = "sort" /\ stack # <<>> /\ HasChild /\ order' = order
        /\ topo' = topo /\ unreported' = unreported
    BY <1>6 DEF Examine
  <2>2. Top.node \in Ids /\ Top.next \in Nat \ {0} /\ Top.next \in 1 .. Len(adj[Top.node])
    BY <1>5, <2>1 DEF Frames, HasChild
  <2>3. Child \in Ids
    BY <1>5, <2>1, <2>2 DEF Child
  <2>4. [node |-> Top.node, next |-> Top.next + 1] \in Frames /\ [node |-> Child, next |-> 1] \in Frames
    BY <2>2, <2>3 DEF Frames
  <2>5. Advance \in Seq(Frames) /\ Len(Advance) = Len(stack)
        /\ \A k \in 1 .. Len(stack) : Advance[k].node = stack[k].node
    BY <1>5, <2>1, <2>4 DEF Advance
  <2>6. CASE color[Child] = 0 /\ color' = [color EXCEPT ![Child] = 1]
             /\ stack' = Append(Advance, [node |-> Child, next |-> 1]) /\ cycles' = cycles
    <3>1. stack' \in Seq(Frames) /\ Len(stack') = Len(stack) + 1 /\ stack'[Len(stack) + 1].node = Child
          /\ \A k \in 1 .. Len(stack) : stack'[k].node = stack[k].node
      BY <2>4, <2>5, <2>6, <1>5, <2>1
    <3>2. color' \in [Ids -> 0 .. 2]
      BY <1>t, <2>1, <2>3, <2>6
    <3>3. GraphType'
      BY <1>1, <1>2, <1>t, <2>1, <2>6, <3>1, <3>2
    <3>4. GrayOnStack'
      <4> SUFFICES ASSUME NEW i \in Ids, color'[i] = 1
                   PROVE  \E k \in 1 .. Len(stack') : stack'[k].node = i
        BY <1>1 DEF GrayOnStack
      <4>1. CASE i = Child
        BY <3>1, <4>1, <1>5, <2>1, SMTT(60)
      <4>2. CASE i # Child
        <5>1. color[i] = 1
          BY <4>2, <2>6, <1>5, <2>1, <2>3
        <5>2. PICK k \in 1 .. Len(stack) : stack[k].node = i
          BY <5>1, <2>1 DEF GrayOnStack
        <5>3. k \in 1 .. Len(stack') /\ stack'[k].node = i
          BY <5>2, <3>1, <1>5, <2>1
        <5> QED BY <5>3
      <4> QED BY <4>1, <4>2
    <3> QED BY <3>3, <3>4
  <2>7. CASE /\ stack' = Advance /\ color' = color
             /\ \/ cycles' = cycles
                \/ color[Child] = 1 /\ cycles' = cycles \cup {normalize_cycle(extract_cycle(Child))}
    <3>1. cycles \subseteq Seq(Ids) /\ unreported \subseteq cycles
      BY DEF GraphType
    <3>2. cycles' \subseteq Seq(Ids) /\ unreported' \subseteq cycles'
      <4>1. CASE color[Child] = 1 /\ cycles' = cycles \cup {normalize_cycle(extract_cycle(Child))}
        <5>1. \E k \in 1 .. Len(stack) : stack[k].node = Child
          BY <2>1, <2>3, <4>1 DEF GrayOnStack
        <5>2. extract_cycle(Child) \in Seq(Ids) /\ Len(extract_cycle(Child)) > 0
          BY <1>1, <5>1, ExtractShape
        <5>3. normalize_cycle(extract_cycle(Child)) \in Seq(Ids)
          BY <1>1, <5>2, NormalizeShape
        <5> QED BY <2>1, <3>1, <4>1, <5>3
      <4> QED BY <2>1, <2>7, <3>1, <4>1
    <3>3. GraphType'
      BY <1>1, <1>2, <1>5, <2>1, <2>5, <2>7, <3>2 DEF GraphType
    <3>4. GrayOnStack'
      <4> SUFFICES ASSUME NEW i \in Ids, color'[i] = 1
                   PROVE  \E k \in 1 .. Len(stack') : stack'[k].node = i
        BY <1>1 DEF GrayOnStack
      <4>1. PICK k \in 1 .. Len(stack) : stack[k].node = i
        BY <2>1, <2>7 DEF GrayOnStack
      <4> QED BY <4>1, <2>5, <2>7
    <3> QED BY <3>3, <3>4
  <2> QED BY <1>6, <2>6, <2>7 DEF Examine
<1>7. CASE Retire
  <2>1. /\ phase = "sort" /\ phase' = "sort" /\ stack # <<>> /\ stack' = Below
        /\ color' = [color EXCEPT ![Top.node] = 2] /\ order' = Append(order, Top.node)
        /\ topo' = topo /\ cycles' = cycles /\ unreported' = unreported
    BY <1>7 DEF Retire
  <2>2. Top.node \in Ids
    BY <1>5, <2>1 DEF Frames
  <2>3. GraphType'
    <3>1. color' \in [Ids -> 0 .. 2] /\ order' \in Seq(Ids) /\ stack' \in Seq(Frames)
      BY <1>1, <1>5, <1>t, <2>1, <2>2
    <3> QED BY <1>2, <1>t, <2>1, <3>1
  <2>4. GrayOnStack'
    <3> SUFFICES ASSUME NEW i \in Ids, color'[i] = 1
                 PROVE  \E k \in 1 .. Len(stack') : stack'[k].node = i
      BY <1>1 DEF GrayOnStack
    <3>1. color[i] = 1 /\ i # Top.node
      BY <1>5, <2>1, <2>2
    <3>2. PICK k \in 1 .. Len(stack) : stack[k].node = i
      BY <2>1, <3>1 DEF GrayOnStack
    <3>3. k \in 1 .. Len(stack) - 1
      BY <1>5, <2>1, <3>1, <3>2
    <3> QED BY <1>5, <2>1, <3>2, <3>3
  <2> QED BY <2>3, <2>4
<1>8. CASE EndSort
  <2>1. /\ phase = "sort" /\ phase' = "report" /\ stack' = stack /\ color' = color /\ order' = order
        /\ topo' = [k \in 1 .. Len(order) |-> order[Len(order) + 1 - k]]
        /\ cycles' = cycles /\ unreported' = cycles
    BY <1>8 DEF EndSort
  <2>2. topo' \in [1 .. Len(order) -> Ids] /\ Len(order) \in Nat
    BY <1>1, <2>1
  <2>3. topo' \in Seq(Ids)
    BY <2>2, FunctionIsSeq
  <2>4. GraphType'
    BY <1>1, <1>2, <2>1, <2>3 DEF GraphType
  <2>5. GrayOnStack'
    BY <1>1, <2>1 DEF GrayOnStack
  <2> QED BY <2>4, <2>5
<1> QED
  BY <1>3, <1>4, <1>6, <1>7, <1>8

\* Reporting the cycles keeps the graph's types.
LEMMA ReportTyped ==
    ASSUME GraphType, GrayOnStack, ReportCycle \/ EndGraph
    PROVE  GraphType' /\ GrayOnStack'
<1>1. diags' \in Seq(D) /\ raised' \in SUBSET D
  <2>1. <<Diag("cycle", "graph")>> \in Seq(Fresh(FromGraph))
    BY DiagTyped DEF GraphType, Classes, Stages, FromGraph
  <2> QED BY <2>1, EmitTyped DEF GraphType, ReportCycle, EndGraph, D
<1>2. GraphType'
  BY <1>1 DEF GraphType, ReportCycle, EndGraph, D, Ids, loadVars, sortVars
<1>3. GrayOnStack'
  BY DEF GrayOnStack, ReportCycle, EndGraph, Ids, loadVars, sortVars
<1> QED
  BY <1>2, <1>3

\* Loading and linking leave no gray node.
LEMMA LoadKeepsGray ==
    ASSUME GraphType, GrayOnStack, Visit \/ StartLink \/ LinkEdge
    PROVE  GrayOnStack'
<1>1. phase' \notin {"sort", "report", "done"}
  BY DEF Visit, StartLink, LinkEdge
<1> QED
  BY <1>1 DEF GrayOnStack

\* Every step of the graph keeps its types and its gray nodes on the stack.
LEMMA GraphTyped ==
    ASSUME GraphType, GrayOnStack, GraphNext
    PROVE  GraphType' /\ GrayOnStack'
BY VisitTyped, LinkTyped, LoadKeepsGray, SortTyped, ReportTyped DEF GraphNext

-----------------------------------------------------------------------------
(* Every step of the cascade keeps its types. *)

\* What the cascade keeps besides the graph.
CascadeType ==
    /\ stage \in {"start", "resolve", "check", "codegen", "generate", "properties",
                  "restart", "lint", "compile", "link", "finish", "finished"}
    /\ pre \in Nat /\ post \in Nat
    /\ typed \in 0 .. 2
    /\ roots \in SUBSET Specs /\ work \in SUBSET Specs /\ visited \in SUBSET Specs
    /\ paths \in Seq(Paths)
    /\ object \in BOOLEAN /\ linked \in BOOLEAN
    /\ exit \in {"none", "BuildError", "Success"}

\* The type invariant is that of the graph and that of the cascade.
LEMMA TypeParts == TypeOK <=> GraphType /\ CascadeType
BY DEF TypeOK, CascadeType

\* The steps of the driver that change the diagnostics push well-typed ones,
\* but for the splice.
DriverStep ==
    \/ Resolved \/ Check \/ SkipCodegen \/ StartCodegen \/ Generate \/ Commit
    \/ WriteRunner \/ Lint \/ CompileStage \/ LinkStage \/ finish

\* A condition pushes its diagnostic or nothing.
LEMMA WhenShape ==
    ASSUME NEW b, NEW d
    PROVE  When(b, d) \in {<<>>, <<d>>}
BY DEF When

\* All that a step of the driver does to the diagnostics is to push fresh ones.
LEMMA DriverEmits ==
    ASSUME GraphType, DriverStep
    PROVE  \/ UNCHANGED <<diags, raised>>
           \/ \E ds \in Seq(Fresh(FromDriver)) : Emit(ds)
<1> DEFINE S == Seq(Fresh(FromDriver))
<1>0. pass \in 1 .. 2 /\ FromDriver \in SUBSET Stages
  BY DEF GraphType, FromDriver
<1>a. /\ <<Diag("import", "names")>> \in S /\ <<Diag("lint", "names")>> \in S
      /\ <<Diag("type", "check")>> \in S
  BY <1>0, DiagTyped DEF Classes, Stages, FromDriver
<1>b. <<Diag("type", "codegen")>> \in S /\ <<Diag("parse", "codegen")>> \in S
  BY <1>0, DiagTyped DEF Classes, Stages, FromDriver
<1>c. /\ <<Diag("lint", "lint")>> \in S /\ <<Diag("pinned", "lint")>> \in S
      /\ \A class \in Classes : <<Diag(class, "map")>> \in S
  BY <1>0, DiagTyped DEF Classes, Stages, FromDriver
<1>d. /\ <<Diag("type", "compile")>> \in S /\ <<Diag("parse", "compile")>> \in S
      /\ <<Diag("parse", "link")>> \in S
  BY <1>0, DiagTyped DEF Classes, Stages, FromDriver
<1>e. <<>> \in S /\ \A x, y \in S : x \o y \in S
  OBVIOUS
<1> SUFFICES UNCHANGED <<diags, raised>> \/ \E ds \in S : Emit(ds)
  OBVIOUS
<1> HIDE DEF S
<1>1. CASE Resolved
  <2>1. PICK u \in BOOLEAN :
            Emit(When(DuplicateImport, Diag("lint", "names"))
                    \o When(DuplicateLeaf \/ u, Diag("import", "names")))
    BY <1>1 DEF Resolved
  <2>2. When(DuplicateImport, Diag("lint", "names")) \in S
    BY <1>a, <1>e, WhenShape
  <2>3. When(DuplicateLeaf \/ u, Diag("import", "names")) \in S
    BY <1>a, <1>e, WhenShape
  <2> QED BY <1>e, <2>1, <2>2, <2>3
<1>2. CASE Check
  <2>1. ASSUME NEW missing \in BOOLEAN
        PROVE  When(Faulty("type") \/ missing, Diag("type", "check")) \in S
    BY <1>a, <1>e, WhenShape
  <2> QED BY <1>2, <2>1 DEF Check
<1>3. CASE SkipCodegen \/ WriteRunner \/ finish
  BY <1>3 DEF SkipCodegen, WriteRunner, finish
<1>4. CASE StartCodegen
  <2> DEFINE unknown == When(Located(Demanded) # Demanded, Diag("type", "codegen"))
  <2>1. unknown \in S
    BY <1>b, <1>e, WhenShape
  <2>2. Emit(unknown) \/ Emit(unknown \o <<Diag("parse", "codegen")>>)
    BY <1>4 DEF StartCodegen
  <2> HIDE DEF unknown
  <2> QED BY <1>b, <1>e, <2>1, <2>2
<1>5. CASE Generate
  <2>1. PICK s \in work :
            \/ UNCHANGED <<diags, raised>>
            \/ Emit(<<Diag("parse", "codegen")>>)
            \/ Emit(When(Located(pkg.nested[s]) # pkg.nested[s], Diag("type", "codegen")))
    BY <1>5 DEF Generate
  <2>2. When(Located(pkg.nested[s]) # pkg.nested[s], Diag("type", "codegen")) \in S
    BY <1>b, <1>e, WhenShape
  <2> QED BY <1>b, <2>1, <2>2
<1>6. CASE Commit
  BY <1>b, <1>6 DEF Commit
<1>7. CASE Lint
  <2> DEFINE w == When(Faulty("lint"), Diag("lint", "lint"))
  <2> DEFINE v == When(Faulty("pinned"), Diag("pinned", "lint"))
  <2>1. PICK ds \in {<<>>} \cup {<<Diag(class, "map")>> : class \in {"lint", "pinned", "parse"}} :
            Emit(w \o v \o ds)
    BY <1>7 DEF Lint
  <2>2. ds \in S
    BY <1>c, <1>e DEF Classes
  <2>3. w \in S
    BY <1>c, <1>e, WhenShape
  <2>4. v \in S
    BY <1>c, <1>e, WhenShape
  <2> HIDE DEF w, v
  <2> QED BY <1>e, <2>1, <2>2, <2>3, <2>4
<1>8. CASE CompileStage
  <2>1. \A b : When(b, Diag("parse", "compile")) \in S
    BY <1>d, <1>e, WhenShape
  <2>2. ASSUME NEW dump \in BOOLEAN
        PROVE  When(~dump, Diag("parse", "compile")) \o When(~object', Diag("parse", "compile"))
                  \in S
    BY <1>e, <2>1
  <2> QED BY <1>d, <1>8, <2>2 DEF CompileStage
<1>9. CASE LinkStage
  <2>1. When(~linked', Diag("parse", "link")) \in S
    BY <1>d, <1>e, WhenShape
  <2> QED BY <1>9, <2>1 DEF LinkStage
<1> QED
  BY <1>1, <1>2, <1>3, <1>4, <1>5, <1>6, <1>7, <1>8, <1>9 DEF DriverStep

\* What the steps of the driver do to the other variables of the cascade.
LEMMA DriverTyped ==
    ASSUME TypeOK, DriverStep
    PROVE  TypeOK' /\ (GrayOnStack => GrayOnStack')
<1>0. GraphType /\ CascadeType
  BY TypeParts
<1>1. diags \in Seq(D) /\ raised \in SUBSET D /\ disk \in SUBSET Paths /\ pass \in 1 .. 2
      /\ pkg \in Packages /\ mods \in Seq([file: Paths, name: Names])
  BY <1>0 DEF GraphType, D
<1>2. diags' \in Seq(D) /\ raised' \in SUBSET D
  BY <1>0, <1>1, DriverEmits, EmitTyped
<1>3. unchangedGraph
  BY DEF DriverStep, Resolved, Check, SkipCodegen, StartCodegen, Generate, Commit,
         WriteRunner, Lint, CompileStage, LinkStage, finish
<1>4. Artifacts \in SUBSET Paths /\ pkg.real[pkg.runner] \in Paths
  <2>1. \A k \in 1 .. Len(paths) : paths[k] \in Paths
    BY <1>0, ElementOf DEF CascadeType
  <2> QED BY <1>1, <2>1, PackageFields DEF Artifacts
<1>5. disk' \in SUBSET Paths
  <2>1. CASE Commit
    BY <1>1, <1>4, <2>1 DEF Commit
  <2>2. CASE WriteRunner
    BY <1>1, <1>4, <2>2 DEF WriteRunner
  <2>3. CASE disk' = disk
    BY <1>1, <2>3
  <2> QED
    BY <2>1, <2>2, <2>3 DEF DriverStep, Resolved, Check, SkipCodegen, StartCodegen, Generate,
                            Lint, CompileStage, LinkStage, finish
<1>6. GraphType'
  BY <1>0, <1>2, <1>3, <1>5, GraphKept
<1>7. GrayOnStack => GrayOnStack'
  BY <1>3 DEF GrayOnStack, unchangedGraph, Ids, loadVars, sortVars
<1>8. CascadeType'
  <2>1. CASE Resolved
    BY <1>0, <2>1 DEF Resolved, CascadeType, markVars, genVars, outVars
  <2>2. CASE Check
    <3>1. typed' \in 0 .. 2
      BY <1>1, <2>2 DEF Check
    <3>2. pre' \in Nat /\ post' \in Nat
      <4>1. Len(diags) \in Nat /\ Len(diags') \in Nat
        BY <1>1, <1>2
      <4> QED BY <1>0, <2>2, <4>1 DEF Check, CascadeType
    <3> QED BY <1>0, <2>2, <3>1, <3>2 DEF Check, CascadeType, genVars, outVars
  <2>3. CASE SkipCodegen
    BY <1>0, <2>3 DEF SkipCodegen, CascadeType, markVars, genVars, outVars
  <2>4. CASE StartCodegen
    <3>1. Demanded \in SUBSET Specs
      <4>1. \A i \in Ids : pkg.demands[mods[i].file] \in SUBSET Specs
        <5>1. \A i \in Ids : mods[i] \in [file: Paths, name: Names]
          BY <1>1, ElementOf DEF Ids
        <5> QED BY <1>1, <5>1, PackageFields
      <4> QED BY <4>1 DEF Demanded
    <3>2. Located(Demanded) \in SUBSET Specs
      BY <3>1 DEF Located
    <3> QED BY <1>0, <2>4, <3>1, <3>2 DEF StartCodegen, CascadeType, markVars, outVars
  <2>5. CASE Generate
    <3>1. PICK s \in work :
             /\ s \in visited \/ visited' = visited \cup {s}
             /\ visited' = visited \/ visited' = visited \cup {s}
             /\ work' = work \ {s} \/ work' = (work \ {s}) \cup Located(pkg.nested[s])
             /\ paths' = paths \/ paths' = Append(paths, pkg.art[s])
      BY <2>5 DEF Generate
    <3>2. s \in Specs /\ pkg.nested[s] \in SUBSET Specs /\ pkg.art[s] \in Paths
      BY <1>0, <1>1, PackageFields DEF CascadeType
    <3>3. Located(pkg.nested[s]) \in SUBSET Specs
      BY <3>2 DEF Located
    <3>4. paths' \in Seq(Paths)
      BY <1>0, <3>1, <3>2 DEF CascadeType
    <3>5. work' \in SUBSET Specs /\ visited' \in SUBSET Specs
      BY <1>0, <3>1, <3>2, <3>3 DEF CascadeType
    <3> QED BY <1>0, <2>5, <3>4, <3>5 DEF Generate, CascadeType, markVars, outVars
  <2>6. CASE Commit
    BY <1>0, <2>6 DEF Commit, CascadeType, markVars, genVars, outVars
  <2>7. CASE WriteRunner
    <3>1. paths' \in Seq(Paths)
      <4>1. pkg.runner \in Paths /\ paths \in Seq(Paths)
        BY <1>0, <1>1, PackageFields DEF CascadeType
      <4>2. paths' = paths \/ paths' = Append(paths, pkg.runner)
        BY <2>7 DEF WriteRunner
      <4> QED BY <4>1, <4>2
    <3> QED BY <1>0, <2>7, <3>1 DEF WriteRunner, CascadeType, markVars, genVars, outVars
  <2>8. CASE Lint
    BY <1>0, <2>8 DEF Lint, CascadeType, markVars, genVars, outVars
  <2>9. CASE CompileStage
    <3>1. object' \in BOOLEAN
      BY <1>0, <2>9 DEF CompileStage, CascadeType
    <3> QED BY <1>0, <2>9, <3>1 DEF CompileStage, CascadeType, markVars, genVars
  <2>10. CASE LinkStage
    <3>1. linked' \in BOOLEAN
      BY <1>0, <2>10 DEF LinkStage, CascadeType
    <3> QED BY <1>0, <2>10, <3>1 DEF LinkStage, CascadeType, markVars, genVars
  <2>11. CASE finish
    BY <1>0, <2>11 DEF finish, CascadeType, markVars, genVars
  <2> QED
    BY <2>1, <2>2, <2>3, <2>4, <2>5, <2>6, <2>7, <2>8, <2>9, <2>10, <2>11 DEF DriverStep
<1> QED
  BY <1>6, <1>7, <1>8 DEF TypeOK, CascadeType

\* Between the first typecheck and the restart the diagnostics between the
\* two marks are what that typecheck said, and the pass is the first.
Marks ==
    stage \in {"codegen", "generate", "properties", "restart"} =>
        /\ pass = 1
        /\ pre <= post /\ post <= Len(diags)
        /\ \A k \in pre + 1 .. post : diags[k].by = "check"

\* Both starts of the graph, for the first and the second pass, keep the types.
LEMMA StartTyped ==
    ASSUME TypeOK, Marks, Discover \/ Restart
    PROVE  TypeOK' /\ (GrayOnStack => GrayOnStack')
<1>0. GraphType /\ CascadeType
  BY TypeParts
<1>1. diags \in Seq(D) /\ raised \in SUBSET D /\ pass \in 1 .. 2 /\ pkg \in Packages
      /\ disk \in SUBSET Paths
  BY <1>0 DEF GraphType, D
<1>2. pkg.entries \in Seq(Paths) /\ paths \in Seq(Paths)
  BY <1>0, <1>1, PackageFields DEF CascadeType
<1>3. CASE Discover
  <2>1. CASE /\ Emit(<<Diag("parse", "driver")>>) /\ stage' = "finish"
             /\ UNCHANGED <<phase, loadVars, adj, linkedTo, sortVars>>
    <3>1. <<Diag("parse", "driver")>> \in Seq(Fresh(FromDriver))
      BY <1>1, DiagTyped DEF Classes, Stages, FromDriver
    <3>2. diags' \in Seq(D) /\ raised' \in SUBSET D
      BY <1>1, <2>1, <3>1, EmitTyped
    <3>3. unchangedGraph /\ disk' \in SUBSET Paths
      BY <1>1, <1>3, <2>1 DEF Discover, unchangedGraph
    <3>4. GraphType'
      BY <1>0, <3>2, <3>3, GraphKept
    <3>5. GrayOnStack => GrayOnStack'
      BY <3>3 DEF GrayOnStack, unchangedGraph, Ids, loadVars, sortVars
    <3>6. CascadeType'
      BY <1>0, <1>3, <2>1 DEF Discover, CascadeType, markVars, genVars, outVars
    <3> QED BY <3>4, <3>5, <3>6 DEF TypeOK, CascadeType
  <2>2. CASE StartGraph(pkg.entries) /\ stage' = "resolve" /\ UNCHANGED <<diags, raised>>
    <3>1. pkg' = pkg /\ disk' = disk /\ pass' = pass
      BY <1>3 DEF Discover
    <3>2. GraphType'
      BY <1>0, <1>1, <1>2, <2>2, <3>1, StartGraphTyped
    <3>3. phase' = "load"
      BY <2>2 DEF StartGraph
    <3>4. CascadeType'
      BY <1>0, <1>3, <2>2 DEF Discover, CascadeType, markVars, genVars, outVars
    <3> QED BY <3>2, <3>3, <3>4 DEF TypeOK, CascadeType, GrayOnStack
  <2> QED BY <1>3, <2>1, <2>2 DEF Discover
<1>4. CASE Restart
  <2>1. /\ diags' = splice /\ raised' = raised /\ pkg' = pkg /\ disk' = disk /\ pass' = 2
        /\ StartGraph(pkg.entries \o paths)
    BY <1>4 DEF Restart
  <2>2. diags' \in Seq(D)
    <3>1. /\ pre \in 0 .. Len(diags) /\ Len(diags) \in 0 .. Len(diags)
          /\ 1 \in Nat \ {0} /\ post + 1 \in Nat \ {0}
      BY <1>0, <1>1, <1>4 DEF CascadeType, Marks, Restart
    <3>2. SubSeq(diags, 1, pre) \in Seq(D) /\ SubSeq(diags, post + 1, Len(diags)) \in Seq(D)
      BY <1>1, <3>1, SubSeqFacts
    <3> QED BY <2>1, <3>2 DEF splice
  <2>3. pkg.entries \o paths \in Seq(Paths)
    BY <1>2
  <2>4. GraphType'
    <3>1. raised' \in SUBSET D /\ pass' \in 1 .. 2
      BY <1>1, <2>1
    <3> QED BY <1>0, <2>1, <2>2, <2>3, <3>1, StartGraphTyped
  <2>5. phase' = "load"
    BY <2>1 DEF StartGraph
  <2>6. CascadeType'
    BY <1>0, <1>4 DEF Restart, CascadeType, markVars, genVars, outVars
  <2> QED BY <2>4, <2>5, <2>6 DEF TypeOK, CascadeType, GrayOnStack
<1> QED
  BY <1>3, <1>4

-----------------------------------------------------------------------------
(* Nothing is lost. *)

\* All that a step of the graph does to the diagnostics is to push fresh ones.
LEMMA GraphEmits ==
    ASSUME GraphType, GraphNext
    PROVE  \/ UNCHANGED <<diags, raised>>
           \/ \E ds \in Seq(Fresh(FromGraph)) : Emit(ds)
<1> USE DEF Classes, Stages, FromGraph
<1>0. pass \in 1 .. 2
  BY DEF GraphType
<1>1. CASE Visit
  <2> DEFINE p == Head(queue)
             i == <<Diag("import", "graph")>>
             a == Complaints(p, "parse")
             b == Complaints(p, "import")
  <2>1. i \in Seq(Fresh(FromGraph)) /\ a \in Seq(Fresh(FromGraph)) /\ b \in Seq(Fresh(FromGraph))
    BY <1>0, DiagTyped, Zenon DEF Complaints, When
  <2>2. UNCHANGED <<diags, raised>> \/ Emit(i) \/ Emit(a \o i) \/ Emit(a \o b)
    BY <1>1, Zenon DEF Visit, Register
  <2> HIDE DEF i, a, b
  <2>3. a \o i \in Seq(Fresh(FromGraph)) /\ a \o b \in Seq(Fresh(FromGraph))
    BY <2>1
  <2> QED BY <2>1, <2>2, <2>3
<1>2. CASE ReportCycle
  BY <1>0, <1>2, DiagTyped DEF ReportCycle
<1> QED
  BY <1>1, <1>2 DEF GraphNext, StartLink, LinkEdge, StartSort, SortRoot, Examine, Retire,
                    EndSort, EndGraph

\* No diagnostic is from a pass that has not begun.
PassBound == \A d \in raised : d.pass <= pass

\* Pushing diagnostics loses none and leaves the older ones where they are.
LEMMA EmitKeeps ==
    ASSUME diags \in Seq(D), raised \in SUBSET D, pass \in 1 .. 2, pass' = pass,
           \/ UNCHANGED <<diags, raised>>
           \/ \E B : \E ds \in Seq(Fresh(B)) : Emit(ds)
    PROVE  /\ NoErrorLost => NoErrorLost'
           /\ PassBound => PassBound'
           /\ Len(diags') >= Len(diags)
           /\ \A k \in 1 .. Len(diags) : diags'[k] = diags[k]
<1>1. CASE UNCHANGED <<diags, raised>>
  BY <1>1 DEF NoErrorLost, PassBound
<1>2. ASSUME NEW B, NEW ds \in Seq(Fresh(B)), Emit(ds)
      PROVE  /\ NoErrorLost => NoErrorLost'
             /\ PassBound => PassBound'
             /\ Len(diags') >= Len(diags)
             /\ \A k \in 1 .. Len(diags) : diags'[k] = diags[k]
  <2>1. Len(ds) \in Nat /\ \A k \in 1 .. Len(ds) : ds[k] \in Fresh(B)
    BY ElementOf
  <2>2. ds \in Seq(D)
    <3>1. Fresh(B) \subseteq D
      BY DEF Fresh
    <3> QED BY <3>1, SeqGrows
  <2>3. /\ Len(diags') = Len(diags) + Len(ds)
        /\ \A k \in 1 .. Len(diags) : diags'[k] = diags[k]
        /\ \A k \in 1 .. Len(ds) : diags'[Len(diags) + k] = ds[k]
    BY <1>2, <2>2, EmitAppends
  <2>4. raised' = raised \cup {ds[k] : k \in 1 .. Len(ds)}
    BY <1>2 DEF Emit
  <2>5. PassBound => PassBound'
    <3>1. \A d \in Fresh(B) : d.pass <= pass
      BY DEF Fresh, D
    <3> QED BY <2>1, <2>4, <3>1 DEF PassBound
  <2>6. NoErrorLost => NoErrorLost'
    <3> SUFFICES ASSUME NoErrorLost, NEW d \in raised',
                        d.pass = 2 \/ d.by # "check" \/ pass = 1
                 PROVE  \E k \in 1 .. Len(diags') : diags'[k] = d
      BY DEF NoErrorLost
    <3>0. Len(diags) \in Nat
      OBVIOUS
    <3>1. CASE d \in raised
      <4>1. PICK k \in 1 .. Len(diags) : diags[k] = d
        BY <3>1 DEF NoErrorLost
      <4>2. k \in 1 .. Len(diags') /\ diags'[k] = d
        BY <2>1, <2>3, <3>0, <4>1
      <4> QED BY <4>2
    <3>2. CASE \E k \in 1 .. Len(ds) : ds[k] = d
      <4>1. PICK k \in 1 .. Len(ds) : ds[k] = d
        BY <3>2
      <4>2. Len(diags) + k \in 1 .. Len(diags') /\ diags'[Len(diags) + k] = d
        BY <2>1, <2>3, <3>0, <4>1
      <4> QED BY <4>2
    <3> QED BY <2>4, <3>1, <3>2
  <2> QED BY <2>1, <2>3, <2>5, <2>6
<1> QED
  BY <1>1, <1>2

\* The splice keeps every diagnostic outside the marks.
LEMMA SpliceKeeps ==
    ASSUME diags \in Seq(D), pre \in Nat, post \in Nat, pre <= post, post <= Len(diags),
           NEW k \in 1 .. Len(diags), k \notin pre + 1 .. post
    PROVE  \E j \in 1 .. Len(splice) : splice[j] = diags[k]
<1> DEFINE a == SubSeq(diags, 1, pre)
           b == SubSeq(diags, post + 1, Len(diags))
<1>0. Len(diags) \in Nat
  OBVIOUS
<1>1. a \in Seq(D) /\ Len(a) = pre /\ \A j \in 1 .. pre : a[j] = diags[j]
  BY <1>0
<1>2. b \in Seq(D) /\ Len(b) = Len(diags) - post /\ \A j \in 1 .. Len(diags) - post : b[j] = diags[post + j]
  BY <1>0
<1>3. splice = a \o b
  BY DEF splice
<1> HIDE DEF a, b
<1>4. /\ Len(splice) = pre + (Len(diags) - post)
      /\ \A j \in 1 .. pre : splice[j] = a[j]
      /\ \A j \in 1 .. Len(diags) - post : splice[pre + j] = b[j]
  <2>1. /\ Len(a \o b) = Len(a) + Len(b)
        /\ \A j \in 1 .. Len(a) : (a \o b)[j] = a[j]
        /\ \A j \in 1 .. Len(b) : (a \o b)[Len(a) + j] = b[j]
    <3>1. a \in Seq(D) /\ b \in Seq(D)
      BY <1>1, <1>2
    <3> QED BY <3>1, ConcatFacts
  <2> QED BY <1>1, <1>2, <1>3, <2>1
<1>5. CASE k <= pre
  <2>1. k \in 1 .. Len(splice) /\ splice[k] = diags[k]
    BY <1>0, <1>1, <1>4, <1>5
  <2> QED BY <2>1
<1>6. CASE k > post
  <2>1. k - post \in 1 .. Len(diags) - post /\ post + (k - post) = k
    BY <1>0, <1>6
  <2>2. pre + (k - post) \in 1 .. Len(splice)
    BY <1>0, <1>4, <2>1
  <2>3. splice[pre + (k - post)] = b[k - post] /\ b[k - post] = diags[post + (k - post)]
    BY <1>2, <1>4, <2>1
  <2> QED BY <2>1, <2>2, <2>3
<1> QED
  BY <1>0, <1>5, <1>6

\* The marks around the first typecheck stay around its diagnostics.
LEMMA MarksKept ==
    ASSUME TypeOK, Marks, DriverStep
    PROVE  Marks'
<1>0. GraphType /\ CascadeType
  BY TypeParts
<1>1. diags \in Seq(D) /\ raised \in SUBSET D /\ pass \in 1 .. 2 /\ Len(diags) \in Nat
      /\ pre \in Nat /\ post \in Nat
  BY <1>0 DEF GraphType, D, CascadeType
<1>2. pass' = pass
  BY DEF DriverStep, Resolved, Check, SkipCodegen, StartCodegen, Generate, Commit,
         WriteRunner, Lint, CompileStage, LinkStage, finish, unchangedGraph
<1>3. Len(diags') >= Len(diags) /\ \A k \in 1 .. Len(diags) : diags'[k] = diags[k]
  <2>1. UNCHANGED <<diags, raised>> \/ \E ds \in Seq(Fresh(FromDriver)) : Emit(ds)
    BY <1>0, DriverEmits
  <2> QED BY <1>1, <1>2, <2>1, EmitKeeps
<1>4. CASE Check /\ pass = 1
  <2>1. pre' = Len(diags) /\ post' = Len(diags')
    BY <1>4 DEF Check
  <2>2. \A k \in Len(diags) + 1 .. Len(diags') : diags'[k].by = "check"
    <3>1. CASE UNCHANGED <<diags, raised>>
      BY <1>1, <3>1
    <3>2. ASSUME NEW b, Emit(When(b, Diag("type", "check")))
          PROVE  \A k \in Len(diags) + 1 .. Len(diags') : diags'[k].by = "check"
      <4>1. CASE b
        <5>1. diags' = diags \o <<Diag("type", "check")>>
          BY <3>2, <4>1 DEF Emit, When
        <5>2. Len(diags') = Len(diags) + 1 /\ diags'[Len(diags) + 1] = Diag("type", "check")
          BY <1>1, <5>1
        <5>3. Diag("type", "check").by = "check"
          BY DEF Diag
        <5> QED BY <1>1, <5>2, <5>3
      <4>2. CASE ~b
        <5>1. diags' = diags \o <<>>
          BY <3>2, <4>2 DEF Emit, When
        <5>2. Len(diags') = Len(diags)
          BY <1>1, <5>1
        <5> QED BY <1>1, <5>2
      <4> QED BY <4>1, <4>2
    <3>3. UNCHANGED <<diags, raised>> \/ \E b : Emit(When(b, Diag("type", "check")))
      BY <1>4 DEF Check
    <3> QED BY <3>1, <3>2, <3>3
  <2> QED BY <1>1, <1>2, <1>3, <1>4, <2>1, <2>2 DEF Marks
<1>5. CASE Check /\ pass # 1
  <2>1. stage' = "lint"
    BY <1>5 DEF Check
  <2> QED BY <2>1 DEF Marks
<1>6. CASE ~Check
  <2>1. pre' = pre /\ post' = post
    BY <1>6 DEF DriverStep, Resolved, SkipCodegen, StartCodegen, Generate, Commit,
                WriteRunner, Lint, CompileStage, LinkStage, finish, markVars
  <2>2. stage' \in {"codegen", "generate", "properties", "restart"} =>
        stage \in {"codegen", "generate", "properties", "restart"}
    BY <1>6 DEF DriverStep, Resolved, SkipCodegen, StartCodegen, Generate, Commit,
                WriteRunner, Lint, CompileStage, LinkStage, finish
  <2> SUFFICES ASSUME stage' \in {"codegen", "generate", "properties", "restart"}
               PROVE  /\ pass' = 1 /\ pre' <= post' /\ post' <= Len(diags')
                      /\ \A k \in pre' + 1 .. post' : diags'[k].by = "check"
    BY DEF Marks
  <2>3. /\ pass = 1 /\ pre <= post /\ post <= Len(diags)
        /\ \A k \in pre + 1 .. post : diags[k].by = "check"
    BY <2>2 DEF Marks
  <2>4. \A k \in pre + 1 .. post : k \in 1 .. Len(diags)
    BY <1>1, <2>3
  <2>5. Len(diags') \in Nat
    BY <1>0, DriverTyped DEF TypeOK, GraphType
  <2> QED BY <1>1, <1>2, <1>3, <2>1, <2>3, <2>4, <2>5
<1> QED
  BY <1>4, <1>5, <1>6

\* The inductive invariant behind the first two theorems.
Inv1 == TypeOK /\ GrayOnStack /\ Marks /\ PassBound /\ NoErrorLost

\* The inductive invariant holds initially.
LEMMA InitInv1 == Init => Inv1
<1> SUFFICES ASSUME Init PROVE Inv1
  OBVIOUS
<1>1. pkg \in Packages
  BY DEF Init, GraphInit
<1>2. GraphType
  <2>1. /\ diags = <<>> /\ raised = {} /\ pass = 1 /\ disk = pkg.disk /\ phase = "idle"
        /\ entries = <<>> /\ queue = <<>> /\ seen = {} /\ mods = <<>> /\ edges = <<>>
        /\ linkedTo = 0 /\ stack = <<>> /\ order = <<>> /\ topo = <<>> /\ cycles = {}
        /\ unreported = {}
    BY DEF Init, GraphInit
  <2>2. disk \subseteq Paths
    BY <1>1, <2>1, PackageFields
  <2>3. edges \in Seq([from: Ids, name: Names, file: Paths]) /\ stack \in Seq(Frames)
        /\ order \in Seq(Ids) /\ topo \in Seq(Ids) /\ linkedTo \in 0 .. Len(edges)
    BY <2>1
  <2>4. diags \in Seq(D) /\ mods \in Seq([file: Paths, name: Names]) /\ entries \in Seq(Paths)
        /\ queue \in Seq(Paths)
    BY <2>1
  <2>5. cycles \subseteq Seq(Ids) /\ unreported \subseteq cycles /\ seen \subseteq Paths
        /\ raised \subseteq D /\ pass \in 1 .. 2
    BY <2>1
  <2>6. phase \notin {"link", "sort", "report", "done"}
    BY <2>1
  <2>7. phase \in {"idle", "load", "link", "sort", "report", "done"}
    BY <2>1
  <2> QED BY <1>1, <2>2, <2>3, <2>4, <2>5, <2>6, <2>7 DEF GraphType, D, Frames
<1>3. CascadeType
  <2>1. /\ stage = "start" /\ pre = 0 /\ post = 0 /\ typed = 0 /\ roots = {} /\ work = {}
        /\ visited = {} /\ paths = <<>> /\ object = FALSE /\ linked = FALSE /\ exit = "none"
    BY DEF Init
  <2>2. paths \in Seq(Paths)
    BY <2>1
  <2>3. /\ pre \in Nat /\ post \in Nat /\ typed \in 0 .. 2
    BY <2>1
  <2>4. object \in BOOLEAN /\ linked \in BOOLEAN
    BY <2>1, Zenon
  <2> QED BY <2>1, <2>2, <2>3, <2>4 DEF CascadeType
<1>4. GrayOnStack /\ Marks /\ PassBound /\ NoErrorLost
  BY DEF Init, GraphInit, GrayOnStack, Marks, PassBound, NoErrorLost
<1> QED
  BY <1>2, <1>3, <1>4, TypeParts DEF Inv1

\* Every step keeps the inductive invariant.
LEMMA StepInv1 == Inv1 /\ [Next]_vars => Inv1'
<1> SUFFICES ASSUME Inv1, [Next]_vars PROVE Inv1'
  OBVIOUS
<1>0. TypeOK /\ GrayOnStack /\ Marks /\ PassBound /\ NoErrorLost /\ GraphType /\ CascadeType
  BY TypeParts DEF Inv1
<1>1. diags \in Seq(D) /\ raised \in SUBSET D /\ pass \in 1 .. 2 /\ Len(diags) \in Nat
      /\ pre \in Nat /\ post \in Nat
  BY <1>0 DEF GraphType, D, CascadeType
<1>2. CASE DriverStep
  <2>1. pass' = pass
    BY <1>2 DEF DriverStep, Resolved, Check, SkipCodegen, StartCodegen, Generate, Commit,
           WriteRunner, Lint, CompileStage, LinkStage, finish, unchangedGraph
  <2>2. UNCHANGED <<diags, raised>> \/ \E ds \in Seq(Fresh(FromDriver)) : Emit(ds)
    BY <1>0, <1>2, DriverEmits
  <2>3. NoErrorLost' /\ PassBound'
    BY <1>0, <1>1, <2>1, <2>2, EmitKeeps
  <2> QED BY <1>0, <1>2, <2>3, DriverTyped, MarksKept DEF Inv1
<1>3. CASE Resolve
  <2>1. pass' = pass
    BY <1>3 DEF Resolve, GraphNext, Visit, StartLink, LinkEdge, StartSort, SortRoot, Examine,
                Retire, EndSort, ReportCycle, EndGraph
  <2>2. UNCHANGED <<diags, raised>> \/ \E ds \in Seq(Fresh(FromGraph)) : Emit(ds)
    BY <1>0, <1>3, GraphEmits DEF Resolve
  <2>3. NoErrorLost' /\ PassBound'
    BY <1>0, <1>1, <2>1, <2>2, EmitKeeps
  <2>4. GraphType' /\ GrayOnStack'
    BY <1>0, <1>3, GraphTyped DEF Resolve
  <2>5. CascadeType' /\ stage' = "resolve"
    BY <1>0, <1>3 DEF Resolve, CascadeType, cascadeVars, markVars, genVars, outVars
  <2> QED BY <2>3, <2>4, <2>5 DEF Inv1, TypeOK, CascadeType, Marks
<1>4. CASE Discover
  <2>1. TypeOK' /\ GrayOnStack'
    BY <1>0, <1>4, StartTyped
  <2>2. stage' \in {"finish", "resolve"} /\ pass' = pass
    BY <1>4 DEF Discover
  <2>3. UNCHANGED <<diags, raised>> \/ \E ds \in Seq(Fresh(FromDriver)) : Emit(ds)
    <3>1. <<Diag("parse", "driver")>> \in Seq(Fresh(FromDriver))
      BY <1>1, DiagTyped DEF Classes, Stages, FromDriver
    <3> QED BY <1>4, <3>1 DEF Discover
  <2>4. NoErrorLost' /\ PassBound'
    BY <1>0, <1>1, <2>2, <2>3, EmitKeeps
  <2> QED BY <2>1, <2>2, <2>4 DEF Inv1, Marks
<1>5. CASE Restart
  <2>1. TypeOK' /\ GrayOnStack'
    BY <1>0, <1>5, StartTyped
  <2>2. stage' = "resolve" /\ pass' = 2 /\ raised' = raised /\ diags' = splice /\ stage = "restart"
    BY <1>5 DEF Restart
  <2>3. /\ pass = 1 /\ pre <= post /\ post <= Len(diags)
        /\ \A k \in pre + 1 .. post : diags[k].by = "check"
    BY <1>0, <2>2 DEF Marks
  <2>4. PassBound'
    BY <1>1, <2>2 DEF PassBound, D
  <2>5. NoErrorLost'
    <3> SUFFICES ASSUME NEW d \in raised, d.pass = 2 \/ d.by # "check"
                 PROVE  \E j \in 1 .. Len(splice) : splice[j] = d
      BY <2>2 DEF NoErrorLost
    <3>1. d.by # "check"
      BY <1>0, <2>3 DEF PassBound
    <3>2. PICK k \in 1 .. Len(diags) : diags[k] = d
      BY <1>0, <2>3 DEF NoErrorLost
    <3>3. k \notin pre + 1 .. post
      BY <2>3, <3>1, <3>2
    <3> QED BY <1>1, <2>3, <3>2, <3>3, SpliceKeeps
  <2> QED BY <2>1, <2>2, <2>4, <2>5 DEF Inv1, Marks
<1>6. CASE UNCHANGED vars
  <2>1. UNCHANGED <<graphVars, cascadeVars>>
    BY <1>6 DEF vars
  <2>2. GraphType' /\ GrayOnStack'
    BY <1>0, <2>1 DEF GraphType, GrayOnStack, graphVars, loadVars, sortVars, Ids
  <2>3. CascadeType' /\ Marks' /\ PassBound' /\ NoErrorLost'
    BY <1>0, <2>1 DEF CascadeType, Marks, PassBound, NoErrorLost, graphVars, cascadeVars,
                      markVars, genVars, outVars
  <2> QED BY <2>2, <2>3 DEF Inv1, TypeOK, CascadeType
<1> QED
  BY <1>2, <1>3, <1>4, <1>5, <1>6 DEF Next, DriverStep

\* The inductive invariant always holds.
LEMMA Inv1Holds == Spec => []Inv1
BY InitInv1, StepInv1, PTL DEF Spec

\* Every variable of a build has its type in every reachable state.
THEOREM CascadeTypes == Spec => []TypeOK
<1>1. Inv1 => TypeOK
  BY DEF Inv1
<1> QED
  BY <1>1, Inv1Holds, PTL

\* Whatever a stage reported is in the outcome of the build, the splice between
\* the two passes of cascade::run included; only the first typecheck's word on
\* a package that is checked again is dropped.
THEOREM CascadeNothingLost == Spec => []NoErrorLost
<1>1. Inv1 => NoErrorLost
  BY DEF Inv1
<1> QED
  BY <1>1, Inv1Holds, PTL
=============================================================================
