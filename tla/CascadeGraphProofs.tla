-------------------------- MODULE CascadeGraphProofs --------------------------
(***************************************************************************)
(* Proofs about what a build works on and what it ends with: the source    *)
(* graph holds what the files and their imports ask for, the import leaf   *)
(* tables agree with it, and a build that succeeds has checked and linked  *)
(* all that it loaded and generated.                                       *)
(***************************************************************************)
EXTENDS CascadeSortProofs

-----------------------------------------------------------------------------
(* Loading and linking. *)

\* The graph of the current pass has begun and the disk has not changed since.
Held == phase # "idle" /\ (stage \in {"properties", "restart"} => paths = <<>>)

\* Only drive_resolve runs the graph, and it runs it to its end.
ResolveRuns ==
    /\ phase \in {"load", "link", "sort", "report"} => stage = "resolve"
    /\ stage \notin {"start", "resolve", "finish", "finished"} => phase = "done"
    /\ stage = "start" => phase = "idle"

\* A module is a file that can be read, under the module path the file gives.
ModulesRead ==
    \A i \in Ids : /\ canonical_key(mods[i].file) \in seen
                   /\ mods[i].name = pkg.name[mods[i].file]

\* No two modules share a module path or a file.
ModulesApart ==
    \A i, j \in Ids :
        \/ mods[i].name = mods[j].name
        \/ canonical_key(mods[i].file) = canonical_key(mods[j].file)
        => i = j

ImportsOf(i) == pkg.imports[mods[i].file]

\* The pending edge e is the import s of module i.
IsImport(e, i, s) == e.from = i /\ e.name = s.name /\ e.file = s.file

\* The pending edges are the imports of the modules.
EdgesAreImports ==
    /\ \A n \in 1 .. Len(edges) :
          \E k \in 1 .. Len(ImportsOf(edges[n].from)) :
              IsImport(edges[n], edges[n].from, ImportsOf(edges[n].from)[k])
    /\ \A i \in Ids : \A k \in 1 .. Len(ImportsOf(i)) :
          \E n \in 1 .. Len(edges) : IsImport(edges[n], i, ImportsOf(i)[k])

Queued(p) == \E k \in 1 .. Len(queue) : queue[k] = p

\* What the entries and the edges name is still queued or was looked at.
Reached ==
    /\ \A k \in 1 .. Len(entries) : Queued(entries[k]) \/ canonical_key(entries[k]) \in seen
    /\ \A n \in 1 .. Len(edges) : Queued(edges[n].file) \/ canonical_key(edges[n].file) \in seen

\* What was looked at is a module or was reported, and so are a module's faults.
Told ==
    /\ Silent("import") =>
          \A x \in seen : \E i \in Ids : canonical_key(mods[i].file) = x
    /\ \A i \in Ids : \A class \in {"parse", "import"} :
          class \in pkg.fault[mods[i].file] => ~Silent(class)

\* The adjacency lists hold exactly the edges linked so far.
LinkedRight ==
    /\ \A i, j \in Ids : EdgeTo(i, j) =>
          \E n \in 1 .. linkedTo : edges[n].from = i /\ Means(edges[n], j)
    /\ \A n \in 1 .. linkedTo : target_id(edges[n]) # {} =>
          \E t \in target_id(edges[n]) : EdgeTo(edges[n].from, t)

LoadInv ==
    /\ ModulesRead /\ ModulesApart /\ EdgesAreImports /\ Reached /\ Told
    /\ phase = "load" => linkedTo = 0
    /\ phase # "load" => queue = <<>> /\ LinkedRight
    /\ phase \in {"sort", "report", "done"} => linkedTo = Len(edges)

\* The names were resolved without two imports of one leaf, or it was reported.
LeavesTold ==
    stage # "resolve" /\ DuplicateLeaf =>
        \E d \in raised : d.class = "import" /\ d.pass = pass

GraphInv == ResolveRuns /\ (Held => LoadInv) /\ (Current => LeavesTold)

\* What was pushed stays pushed, so a pass is silent only if it was before.
LEMMA SilentBefore ==
    ASSUME NEW class, raised \subseteq raised', pass' = pass, Silent(class)'
    PROVE  Silent(class)
BY DEF Silent

\* A pass that pushes a diagnostic of the graph is not silent about its class.
LEMMA NotSilent ==
    ASSUME NEW class, NEW ds, Emit(ds), pass' = pass,
           \E k \in 1 .. Len(ds) : ds[k] = Diag(class, "graph")
    PROVE  ~Silent(class)'
<1>1. Diag(class, "graph") \in raised'
  BY DEF Emit
<1> QED
  BY <1>1 DEF Silent, Diag

\* Of two optional diagnostics pushed together each is pushed.
LEMMA PushedTogether ==
    ASSUME NEW x, NEW y, NEW q \in {<<>>, <<x>>}, NEW r \in {<<>>, <<y>>}
    PROVE  /\ q = <<x>> => \E k \in 1 .. Len(q \o r) : (q \o r)[k] = x
           /\ r = <<y>> => \E k \in 1 .. Len(q \o r) : (q \o r)[k] = y
<1> DEFINE S == {x, y}
<1>0. q \in Seq(S) /\ r \in Seq(S)
  <2>1. x \in S /\ y \in S
    OBVIOUS
  <2> HIDE DEF S
  <2>2. <<>> \in Seq(S) /\ <<x>> \in Seq(S) /\ <<y>> \in Seq(S)
    BY <2>1
  <2> QED BY <2>2
<1> HIDE DEF S
<1>1. /\ Len(q \o r) = Len(q) + Len(r) /\ Len(q) \in Nat /\ Len(r) \in Nat
      /\ \A j \in 1 .. Len(q) : (q \o r)[j] = q[j]
      /\ \A j \in 1 .. Len(r) : (q \o r)[Len(q) + j] = r[j]
  BY <1>0, ConcatFacts
<1>2. ASSUME q = <<x>> PROVE \E k \in 1 .. Len(q \o r) : (q \o r)[k] = x
  <2>1. Len(q) = 1 /\ q[1] = x
    BY <1>2
  <2>2. 1 \in 1 .. Len(q \o r) /\ 1 \in 1 .. Len(q)
    BY <1>1, <2>1
  <2> QED BY <1>1, <2>1, <2>2
<1>3. ASSUME r = <<y>> PROVE \E k \in 1 .. Len(q \o r) : (q \o r)[k] = y
  <2>1. Len(r) = 1 /\ r[1] = y
    BY <1>3
  <2>2. Len(q) + 1 \in 1 .. Len(q \o r) /\ 1 \in 1 .. Len(r)
    BY <1>1, <2>1
  <2> QED BY <1>1, <2>1, <2>2
<1> QED
  BY <1>2, <1>3

\* What is queued is the head of the queue or behind it.
LEMMA TailQueued ==
    ASSUME queue \in Seq(Paths), queue # <<>>, NEW x, Queued(x), x # Head(queue)
    PROVE  \E k \in 1 .. Len(Tail(queue)) : Tail(queue)[k] = x
<1>1. PICK k \in 1 .. Len(queue) : queue[k] = x
  BY DEF Queued
<1>2. Len(queue) \in Nat /\ Head(queue) = queue[1] /\ Len(Tail(queue)) = Len(queue) - 1
      /\ \A j \in 1 .. Len(Tail(queue)) : Tail(queue)[j] = queue[j + 1]
  OBVIOUS
<1>3. k # 1
  BY <1>1, <1>2
<1>4. k - 1 \in 1 .. Len(Tail(queue)) /\ (k - 1) + 1 = k
  BY <1>1, <1>2, <1>3
<1> QED
  BY <1>1, <1>2, <1>4

\* The fields of modules and edges.
LEMMA GraphFields ==
    ASSUME GraphType
    PROVE  /\ pkg \in Packages /\ Len(mods) \in Nat /\ Len(edges) \in Nat
           /\ \A i \in Ids : mods[i].file \in Paths /\ mods[i].name \in Names
           /\ \A n \in 1 .. Len(edges) :
                 edges[n].from \in Ids /\ edges[n].name \in Names /\ edges[n].file \in Paths
           /\ \A p \in Paths : pkg.imports[p] \in Seq(Imports)
           /\ \A i \in Ids : ImportsOf(i) \in Seq(Imports)
<1>1. mods \in Seq([file: Paths, name: Names]) /\ pkg \in Packages
      /\ edges \in Seq([from: Ids, name: Names, file: Paths])
  BY DEF GraphType
<1>2. Len(mods) \in Nat /\ \A i \in Ids : mods[i] \in [file: Paths, name: Names]
  BY <1>1, ElementOf DEF Ids
<1>3. Len(edges) \in Nat /\ \A n \in 1 .. Len(edges) : edges[n] \in [from: Ids, name: Names, file: Paths]
  BY <1>1, ElementOf
<1>4. \A p \in Paths : pkg.imports[p] \in Seq(Imports)
  BY <1>1, PackageFields
<1>5. \A i \in Ids : mods[i].file \in Paths
  BY <1>2
<1>6. \A i \in Ids : ImportsOf(i) \in Seq(Imports)
  BY <1>4, <1>5 DEF ImportsOf
<1> QED
  BY <1>1, <1>2, <1>3, <1>4, <1>5, <1>6

\* The invariant of the loader does not depend on the search.
LEMMA LoadFrame ==
    ASSUME GraphType, LoadInv, raised \subseteq raised',
           UNCHANGED <<pkg, disk, pass, entries, queue, seen, mods, edges, adj, linkedTo>>,
           phase' = phase \/ (phase # "load" /\ phase' # "load"),
           phase' \in {"sort", "report", "done"} => linkedTo = Len(edges)
    PROVE  LoadInv'
<1>1. ModulesRead' /\ ModulesApart'
  BY DEF LoadInv, ModulesRead, ModulesApart, canonical_key, Ids
<1>2. EdgesAreImports'
  BY DEF LoadInv, EdgesAreImports, IsImport, ImportsOf, Ids
<1>3. Reached'
  BY DEF LoadInv, Reached, Queued, canonical_key
<1>4. Told'
  <2>1. \A class : Silent(class)' => Silent(class)
    BY SilentBefore
  <2>2. Silent("import")' => \A x \in seen : \E i \in Ids : canonical_key(mods[i].file) = x
    BY <2>1 DEF LoadInv, Told
  <2>3. \A i \in Ids : \A class \in {"parse", "import"} :
           class \in pkg.fault[mods[i].file] => ~Silent(class)'
    BY <2>1 DEF LoadInv, Told
  <2>4. Silent("import")' => \A x \in seen' : \E i \in Ids' : canonical_key(mods[i].file)' = x
    BY <2>2 DEF canonical_key, Ids
  <2>5. \A i \in Ids' : \A class \in {"parse", "import"} :
           class \in pkg'.fault[mods'[i].file] => ~Silent(class)'
    BY <2>3 DEF Ids
  <2> QED BY <2>4, <2>5 DEF Told
<1>5. ASSUME phase' # "load" PROVE LinkedRight'
  <2>1. LinkedRight
    BY <1>5 DEF LoadInv
  <2>2. \A i, j \in Ids' : EdgeTo(i, j)' =>
           \E n \in 1 .. linkedTo' : edges'[n].from = i /\ Means(edges[n], j)'
    BY <2>1 DEF LinkedRight, EdgeTo, Means, canonical_key, Ids
  <2>3. \A n \in 1 .. linkedTo' : target_id(edges[n])' # {} =>
           \E t \in target_id(edges[n])' : EdgeTo(edges[n].from, t)'
    <3> SUFFICES ASSUME NEW n \in 1 .. linkedTo, target_id(edges[n])' # {}
                 PROVE  \E t \in target_id(edges[n])' : EdgeTo(edges[n].from, t)'
      OBVIOUS
    <3>1. target_id(edges[n])' = target_id(edges[n])
      BY DEF target_id, by_path, by_file_path, canonical_key, Ids
    <3>2. PICK t \in target_id(edges[n]) : EdgeTo(edges[n].from, t)
      BY <2>1, <3>1 DEF LinkedRight
    <3>3. EdgeTo(edges[n].from, t)'
      BY <3>2 DEF EdgeTo
    <3> QED BY <3>1, <3>2, <3>3
  <2> QED BY <2>2, <2>3 DEF LinkedRight
<1> QED
  BY <1>1, <1>2, <1>3, <1>4, <1>5 DEF LoadInv

\* A path that makes no module leaves the queue and is marked as seen.
LEMMA SkipLoad ==
    ASSUME GraphType, LoadInv, phase = "load", queue # <<>>,
           UNCHANGED <<pkg, disk, pass, phase, entries, mods, edges, linkedTo>>,
           seen' = seen \cup {canonical_key(Head(queue))}, queue' = Tail(queue),
           raised \subseteq raised',
           canonical_key(Head(queue)) \in seen \/ ~Silent("import")'
    PROVE  LoadInv'
<1> DEFINE p == Head(queue)
<1>1. ModulesRead' /\ ModulesApart'
  BY DEF LoadInv, ModulesRead, ModulesApart, canonical_key, Ids
<1>2. EdgesAreImports'
  <2>1. \A n \in 1 .. Len(edges) :
          \E k \in 1 .. Len(ImportsOf(edges[n].from)) :
              IsImport(edges[n], edges[n].from, ImportsOf(edges[n].from)[k])
    BY DEF LoadInv, EdgesAreImports
  <2>2. \A i \in Ids : \A k \in 1 .. Len(ImportsOf(i)) :
          \E n \in 1 .. Len(edges) : IsImport(edges[n], i, ImportsOf(i)[k])
    BY DEF LoadInv, EdgesAreImports
  <2>3. \A n \in 1 .. Len(edges') :
          \E k \in 1 .. Len(ImportsOf(edges[n].from)') :
              IsImport(edges[n], edges[n].from, ImportsOf(edges[n].from)[k])'
    BY <2>1 DEF IsImport, ImportsOf
  <2>4. \A i \in Ids' : \A k \in 1 .. Len(ImportsOf(i)') :
          \E n \in 1 .. Len(edges') : IsImport(edges[n], i, ImportsOf(i)[k])'
    <3>1. Ids' = Ids /\ edges' = edges /\ \A i : ImportsOf(i)' = ImportsOf(i)
      BY DEF Ids, ImportsOf
    <3> QED BY <2>2, <3>1 DEF IsImport
  <2> QED BY <2>3, <2>4 DEF EdgesAreImports
<1>3. \A x : Queued(x) => Queued(x)' \/ canonical_key(x) \in seen'
  BY TailQueued DEF GraphType, Queued
<1>4. Reached'
  <2>1. \A x : canonical_key(x) \in seen => canonical_key(x) \in seen'
    OBVIOUS
  <2>2. \A k \in 1 .. Len(entries) : Queued(entries[k])' \/ canonical_key(entries[k]) \in seen'
    BY <1>3, <2>1 DEF LoadInv, Reached, Queued
  <2>3. \A n \in 1 .. Len(edges) : Queued(edges[n].file)' \/ canonical_key(edges[n].file) \in seen'
    BY <1>3, <2>1 DEF LoadInv, Reached, Queued
  <2> QED BY <2>2, <2>3 DEF Reached, Queued, canonical_key
<1>5. Told'
  <2>1. \A class : Silent(class)' => Silent(class)
    BY SilentBefore
  <2>2. Silent("import")' => seen' = seen
    OBVIOUS
  <2>3. Silent("import")' => \A x \in seen' : \E i \in Ids : canonical_key(mods[i].file) = x
    BY <2>1, <2>2 DEF LoadInv, Told
  <2>4. \A i \in Ids : \A class \in {"parse", "import"} :
           class \in pkg.fault[mods[i].file] => ~Silent(class)'
    BY <2>1 DEF LoadInv, Told
  <2>5. Silent("import")' => \A x \in seen' : \E i \in Ids' : canonical_key(mods[i].file)' = x
    BY <2>3 DEF canonical_key, Ids
  <2>6. \A i \in Ids' : \A class \in {"parse", "import"} :
           class \in pkg'.fault[mods'[i].file] => ~Silent(class)'
    BY <2>4 DEF Ids
  <2> QED BY <2>5, <2>6 DEF Told
<1> QED
  BY <1>1, <1>2, <1>4, <1>5 DEF LoadInv

\* A path that makes a module adds it, its imports and what they name.
LEMMA RegisterLoad ==
    ASSUME GraphType, LoadInv, phase = "load", queue # <<>>,
           UNCHANGED <<pkg, disk, pass, phase, entries, linkedTo>>,
           seen' = seen \cup {canonical_key(Head(queue))},
           canonical_key(Head(queue)) \notin seen,
           by_path(pkg.name[Head(queue)]) = {},
           Register(Head(queue))
    PROVE  LoadInv'
<1> DEFINE p == Head(queue)
           is == pkg.imports[p]
           id == Len(mods) + 1
           qs == [k \in 1 .. Len(is) |-> is[k].file]
           es == [k \in 1 .. Len(is) |-> [from |-> id, name |-> is[k].name, file |-> is[k].file]]
<1>1. /\ queue \in Seq(Paths) /\ p \in Paths /\ Tail(queue) \in Seq(Paths)
      /\ Len(mods) \in Nat /\ Len(edges) \in Nat /\ is \in Seq(Imports)
      /\ \A i \in Ids : mods[i].file \in Paths /\ mods[i].name \in Names
      /\ edges \in Seq([from: Ids, name: Names, file: Paths])
  BY GraphFields DEF GraphType
<1>2. /\ mods' = Append(mods, [file |-> p, name |-> pkg.name[p]])
      /\ queue' = Tail(queue) \o qs /\ edges' = edges \o es
      /\ Emit(Complaints(p, "parse") \o Complaints(p, "import"))
  BY DEF Register
<1>3. /\ Len(mods') = id /\ mods'[id].file = p /\ mods'[id].name = pkg.name[p]
      /\ \A i \in Ids : mods'[i] = mods[i]
      /\ Ids' = Ids \cup {id} /\ id \notin Ids /\ id \in Nat
  <2>1. mods \in Seq([file: Paths, name: Names])
    BY DEF GraphType
  <2>2. Len(mods') = id /\ mods'[id] = [file |-> p, name |-> pkg.name[p]]
        /\ \A i \in Ids : mods'[i] = mods[i]
    BY <1>2, <2>1 DEF Ids
  <2>3. Ids' = Ids \cup {id} /\ id \notin Ids /\ id \in Nat
    BY <1>1, <2>2 DEF Ids
  <2> QED BY <2>2, <2>3
<1> HIDE DEF p, is, id
<1>4. /\ Len(is) \in Nat /\ Len(qs) = Len(is) /\ Len(es) = Len(is)
      /\ qs \in Seq(Paths) /\ es \in Seq([from: {id}, name: Names, file: Paths])
      /\ \A k \in 1 .. Len(is) : /\ qs[k] = is[k].file
                                 /\ es[k].from = id /\ es[k].name = is[k].name /\ es[k].file = is[k].file
  <2>1. Len(is) \in Nat /\ \A k \in 1 .. Len(is) : is[k] \in Imports
    BY <1>1, ElementOf
  <2>2. qs \in [1 .. Len(is) -> Paths] /\ es \in [1 .. Len(is) -> [from: {id}, name: Names, file: Paths]]
    BY <2>1 DEF Imports
  <2>3. /\ \A k \in 1 .. Len(is) : /\ qs[k] = is[k].file
                                   /\ es[k].from = id /\ es[k].name = is[k].name /\ es[k].file = is[k].file
    OBVIOUS
  <2> QED BY <2>1, <2>2, <2>3, FunctionIsSeq
<1> HIDE DEF qs, es
<1>5. /\ Len(queue') = Len(Tail(queue)) + Len(qs) /\ Len(Tail(queue)) \in Nat
      /\ \A k \in 1 .. Len(Tail(queue)) : queue'[k] = Tail(queue)[k]
      /\ \A k \in 1 .. Len(qs) : queue'[Len(Tail(queue)) + k] = qs[k]
  <2>1. Tail(queue) \in Seq(Paths) /\ qs \in Seq(Paths) /\ queue' = Tail(queue) \o qs
    BY <1>1, <1>2, <1>4
  <2> QED BY <2>1, ConcatFacts
<1>6. /\ Len(edges') = Len(edges) + Len(is)
      /\ \A n \in 1 .. Len(edges) : edges'[n] = edges[n]
      /\ \A k \in 1 .. Len(is) : edges'[Len(edges) + k] = es[k]
  <2>1. es \in Seq([from: Ids \cup {id}, name: Names, file: Paths])
    BY <1>4, SeqGrows
  <2>2. edges \in Seq([from: Ids \cup {id}, name: Names, file: Paths])
    <3>1. [from: Ids, name: Names, file: Paths] \subseteq [from: Ids \cup {id}, name: Names, file: Paths]
      OBVIOUS
    <3> QED BY <1>1, <3>1, SeqGrows
  <2> QED BY <1>2, <1>4, <2>1, <2>2, ConcatFacts
\* Queued files stay reachable, and so do the new ones.
<1>7. /\ \A x : Queued(x) => Queued(x)' \/ canonical_key(x) \in seen'
      /\ \A k \in 1 .. Len(is) : \E j \in 1 .. Len(queue') : queue'[j] = is[k].file
  <2>1. ASSUME NEW x, Queued(x), x # p
        PROVE  Queued(x)'
    <3>1. PICK k \in 1 .. Len(Tail(queue)) : Tail(queue)[k] = x
      BY <1>1, <2>1, TailQueued DEF p
    <3>2. k \in 1 .. Len(queue') /\ queue'[k] = x
      BY <1>4, <1>5, <3>1
    <3> QED BY <3>2 DEF Queued
  <2>2. ASSUME NEW k \in 1 .. Len(is)
        PROVE  \E j \in 1 .. Len(queue') : queue'[j] = is[k].file
    <3>1. Len(Tail(queue)) + k \in 1 .. Len(queue')
      BY <1>4, <1>5
    <3> QED BY <1>4, <1>5, <3>1
  <2> QED BY <2>1, <2>2 DEF p
<1>8. ModulesRead' /\ ModulesApart'
  <2>1. \A i \in Ids : canonical_key(mods[i].file) \in seen /\ mods[i].name = pkg.name[mods[i].file]
    BY DEF LoadInv, ModulesRead
  <2>2. \A i \in Ids : mods[i].name # pkg.name[p]
    BY DEF by_path, p
  <2>3. \A i \in Ids : canonical_key(mods[i].file) # canonical_key(p)
    BY <2>1 DEF p
  <2>4. \A i \in Ids' : /\ canonical_key(mods'[i].file) \in seen'
                        /\ mods'[i].name = pkg.name[mods'[i].file]
    BY <1>3, <2>1 DEF p
  <2>5. \A i, j \in Ids' :
           \/ mods'[i].name = mods'[j].name
           \/ canonical_key(mods'[i].file) = canonical_key(mods'[j].file)
           => i = j
    <3>1. \A i, j \in Ids :
           \/ mods[i].name = mods[j].name
           \/ canonical_key(mods[i].file) = canonical_key(mods[j].file)
           => i = j
      BY DEF LoadInv, ModulesApart
    <3> QED BY <1>3, <2>2, <2>3, <3>1
  <2> QED BY <2>4, <2>5 DEF ModulesRead, ModulesApart, canonical_key
<1>9. EdgesAreImports'
  <2>0. /\ \A i \in Ids : pkg'.imports[mods'[i].file] = ImportsOf(i)
        /\ pkg'.imports[mods'[id].file] = is
    BY <1>3 DEF ImportsOf, is
  <2>1. ASSUME NEW n \in 1 .. Len(edges')
        PROVE  LET js == pkg'.imports[mods'[edges'[n].from].file]
               IN  \E k \in 1 .. Len(js) : edges'[n].name = js[k].name /\ edges'[n].file = js[k].file
    <3>1. CASE n \in 1 .. Len(edges)
      <4>1. edges'[n] = edges[n] /\ edges[n].from \in Ids
        BY <1>6, <3>1, GraphFields
      <4>2. \E k \in 1 .. Len(ImportsOf(edges[n].from)) :
               edges[n].name = ImportsOf(edges[n].from)[k].name
               /\ edges[n].file = ImportsOf(edges[n].from)[k].file
        BY <3>1 DEF LoadInv, EdgesAreImports, IsImport
      <4> QED BY <2>0, <4>1, <4>2
    <3>2. CASE n \notin 1 .. Len(edges)
      <4>1. PICK k \in 1 .. Len(is) : n = Len(edges) + k
        <5>1. n - Len(edges) \in 1 .. Len(is) /\ n = Len(edges) + (n - Len(edges))
          BY <1>1, <1>4, <1>6, <3>2
        <5> QED BY <5>1
      <4>2. edges'[n] = es[k]
        BY <1>6, <4>1
      <4> QED BY <1>4, <2>0, <4>2
    <3> QED BY <3>1, <3>2
  <2>2. ASSUME NEW i \in Ids', NEW k \in 1 .. Len(pkg'.imports[mods'[i].file])
        PROVE  \E n \in 1 .. Len(edges') :
                  /\ edges'[n].from = i
                  /\ edges'[n].name = pkg'.imports[mods'[i].file][k].name
                  /\ edges'[n].file = pkg'.imports[mods'[i].file][k].file
    <3>1. CASE i \in Ids
      <4>1. PICK n \in 1 .. Len(edges) : IsImport(edges[n], i, ImportsOf(i)[k])
        BY <2>0, <2>2, <3>1 DEF LoadInv, EdgesAreImports
      <4>2. n \in 1 .. Len(edges') /\ edges'[n] = edges[n]
        <5>1. Len(edges) \in Nat /\ Len(is) \in Nat /\ Len(edges') = Len(edges) + Len(is)
          BY <1>1, <1>4, <1>6
        <5>2. n \in 1 .. Len(edges')
          BY <5>1
        <5> QED BY <1>6, <5>2
      <4> QED BY <2>0, <3>1, <4>1, <4>2 DEF IsImport
    <3>2. CASE i = id
      <4>1. k \in 1 .. Len(is)
        BY <2>0, <2>2, <3>2
      <4>2. Len(edges) + k \in 1 .. Len(edges') /\ edges'[Len(edges) + k] = es[k]
        BY <1>1, <1>4, <1>6, <4>1
      <4> QED BY <1>4, <2>0, <3>2, <4>1, <4>2
    <3> QED BY <1>3, <3>1, <3>2
  <2> QED BY <2>1, <2>2 DEF EdgesAreImports, IsImport, ImportsOf
<1>10. Reached'
  <2>1. \A x : canonical_key(x) \in seen => canonical_key(x) \in seen'
    OBVIOUS
  <2>2. \A k \in 1 .. Len(entries) :
           (\E j \in 1 .. Len(queue') : queue'[j] = entries[k]) \/ canonical_key(entries[k]) \in seen'
    BY <1>7, <2>1 DEF LoadInv, Reached, Queued
  <2>3. ASSUME NEW n \in 1 .. Len(edges')
        PROVE  \/ \E j \in 1 .. Len(queue') : queue'[j] = edges'[n].file
               \/ canonical_key(edges'[n].file) \in seen'
    <3>1. CASE n \in 1 .. Len(edges)
      <4>1. Queued(edges[n].file) \/ canonical_key(edges[n].file) \in seen
        BY <3>1 DEF LoadInv, Reached
      <4>2. (\E j \in 1 .. Len(queue') : queue'[j] = edges[n].file)
            \/ canonical_key(edges[n].file) \in seen'
        BY <1>7, <2>1, <4>1 DEF Queued
      <4> QED BY <1>6, <3>1, <4>2
    <3>2. CASE n \notin 1 .. Len(edges)
      <4>1. PICK k \in 1 .. Len(is) : n = Len(edges) + k
        <5>1. n - Len(edges) \in 1 .. Len(is) /\ n = Len(edges) + (n - Len(edges))
          BY <1>1, <1>4, <1>6, <3>2
        <5> QED BY <5>1
      <4>2. edges'[n] = es[k] /\ es[k].file = is[k].file
        BY <1>4, <1>6, <4>1
      <4> QED BY <1>7, <4>2
    <3> QED BY <3>1, <3>2
  <2> QED BY <2>2, <2>3 DEF Reached, Queued, canonical_key
<1>11. Told'
  <2> DEFINE a == Complaints(p, "parse")
             b == Complaints(p, "import")
  <2>0. raised \subseteq raised'
    BY <1>2 DEF Emit
  <2>1. \A class : Silent(class)' => Silent(class)
    BY <2>0, SilentBefore
  <2>2. ASSUME NEW class \in {"parse", "import"}, class \in pkg.fault[p]
        PROVE  ~Silent(class)'
    <3>1. /\ a \in {<<>>, <<Diag("parse", "graph")>>} /\ b \in {<<>>, <<Diag("import", "graph")>>}
          /\ class = "parse" => a = <<Diag("parse", "graph")>>
          /\ class = "import" => b = <<Diag("import", "graph")>>
      BY <2>2 DEF Complaints, When
    <3> HIDE DEF a, b
    <3>2. \E k \in 1 .. Len(a \o b) : (a \o b)[k] = Diag(class, "graph")
      BY <2>2, <3>1, PushedTogether
    <3>3. Emit(a \o b)
      BY <1>2 DEF a, b
    <3> QED BY <3>2, <3>3, NotSilent
  <2>3. Silent("import")' => \A x \in seen' : \E i \in Ids' : canonical_key(mods'[i].file) = x
    <3> SUFFICES ASSUME Silent("import")', NEW x \in seen'
                 PROVE  \E i \in Ids' : canonical_key(mods'[i].file) = x
      OBVIOUS
    <3>1. CASE x \in seen
      <4>1. PICK i \in Ids : canonical_key(mods[i].file) = x
        BY <2>1, <3>1 DEF LoadInv, Told
      <4> QED BY <1>3, <4>1
    <3>2. CASE x = canonical_key(p)
      BY <1>3, <3>2
    <3> QED BY <3>1, <3>2 DEF p
  <2>4. \A i \in Ids' : \A class \in {"parse", "import"} :
           class \in pkg.fault[mods'[i].file] => ~Silent(class)'
    <3>1. \A i \in Ids : \A class \in {"parse", "import"} :
             class \in pkg.fault[mods[i].file] => ~Silent(class)'
      BY <2>1 DEF LoadInv, Told
    <3> QED BY <1>3, <2>2, <3>1
  <2>5. Silent("import")' => \A x \in seen' : \E i \in Ids' : canonical_key(mods[i].file)' = x
    BY <2>3 DEF canonical_key
  <2> QED BY <2>4, <2>5 DEF Told
<1> QED
  BY <1>8, <1>9, <1>10, <1>11 DEF LoadInv

\* visit keeps the invariant of the loader.
LEMMA VisitLoad ==
    ASSUME GraphType, LoadInv, Visit
    PROVE  LoadInv'
<1> DEFINE p == Head(queue)
<1>0. /\ phase = "load" /\ queue # <<>> /\ seen' = seen \cup {canonical_key(p)}
      /\ UNCHANGED <<pkg, disk, pass, phase, entries, linkedTo>>
  BY DEF Visit
<1>1. CASE canonical_key(p) \in seen /\ queue' = Tail(queue) /\ UNCHANGED <<mods, edges, diags, raised>>
  BY <1>0, <1>1, SkipLoad
<1>2. ASSUME NEW ds, Emit(ds), \E k \in 1 .. Len(ds) : ds[k] = Diag("import", "graph"),
             queue' = Tail(queue), UNCHANGED <<mods, edges>>
      PROVE  LoadInv'
  <2>1. ~Silent("import")'
    BY <1>0, <1>2, NotSilent
  <2>2. raised \subseteq raised'
    BY <1>2 DEF Emit
  <2> QED BY <1>0, <1>2, <2>1, <2>2, SkipLoad
<1>3. CASE /\ queue' = Tail(queue) /\ Emit(<<Diag("import", "graph")>>)
           /\ UNCHANGED <<mods, edges>>
  <2> DEFINE ds == <<Diag("import", "graph")>>
  <2>1. 1 \in 1 .. Len(ds) /\ ds[1] = Diag("import", "graph")
    OBVIOUS
  <2>2. Emit(ds)
    BY <1>3
  <2> HIDE DEF ds
  <2> QED BY <1>2, <1>3, <2>1, <2>2
<1>4. CASE /\ queue' = Tail(queue) /\ Emit(Complaints(p, "parse") \o <<Diag("import", "graph")>>)
           /\ UNCHANGED <<mods, edges>>
  <2> DEFINE a == Complaints(p, "parse")
             b == <<Diag("import", "graph")>>
  <2>1. a \in {<<>>, <<Diag("parse", "graph")>>} /\ b \in {<<>>, <<Diag("import", "graph")>>}
    BY DEF Complaints, When
  <2>2. Emit(a \o b) /\ b = <<Diag("import", "graph")>>
    BY <1>4
  <2> HIDE DEF a, b
  <2>3. \E k \in 1 .. Len(a \o b) : (a \o b)[k] = Diag("import", "graph")
    BY <2>1, <2>2, PushedTogether
  <2> QED BY <1>2, <1>4, <2>2, <2>3
<1>5. CASE /\ canonical_key(p) \notin seen /\ by_path(pkg.name[p]) = {} /\ Register(p)
  BY <1>0, <1>5, RegisterLoad
<1> QED
  BY <1>1, <1>3, <1>4, <1>5 DEF Visit

\* Turning the pending edges into adjacency lists keeps the invariant.
LEMMA LinkLoad ==
    ASSUME GraphType, LoadInv, StartLink \/ LinkEdge
    PROVE  LoadInv'
<1>0. /\ phase \in {"load", "link"} /\ phase' = "link" /\ queue = <<>>
      /\ UNCHANGED <<pkg, disk, pass, raised, entries, queue, seen, mods, edges>>
  BY DEF StartLink, LinkEdge, LoadInv, loadVars
<1>1. ModulesRead' /\ ModulesApart'
  BY <1>0 DEF LoadInv, ModulesRead, ModulesApart, canonical_key, Ids
<1>2. EdgesAreImports'
  BY <1>0 DEF LoadInv, EdgesAreImports, IsImport, ImportsOf, Ids
<1>3. Reached' /\ Told'
  BY <1>0 DEF LoadInv, Reached, Told, Queued, Silent, canonical_key, Ids
<1>4. \A e : target_id(e)' = target_id(e)
  BY <1>0 DEF target_id, by_path, by_file_path, canonical_key, Ids
<1>5. \A e, j : Means(e, j)' <=> Means(e, j)
  BY <1>0 DEF Means, canonical_key
<1>6. CASE StartLink
  <2>1. linkedTo = 0 /\ linkedTo' = 0 /\ adj' = [i \in Ids |-> <<>>]
    BY <1>6 DEF StartLink, LoadInv
  <2>2. \A i, j \in Ids : ~EdgeTo(i, j)'
    BY <2>1 DEF EdgeTo
  <2>3. Ids' = Ids
    BY <1>0 DEF Ids
  <2>4. 1 .. linkedTo' = {}
    BY <2>1
  <2>5. LinkedRight'
    BY <2>2, <2>3, <2>4 DEF LinkedRight
  <2> QED BY <1>0, <1>1, <1>2, <1>3, <2>5 DEF LoadInv
<1>7. CASE LinkEdge
  <2> DEFINE m == linkedTo + 1
             e == edges[m]
  <2>1. /\ m \in 1 .. Len(edges) /\ linkedTo \in Nat /\ linkedTo' = m
        /\ adj \in [Ids -> Seq(Ids)] /\ LinkedRight
        /\ e.from \in Ids
    <3>1. linkedTo \in 0 .. Len(edges) /\ linkedTo < Len(edges) /\ linkedTo' = linkedTo + 1
          /\ Len(edges) \in Nat /\ phase = "link"
      BY <1>7 DEF GraphType, LinkEdge
    <3>2. m \in 1 .. Len(edges) /\ linkedTo \in Nat
      BY <3>1
    <3>3. adj \in [Ids -> Seq(Ids)] /\ LinkedRight
      BY <3>1 DEF GraphType, LoadInv
    <3>4. e.from \in Ids
      BY <3>2, GraphFields
    <3> QED BY <3>1, <3>2, <3>3, <3>4
  <2>2. \/ target_id(e) = {} /\ adj' = adj
        \/ \E t \in target_id(e) : adj' = [adj EXCEPT ![e.from] = Append(@, t)]
    BY <1>7 DEF LinkEdge
  <2>3. target_id(e) \subseteq Ids /\ \A t \in target_id(e) : Means(e, t)
    BY DEF target_id, by_path, by_file_path, Means
  <2>n. 1 .. linkedTo' = (1 .. linkedTo) \cup {m} /\ m \in 1 .. linkedTo'
    BY <2>1
  <2> HIDE DEF m, e
  \* An edge that was there stays, and the only new one is of e.
  <2>4. ASSUME NEW i \in Ids, NEW j \in Ids
        PROVE  /\ EdgeTo(i, j) => EdgeTo(i, j)'
               /\ EdgeTo(i, j)' => EdgeTo(i, j) \/ (i = e.from /\ j \in target_id(e))
    <3>1. CASE adj' = adj
      BY <3>1 DEF EdgeTo
    <3>2. ASSUME NEW t \in target_id(e), adj' = [adj EXCEPT ![e.from] = Append(@, t)]
          PROVE  /\ EdgeTo(i, j) => EdgeTo(i, j)'
                 /\ EdgeTo(i, j)' => EdgeTo(i, j) \/ (i = e.from /\ j \in target_id(e))
      <4>1. CASE i = e.from
        <5>1. adj'[i] = Append(adj[i], t) /\ adj[i] \in Seq(Ids) /\ t \in Ids
          BY <2>1, <2>3, <3>2, <4>1
        <5>2. /\ Len(adj[i]) \in Nat /\ Len(adj'[i]) = Len(adj[i]) + 1
              /\ adj'[i][Len(adj[i]) + 1] = t
              /\ \A k \in 1 .. Len(adj[i]) : adj'[i][k] = adj[i][k]
          BY <5>1
        <5>3. 1 .. Len(adj'[i]) = (1 .. Len(adj[i])) \cup {Len(adj[i]) + 1}
          BY <5>2
        <5> QED BY <3>2, <4>1, <5>2, <5>3 DEF EdgeTo
      <4>2. CASE i # e.from
        <5>1. adj'[i] = adj[i]
          BY <2>1, <3>2, <4>2
        <5> QED BY <5>1 DEF EdgeTo
      <4> QED BY <4>1, <4>2
    <3> QED BY <2>2, <3>1, <3>2
  <2>5. ASSUME NEW t \in target_id(e), adj' = [adj EXCEPT ![e.from] = Append(@, t)],
               NEW f \in Ids, f = e.from
        PROVE  EdgeTo(f, t)'
    <3>1. adj'[f] = Append(adj[f], t) /\ adj[f] \in Seq(Ids) /\ t \in Ids
      BY <2>1, <2>3, <2>5
    <3>2. Len(adj[f]) + 1 \in 1 .. Len(adj'[f]) /\ adj'[f][Len(adj[f]) + 1] = t
      BY <3>1
    <3> QED BY <3>2 DEF EdgeTo
  <2>6. \A i, j \in Ids : EdgeTo(i, j)' =>
           \E n \in 1 .. linkedTo' : edges[n].from = i /\ Means(edges[n], j)
    <3> SUFFICES ASSUME NEW i \in Ids, NEW j \in Ids, EdgeTo(i, j)'
                 PROVE  \E n \in 1 .. linkedTo' : edges[n].from = i /\ Means(edges[n], j)
      OBVIOUS
    <3>1. CASE EdgeTo(i, j)
      BY <2>1, <2>n, <3>1 DEF LinkedRight
    <3>2. CASE i = e.from /\ j \in target_id(e)
      BY <2>3, <2>n, <3>2 DEF e
    <3> QED BY <2>4, <3>1, <3>2
  <2>7. \A n \in 1 .. linkedTo' : target_id(edges[n]) # {} =>
           \E t \in target_id(edges[n]) : EdgeTo(edges[n].from, t)'
    <3> SUFFICES ASSUME NEW n \in 1 .. linkedTo', target_id(edges[n]) # {}
                 PROVE  \E t \in target_id(edges[n]) : EdgeTo(edges[n].from, t)'
      OBVIOUS
    <3>1. CASE n \in 1 .. linkedTo
      <4>1. PICK t \in target_id(edges[n]) : EdgeTo(edges[n].from, t)
        BY <2>1, <3>1 DEF LinkedRight
      <4>2. n \in 1 .. Len(edges)
        BY <2>1, <3>1 DEF m
      <4>3. edges[n].from \in Ids /\ t \in Ids
        BY <4>2, GraphFields DEF target_id, by_path, by_file_path
      <4>4. PICK f \in Ids : f = edges[n].from
        BY <4>3
      <4>5. EdgeTo(f, t)'
        BY <2>4, <4>1, <4>3, <4>4
      <4> QED BY <1>0, <4>4, <4>5
    <3>2. CASE n = m
      <4>1. PICK f \in Ids : f = e.from
        BY <2>1
      <4>2. PICK t \in target_id(e) : EdgeTo(f, t)'
        BY <2>2, <2>5, <3>2, <4>1 DEF e
      <4>3. edges[n] = e
        BY <3>2 DEF e
      <4> QED BY <1>0, <4>1, <4>2, <4>3
    <3> QED BY <2>n, <3>1, <3>2
  <2>8. LinkedRight'
    <3>1. edges' = edges /\ Ids' = Ids
      BY <1>0 DEF Ids
    <3>2. \A i, j \in Ids' : EdgeTo(i, j)' =>
             \E n \in 1 .. linkedTo' : edges'[n].from = i /\ Means(edges[n], j)'
      BY <1>5, <2>6, <3>1
    <3>3. \A n \in 1 .. linkedTo' : target_id(edges[n])' # {} =>
             \E t \in target_id(edges[n])' : EdgeTo(edges[n].from, t)'
      BY <1>4, <2>7, <3>1
    <3> QED BY <3>2, <3>3 DEF LinkedRight
  <2> QED BY <1>0, <1>1, <1>2, <1>3, <2>8 DEF LoadInv
<1> QED
  BY <1>6, <1>7

\* A fresh graph has loaded nothing, and all its entries are queued.
LEMMA StartLoad ==
    ASSUME NEW es \in Seq(Paths), StartGraph(es)
    PROVE  LoadInv'
<1>1. /\ entries' = es /\ queue' = es /\ seen' = {} /\ mods' = <<>> /\ edges' = <<>>
      /\ linkedTo' = 0 /\ phase' = "load"
  BY DEF StartGraph
<1>2. Ids' = {} /\ 1 .. Len(edges') = {}
  BY <1>1 DEF Ids
<1>3. ModulesRead' /\ ModulesApart' /\ EdgesAreImports'
  BY <1>2 DEF ModulesRead, ModulesApart, EdgesAreImports
<1>4. Reached'
  BY <1>1, <1>2 DEF Reached, Queued
<1>5. Told'
  BY <1>1, <1>2 DEF Told
<1> QED
  BY <1>1, <1>3, <1>4, <1>5 DEF LoadInv

\* Every turn of the loops of build_source_graph keeps the invariant.
LEMMA GraphLoad ==
    ASSUME GraphType, LoadInv, GraphNext
    PROVE  LoadInv'
<1>1. CASE Visit \/ StartLink \/ LinkEdge
  BY <1>1, VisitLoad, LinkLoad
<1>2. CASE StartSort \/ SortRoot \/ Examine \/ Retire \/ EndSort \/ ReportCycle \/ EndGraph
  <2>1. /\ UNCHANGED <<pkg, disk, pass, entries, queue, seen, mods, edges, adj, linkedTo>>
        /\ phase # "load" /\ phase' # "load"
        /\ UNCHANGED raised \/ \E ds : Emit(ds)
    BY <1>2 DEF StartSort, SortRoot, Examine, Retire, EndSort, ReportCycle, EndGraph, loadVars
  <2>2. phase' \in {"sort", "report", "done"} => linkedTo = Len(edges)
    BY <1>2 DEF StartSort, SortRoot, Examine, Retire, EndSort, ReportCycle, EndGraph, LoadInv
  <2> QED BY <2>1, <2>2, LoadFrame, RaisedGrows
<1> QED
  BY <1>1, <1>2 DEF GraphNext

\* The leaf tables are a function of the finished graph.
LEMMA LeavesKept ==
    ASSUME UNCHANGED <<pkg, disk, mods>>
    PROVE  DuplicateLeaf' <=> DuplicateLeaf
<1>1. Ids' = Ids
  BY DEF Ids
<1>2. \A e : LeafTarget(e)' = LeafTarget(e)
  BY DEF LeafTarget, by_path, by_file_path, canonical_key, Ids
<1>3. ASSUME NEW i PROVE Targeted(i)' = Targeted(i)
  <2>1. Targeted(i)' = {k \in 1 .. Len(pkg.imports[mods[i].file]) :
                           /\ pkg.imports[mods[i].file][k].form # "derive"
                           /\ LeafTarget(pkg.imports[mods[i].file][k])' # {}}
    BY DEF Targeted
  <2>2. \A k : LeafTarget(pkg.imports[mods[i].file][k])' = LeafTarget(pkg.imports[mods[i].file][k])
    BY DEF LeafTarget, by_path, by_file_path, canonical_key, Ids
  <2> QED BY <2>1, <2>2 DEF Targeted
<1>4. ASSUME NEW i PROVE Firsts(i)' = Firsts(i)
  BY <1>3 DEF Firsts
<1>5. ASSUME NEW i, NEW k, NEW m PROVE Binds(i, k, m)' <=> Binds(i, k, m)
  BY <1>4 DEF Binds
<1> QED
  BY <1>1, <1>4, <1>5 DEF DuplicateLeaf

\* As long as the graph is looked at, the disk is what it was loaded from.
LEMMA HeldBefore ==
    ASSUME TypeOK, DriverStep, Held'
    PROVE  Held /\ disk' = disk
<1>0. phase' = phase /\ phase # "idle" /\ paths \in Seq(Paths)
  BY DEF Held, TypeOK, DriverStep, Resolved, Check, SkipCodegen, StartCodegen, Generate, Commit,
         WriteRunner, Lint, CompileStage, LinkStage, finish, unchangedGraph
<1>1. CASE Commit
  <2>1. stage = "generate" /\ stage' = "properties" /\ paths' = paths
    BY <1>1 DEF Commit
  <2>2. paths = <<>>
    BY <2>1 DEF Held
  <2>3. Artifacts = {}
    BY <2>2 DEF Artifacts
  <2>4. disk' = disk
    BY <1>1, <2>3 DEF Commit
  <2> QED BY <1>0, <2>1, <2>4 DEF Held
<1>2. CASE WriteRunner
  <2>1. paths' = <<>>
    BY <1>2 DEF WriteRunner, Held
  <2>2. \A x : Append(paths, x) # <<>>
    BY <1>0
  <2>3. paths = <<>> /\ disk' = disk
    BY <1>2, <2>1, <2>2 DEF WriteRunner
  <2> QED BY <1>0, <2>3 DEF Held
<1>3. CASE Resolved \/ Check \/ SkipCodegen \/ StartCodegen \/ Generate
            \/ Lint \/ CompileStage \/ LinkStage \/ finish
  <2>1. stage \notin {"properties", "restart"} /\ disk' = disk
    BY <1>3 DEF Resolved, Check, SkipCodegen, StartCodegen, Generate, Lint,
                CompileStage, LinkStage, finish
  <2> QED BY <1>0, <2>1 DEF Held
<1> QED
  BY <1>1, <1>2, <1>3 DEF DriverStep

\* Every step keeps the invariant of the graph.
LEMMA GraphStep ==
    ASSUME Inv1, GraphInv, [Next]_vars
    PROVE  GraphInv'
<1>0. TypeOK /\ GraphType /\ CascadeType /\ Marks
  BY TypeParts DEF Inv1
<1>1. CASE Resolve
  <2>1. stage = "resolve" /\ stage' = "resolve" /\ GraphNext
    BY <1>1 DEF Resolve, cascadeVars
  <2>2. Held
    BY <2>1 DEF Held, GraphNext, Visit, StartLink, LinkEdge, StartSort, SortRoot, Examine,
                Retire, EndSort, ReportCycle, EndGraph
  <2>3. LoadInv'
    BY <1>0, <2>1, <2>2, GraphLoad DEF GraphInv
  <2> QED BY <2>1, <2>3 DEF GraphInv, ResolveRuns, LeavesTold
<1>2. CASE DriverStep
  <2>1. UNCHANGED <<pkg, pass, phase, entries, queue, seen, mods, edges, adj, linkedTo>>
    BY <1>2 DEF DriverStep, Resolved, Check, SkipCodegen, StartCodegen, Generate, Commit,
                WriteRunner, Lint, CompileStage, LinkStage, finish, unchangedGraph, loadVars
  <2>2. raised \subseteq raised'
    BY <1>0, <1>2, DriverEmits, RaisedGrows
  <2>3. /\ stage # "start" /\ stage' \notin {"start", "resolve"}
        /\ stage = "resolve" => Resolved /\ phase = "done"
        /\ stage \in {"finish", "finished"} => stage' = "finished"
    BY <1>2 DEF DriverStep, Resolved, Check, SkipCodegen, StartCodegen, Generate, Commit,
                WriteRunner, Lint, CompileStage, LinkStage, finish
  <2>4. ResolveRuns'
    BY <2>1, <2>3 DEF GraphInv, ResolveRuns
  <2>5. ASSUME Held' PROVE LoadInv'
    <3>1. Held /\ disk' = disk
      BY <1>0, <1>2, <2>5, HeldBefore
    <3>2. LoadInv
      BY <3>1 DEF GraphInv
    <3>3. phase' \in {"sort", "report", "done"} => linkedTo = Len(edges)
      BY <2>1, <3>2 DEF LoadInv
    <3> QED BY <1>0, <2>1, <2>2, <3>1, <3>2, <3>3, LoadFrame
  <2>6. ASSUME Current', DuplicateLeaf' PROVE \E d \in raised' : d.class = "import" /\ d.pass = pass'
    <3>1. Held' /\ phase = "done"
      BY <2>1, <2>6 DEF Current, Held
    <3>2. Held /\ disk' = disk
      BY <1>0, <1>2, <3>1, HeldBefore
    <3>3. DuplicateLeaf
      BY <2>1, <2>6, <3>2, LeavesKept
    <3>4. CASE stage # "resolve"
      <4>1. Current
        BY <3>1, <3>2 DEF Current, Held
      <4> QED BY <2>1, <2>2, <3>3, <3>4, <4>1 DEF GraphInv, LeavesTold
    <3>5. CASE stage = "resolve"
      <4>1. PICK u \in BOOLEAN :
               Emit(When(DuplicateImport, Diag("lint", "names"))
                       \o When(DuplicateLeaf \/ u, Diag("import", "names")))
        BY <2>3, <3>5 DEF Resolved
      <4> DEFINE a == When(DuplicateImport, Diag("lint", "names"))
                 b == When(DuplicateLeaf \/ u, Diag("import", "names"))
      <4>2. a \in {<<>>, <<Diag("lint", "names")>>} /\ b = <<Diag("import", "names")>>
        BY <3>3 DEF When
      <4>3. Emit(a \o b)
        BY <4>1
      <4> HIDE DEF a, b
      <4>4. \E k \in 1 .. Len(a \o b) : (a \o b)[k] = Diag("import", "names")
        BY <4>2, PushedTogether
      <4>5. Diag("import", "names") \in raised'
        BY <4>3, <4>4 DEF Emit
      <4> QED BY <2>1, <4>5 DEF Diag
    <3> QED BY <3>4, <3>5
  <2> QED BY <2>4, <2>5, <2>6 DEF GraphInv, LeavesTold
<1>3. CASE Discover \/ Restart
  <2>1. CASE phase' = phase /\ stage' = "finish"
    <3>1. stage = "start" /\ phase = "idle"
      BY <1>3, <2>1 DEF Discover, Restart, GraphInv, ResolveRuns
    <3> QED BY <2>1, <3>1 DEF GraphInv, ResolveRuns, Held, Current
  <2>2. ASSUME NEW es \in Seq(Paths), StartGraph(es), stage' = "resolve"
        PROVE  GraphInv'
    <3>1. LoadInv' /\ phase' = "load"
      BY <2>2, StartLoad DEF StartGraph
    <3> QED BY <2>2, <3>1 DEF GraphInv, ResolveRuns, Held, Current
  <2>3. pkg.entries \in Seq(Paths) /\ pkg.entries \o paths \in Seq(Paths)
    <3>1. pkg.entries \in Seq(Paths) /\ paths \in Seq(Paths)
      BY <1>0, PackageFields DEF GraphType, CascadeType
    <3> QED BY <3>1
  <2>4. \/ phase' = phase /\ stage' = "finish"
        \/ StartGraph(pkg.entries) /\ stage' = "resolve"
        \/ StartGraph(pkg.entries \o paths) /\ stage' = "resolve"
    BY <1>3 DEF Discover, Restart
  <2> QED BY <2>1, <2>2, <2>3, <2>4
<1>4. CASE UNCHANGED vars
  <2>1. UNCHANGED <<pkg, disk, pass, raised, phase, stage, paths,
                    entries, queue, seen, mods, edges, adj, linkedTo>>
    BY <1>4 DEF vars, graphVars, loadVars, cascadeVars
  <2>2. Held' => LoadInv'
    <3>1. Held' => Held /\ LoadInv
      BY <2>1 DEF Held, GraphInv
    <3>2. LoadInv => (phase' \in {"sort", "report", "done"} => linkedTo = Len(edges))
      BY <2>1 DEF LoadInv
    <3> QED BY <1>0, <2>1, <3>1, <3>2, LoadFrame
  <2>3. Current' => LeavesTold'
    BY <2>1, LeavesKept DEF GraphInv, Current, LeavesTold
  <2> QED BY <2>1, <2>2, <2>3 DEF GraphInv, ResolveRuns
<1> QED
  BY <1>1, <1>2, <1>3, <1>4 DEF Next, DriverStep

\* The invariant of the graph always holds.
LEMMA GraphHolds == Spec => [](Inv1 /\ SortInv /\ GraphInv)
<1>1. Init => GraphInv
  BY DEF Init, GraphInit, GraphInv, ResolveRuns, Held, Current
<1>2. (Inv1 /\ SortInv) /\ GraphInv /\ [Next]_vars => GraphInv'
  BY GraphStep
<1> QED
  BY <1>1, <1>2, SortHolds, PTL DEF Spec

\* What a finished graph has loaded when no import error was reported.
LEMMA AllLoaded ==
    ASSUME GraphType, LoadInv, phase = "done", Silent("import")
    PROVE  /\ \A k \in 1 .. Len(entries) : by_file_path(entries[k]) # {}
           /\ \A n \in 1 .. Len(edges) : by_file_path(edges[n].file) # {}
<1>1. queue = <<>> /\ Reached /\ Told
  BY DEF LoadInv
<1>2. \A x : ~Queued(x)
  BY <1>1 DEF Queued
<1>3. \A p : canonical_key(p) \in seen => by_file_path(p) # {}
  BY <1>1 DEF Told, by_file_path
<1> QED
  BY <1>1, <1>2, <1>3 DEF Reached

\* A finished graph is the one the files and their imports ask for.
LEMMA LoadedFaithful ==
    ASSUME GraphType, LoadInv, phase = "done"
    PROVE  Faithful
<1>0. /\ LinkedRight /\ linkedTo = Len(edges) /\ EdgesAreImports /\ ModulesApart
      /\ Len(edges) \in Nat
  BY GraphFields DEF LoadInv
<1>1. ASSUME NEW i \in Ids, NEW j \in Ids, EdgeTo(i, j)
      PROVE  \E k \in 1 .. Len(pkg.imports[mods[i].file]) : Means(pkg.imports[mods[i].file][k], j)
  <2>1. PICK n \in 1 .. Len(edges) : edges[n].from = i /\ Means(edges[n], j)
    BY <1>0, <1>1 DEF LinkedRight
  <2>2. PICK k \in 1 .. Len(ImportsOf(i)) : IsImport(edges[n], i, ImportsOf(i)[k])
    BY <1>0, <2>1 DEF EdgesAreImports
  <2>3. Means(ImportsOf(i)[k], j)
    BY <2>1, <2>2 DEF Means, IsImport
  <2> QED BY <2>2, <2>3 DEF ImportsOf
<1>2. ASSUME Silent("import"), NEW i \in Ids, NEW k \in 1 .. Len(pkg.imports[mods[i].file])
      PROVE  \E j \in Ids : EdgeTo(i, j) /\ Means(pkg.imports[mods[i].file][k], j)
  <2>1. PICK n \in 1 .. Len(edges) : IsImport(edges[n], i, ImportsOf(i)[k])
    BY <1>0, <1>2 DEF EdgesAreImports, ImportsOf
  <2>2. target_id(edges[n]) # {}
    BY <1>2, <2>1, AllLoaded DEF target_id
  <2>3. PICK t \in target_id(edges[n]) : EdgeTo(edges[n].from, t)
    BY <1>0, <2>2 DEF LinkedRight
  <2>4. t \in Ids /\ Means(edges[n], t)
    BY <2>3 DEF target_id, by_path, by_file_path, Means
  <2>5. edges[n].from = i /\ Means(ImportsOf(i)[k], t)
    BY <2>1, <2>4 DEF IsImport, Means
  <2> QED BY <2>3, <2>4, <2>5 DEF ImportsOf
<1> QED
  BY <1>0, <1>1, <1>2, AllLoaded DEF Faithful, ModulesApart

\* For every package, whatever its files import: the graph that the stages after
\* build_source_graph work on, in the first pass and in the second, has exactly
\* the modules and the edges the files ask for, or an import error was reported.
THEOREM CascadeFaithful == Spec => []GraphFaithful
<1>1. Inv1 /\ GraphInv => GraphFaithful
  BY LoadedFaithful, TypeParts DEF Inv1, GraphInv, GraphFaithful, Current, Held
<1> QED
  BY <1>1, GraphHolds, PTL

-----------------------------------------------------------------------------
(* The import leaves. *)

\* A module path and a file are those of at most one module.
LEMMA OneTarget ==
    ASSUME ModulesApart, NEW e, NEW t \in target_id(e), NEW u \in target_id(e)
    PROVE  t = u
BY DEF ModulesApart, target_id, by_path, by_file_path

\* Where the leaf tables find a target it is the one of the graph.
LEMMA LeafTargets ==
    ASSUME NEW e, NEW t \in LeafTarget(e)
    PROVE  t \in target_id(e) /\ t \in Ids /\ Means(e, t)
BY DEF LeafTarget, target_id, by_path, by_file_path, Means

\* What the leaf table of module i holds for its imports.
Imported(i) == UNION {Bindings(i, k) : k \in Firsts(i)}

Own(i) == [leaf |-> pkg.last[mods[i].name], module |-> i, selected |-> FALSE]

\* The table is the imported leaves, and the module's own if it is free.
LEMMA TableShape ==
    ASSUME NEW i
    PROVE  LeafTable(i) = IF \E b \in Imported(i) : b.leaf = Own(i).leaf
                          THEN Imported(i) ELSE Imported(i) \cup {Own(i)}
BY DEF LeafTable, Imported, Own

\* The binding of leaf m of import k of module i, for target t.
Binding(i, k, m, t) ==
    [leaf |-> ImportsOf(i)[k].leaves[m], module |-> t, selected |-> ImportsOf(i)[k].selected]

\* An imported leaf comes from an import and stands for its target.
LEMMA ImportedFrom ==
    ASSUME NEW i, NEW b \in Imported(i)
    PROVE  \E k \in Firsts(i) : \E m \in 1 .. Len(ImportsOf(i)[k].leaves) :
              /\ Binds(i, k, m)
              /\ b.module \in LeafTarget(ImportsOf(i)[k])
              /\ b = Binding(i, k, m, b.module) /\ b.leaf = ImportsOf(i)[k].leaves[m]
<1>1. PICK k \in Firsts(i) : b \in Bindings(i, k)
  BY DEF Imported
<1>2. PICK m \in 1 .. Len(ImportsOf(i)[k].leaves), t \in LeafTarget(ImportsOf(i)[k]) :
         Binds(i, k, m) /\ b = Binding(i, k, m, t)
  BY <1>1 DEF Bindings, Binding, ImportsOf
<1>3. b.module = t /\ b.leaf = ImportsOf(i)[k].leaves[m]
  BY <1>2 DEF Binding
<1> QED
  BY <1>2, <1>3

\* The leaf table of a module agrees with the edges of the graph.
LEMMA LeavesFollowGraph ==
    ASSUME GraphType, LoadInv, phase = "done", NEW i \in Ids
    PROVE  LeavesFollow(i)
<1> DEFINE is == ImportsOf(i)
<1>0. LinkedRight /\ linkedTo = Len(edges) /\ EdgesAreImports /\ ModulesApart
  BY DEF LoadInv
<1>1. /\ Firsts(i) \subseteq Targeted(i)
      /\ Targeted(i) \subseteq 1 .. Len(is) /\ Len(is) \in Nat
      /\ \A k \in 1 .. Len(is) : is[k] \in Imports
  <2>1. Len(is) \in Nat /\ \A k \in 1 .. Len(is) : is[k] \in Imports
    BY GraphFields, ElementOf
  <2> QED BY <2>1 DEF Firsts, Targeted, ImportsOf
<1>2. ASSUME NEW k \in Firsts(i), NEW t \in LeafTarget(is[k])
      PROVE  /\ EdgeTo(i, t)
             /\ \A u \in LeafTarget(is[k]) : u = t
  <2>1. PICK n \in 1 .. Len(edges) : IsImport(edges[n], i, is[k])
    BY <1>0, <1>1 DEF EdgesAreImports
  <2>2. target_id(edges[n]) = target_id(is[k]) /\ edges[n].from = i
    BY <2>1 DEF IsImport, target_id
  <2>3. t \in target_id(is[k]) /\ \A u \in LeafTarget(is[k]) : u \in target_id(is[k])
    BY LeafTargets
  <2>4. PICK v \in target_id(edges[n]) : EdgeTo(i, v)
    BY <1>0, <2>2, <2>3 DEF LinkedRight
  <2>5. \A u \in LeafTarget(is[k]) : u = t
    BY <1>0, <2>3, OneTarget
  <2>6. v = t
    BY <1>0, <2>2, <2>3, <2>4, OneTarget
  <2> QED BY <2>4, <2>5, <2>6
<1> HIDE DEF is
<1>3. ASSUME NEW b \in Imported(i), NEW c \in Imported(i), b.leaf = c.leaf
      PROVE  b = c
  <2>1. PICK k \in Firsts(i) : \E m \in 1 .. Len(is[k].leaves) :
              /\ Binds(i, k, m) /\ b.module \in LeafTarget(is[k])
              /\ b = Binding(i, k, m, b.module) /\ b.leaf = is[k].leaves[m]
    BY ImportedFrom DEF is
  <2>2. PICK l \in Firsts(i) : \E m \in 1 .. Len(is[l].leaves) :
              /\ Binds(i, l, m) /\ c.module \in LeafTarget(is[l])
              /\ c = Binding(i, l, m, c.module) /\ c.leaf = is[l].leaves[m]
    BY ImportedFrom DEF is
  <2>3. PICK m \in 1 .. Len(is[k].leaves) :
              /\ Binds(i, k, m) /\ b.module \in LeafTarget(is[k])
              /\ b = Binding(i, k, m, b.module) /\ b.leaf = is[k].leaves[m]
    BY <2>1
  <2>4. PICK n \in 1 .. Len(is[l].leaves) :
              /\ Binds(i, l, n) /\ c.module \in LeafTarget(is[l])
              /\ c = Binding(i, l, n, c.module) /\ c.leaf = is[l].leaves[n]
    BY <2>2
  <2>5. k \in Nat /\ l \in Nat /\ m \in Nat /\ n \in Nat
    <3>1. k \in 1 .. Len(is) /\ l \in 1 .. Len(is)
      BY <1>1
    <3>2. Len(is[k].leaves) \in Nat /\ Len(is[l].leaves) \in Nat
      BY <1>1, <3>1 DEF Imports
    <3> QED BY <1>1, <3>1, <3>2
  <2>6. ~(k < l \/ (k = l /\ m < n)) /\ ~(l < k \/ (l = k /\ n < m))
    BY <1>3, <2>3, <2>4 DEF Binds, ImportsOf, is
  <2>7. k = l /\ m = n
    BY <2>5, <2>6
  <2>8. b.module = c.module
    BY <1>2, <2>3, <2>4, <2>7
  <2> QED BY <2>3, <2>4, <2>7, <2>8
<1>4. ASSUME NEW b \in LeafTable(i), NEW c \in LeafTable(i), b.leaf = c.leaf
      PROVE  b = c
  BY <1>3, <1>4, TableShape
<1>5. ASSUME NEW b \in LeafTable(i)
      PROVE  b.module = i \/ EdgeTo(i, b.module)
  <2>1. CASE b \in Imported(i)
    <3>1. PICK k \in Firsts(i) : b.module \in LeafTarget(is[k])
      BY <2>1, ImportedFrom DEF is
    <3> QED BY <1>2, <3>1
  <2>2. CASE b = Own(i)
    BY <2>2 DEF Own
  <2> QED BY <2>1, <2>2, TableShape
<1> QED
  BY <1>4, <1>5 DEF LeavesFollow

\* When nothing was reported about imports every import that is not passed over
\* introduces its leaves.
LEMMA LeavesStand ==
    ASSUME GraphType, LoadInv, phase = "done", Silent("import"), ~DuplicateLeaf,
           NEW i \in Ids, NEW k \in 1 .. Len(pkg.imports[mods[i].file]),
           pkg.imports[mods[i].file][k].form # "derive", ~Skipped(i, k), ~Repeated(i, k)
    PROVE  Stands(i, k)
<1> DEFINE is == pkg.imports[mods[i].file]
<1>0. is[k] \in Imports /\ Len(is) \in Nat
  BY GraphFields, ElementOf DEF ImportsOf
<1>1. LeafTarget(is[k]) # {}
  <2>1. CASE by_path(is[k].name) # {}
    BY <2>1 DEF LeafTarget
  <2>2. CASE by_path(is[k].name) = {}
    <3>1. is[k].form = "sibling"
      BY <1>0, <2>2 DEF Imports, Skipped
    <3>2. PICK n \in 1 .. Len(edges) : IsImport(edges[n], i, is[k])
      BY DEF LoadInv, EdgesAreImports, ImportsOf
    <3>3. by_file_path(is[k].file) # {}
      BY <3>2, AllLoaded DEF IsImport
    <3> QED BY <2>2, <3>1, <3>3 DEF LeafTarget
  <2> QED BY <2>1, <2>2
<1>2. k \in Targeted(i)
  BY <1>1 DEF Targeted
<1>3. k \in Firsts(i)
  BY <1>2 DEF Firsts, Repeated
<1>4. ASSUME NEW m \in 1 .. Len(is[k].leaves)
      PROVE  \E b \in LeafTable(i) :
                b.leaf = is[k].leaves[m] /\ b.selected = is[k].selected /\ Means(is[k], b.module)
  <2>1. Binds(i, k, m)
    BY <1>3 DEF DuplicateLeaf
  <2>2. PICK t \in LeafTarget(is[k]) : TRUE
    BY <1>1
  <2>3. PICK b : b = [leaf |-> is[k].leaves[m], module |-> t, selected |-> is[k].selected]
    OBVIOUS
  <2>4. b \in Bindings(i, k)
    <3> DEFINE M == {n \in 1 .. Len(is[k].leaves) : Binds(i, k, n)}
    <3>1. Bindings(i, k) =
             {[leaf |-> is[k].leaves[n], module |-> v, selected |-> is[k].selected] :
                 n \in M, v \in LeafTarget(is[k])}
      BY DEF Bindings
    <3>2. m \in M
      BY <2>1
    <3> HIDE DEF M, is
    <3> QED BY <2>2, <2>3, <3>1, <3>2
  <2>5. b \in LeafTable(i)
    BY <1>3, <2>4, TableShape DEF Imported
  <2>6. Means(is[k], t) /\ b.leaf = is[k].leaves[m] /\ b.module = t /\ b.selected = is[k].selected
    BY <2>3, LeafTargets
  <2> QED BY <2>5, <2>6
<1> QED
  BY <1>4 DEF Stands

\* The second resolution of every import, in build_import_leaf_table, agrees with
\* the graph: a leaf is bound once, to a module the graph has an edge to; and
\* unless an import error was reported every leaf of every import, selected
\* names each on their own, is bound to what the import means, but for imports
\* with leading segments of a file that declares another module path and for
\* repeated module paths.  The runs CascadeSkipped and CascadeRepeated show that
\* neither of the two can be dropped.
THEOREM CascadeLeaves == Spec => []LeavesAgree
<1>1. Inv1 /\ GraphInv => LeavesAgree
  <2> SUFFICES ASSUME Inv1, GraphInv, Current, stage # "resolve", NEW i \in Ids
               PROVE  /\ LeavesFollow(i)
                      /\ (\A d \in raised : ~(d.class = "import" /\ d.pass = pass)) =>
                            \A k \in 1 .. Len(pkg.imports[mods[i].file]) :
                                \/ pkg.imports[mods[i].file][k].form = "derive"
                                \/ Skipped(i, k) \/ Repeated(i, k) \/ Stands(i, k)
    BY DEF LeavesAgree, Named
  <2>1. GraphType /\ LoadInv /\ phase = "done" /\ LeavesTold
    BY TypeParts DEF Inv1, GraphInv, Current, Held
  <2>2. (\A d \in raised : ~(d.class = "import" /\ d.pass = pass)) => Silent("import") /\ ~DuplicateLeaf
    BY <2>1 DEF LeavesTold, Silent
  <2> QED BY <2>1, <2>2, LeavesFollowGraph, LeavesStand
<1> QED
  BY <1>1, GraphHolds, PTL

-----------------------------------------------------------------------------
(* The gates of the driver. *)

\* The classes whose diagnostics reject a program.
Rejecting == {"parse", "import", "cycle", "type"}

\* What the second pass starts from, and that it is the last.
PassesInv ==
    /\ pass = 2 => stage \in {"resolve", "check", "lint", "compile", "link", "finish", "finished"}
    /\ phase # "idle" => entries = IF pass = 1 THEN pkg.entries ELSE pkg.entries \o paths
    /\ pass = 1 /\ stage \in {"lint", "compile", "link", "finish", "finished"} => paths = <<>>
    /\ stage = "start" => paths = <<>>

\* What is still to be generated is in the worklist, unless codegen complained.
Closed ==
    /\ roots \subseteq visited \cup work
    /\ \A s \in visited : pkg.nested[s] \subseteq visited \cup work /\ Staged(pkg.art[s])

WorklistInv ==
    /\ stage # "generate" => work = {}
    /\ (\A d \in raised : ~(d.by = "codegen" /\ d.class \in Rejecting)) => Closed

\* The typecheck of this pass is over.
Checked == stage \in {"codegen", "generate", "properties", "lint", "compile", "link", "finish", "finished"}

\* Past a gate, a build that has no error has been through the stage before it.
GatesInv ==
    /\ stage = "start" => typed = 0
    /\ stage \in {"finish", "finished"} /\ ~HasErrors => phase = "done"
    /\ Checked /\ ~HasErrors /\ pkg.stop >= Typecheck => typed = pass
    /\ Checked /\ typed = pass /\ Faulty("type") => \E d \in raised : d.class = "type" /\ d.pass = pass
    /\ stage \in {"link", "finish", "finished"} /\ ~HasErrors /\ pkg.stop >= Compile => object
    /\ stage \in {"finish", "finished"} /\ ~HasErrors /\ pkg.stop >= Link => linked
    /\ linked => stage \in {"finish", "finished"} /\ ~HasErrors /\ pkg.stop >= Link
    /\ exit # "none" => stage = "finished"
    /\ exit = "Success" => ~HasErrors
    /\ exit = "BuildError" => HasErrors

DriverInv == PassesInv /\ WorklistInv /\ (Strict => GatesInv)

\* A rejecting diagnostic that was not dropped makes the build fail.
LEMMA RejectingIsError ==
    ASSUME NoErrorLost, Strict, pass \in 1 .. 2,
           NEW d \in raised, d.class \in Rejecting, d.pass = pass \/ d.by # "check"
    PROVE  HasErrors
<1>1. PICK k \in 1 .. Len(diags) : diags[k] = d
  BY DEF NoErrorLost
<1> QED
  BY <1>1 DEF HasErrors, Strict, Rejecting

\* The same of the state after a step.
LEMMA RejectingIsErrorNext ==
    ASSUME NoErrorLost', Strict, pkg' = pkg, pass' \in 1 .. 2,
           NEW d \in raised', d.class \in Rejecting, d.pass = pass' \/ d.by # "check"
    PROVE  HasErrors'
<1>1. PICK k \in 1 .. Len(diags') : diags'[k] = d
  BY DEF NoErrorLost
<1> QED
  BY <1>1 DEF HasErrors, Strict, Rejecting

\* A step of the driver takes no error back.
LEMMA ErrorsStay ==
    ASSUME GraphType, DriverStep, HasErrors
    PROVE  HasErrors'
<1>1. /\ diags \in Seq(D) /\ raised \in SUBSET D /\ pass \in 1 .. 2 /\ Len(diags) \in Nat
      /\ pkg' = pkg /\ pass' = pass
  BY DEF GraphType, D, DriverStep, Resolved, Check, SkipCodegen, StartCodegen, Generate, Commit,
         WriteRunner, Lint, CompileStage, LinkStage, finish, unchangedGraph
<1>2. UNCHANGED <<diags, raised>> \/ \E ds \in Seq(Fresh(FromDriver)) : Emit(ds)
  BY DriverEmits
<1>3. Len(diags') >= Len(diags) /\ \A k \in 1 .. Len(diags) : diags'[k] = diags[k]
  BY <1>1, <1>2, EmitKeeps
<1>4. diags' \in Seq(D)
  BY <1>1, <1>2, EmitTyped
<1>5. PICK k \in 1 .. Len(diags) : diags[k].class \in pkg.errors \cup {"pinned"}
  BY DEF HasErrors
<1>6. k \in 1 .. Len(diags')
  BY <1>1, <1>3, <1>4, <1>5
<1> QED
  BY <1>1, <1>3, <1>5, <1>6 DEF HasErrors

\* Every step keeps what is known of the passes.
LEMMA PassesStep ==
    ASSUME Inv1, GraphInv, PassesInv, [Next]_vars
    PROVE  PassesInv'
<1>0. pass \in 1 .. 2 /\ ResolveRuns
  BY TypeParts DEF Inv1, GraphType, GraphInv
<1>1. CASE Resolve
  <2>1. stage = "resolve" /\ UNCHANGED <<stage, pass, entries, pkg, paths>> /\ phase # "idle"
    BY <1>1 DEF Resolve, cascadeVars, GraphNext, Visit, StartLink, LinkEdge, StartSort, SortRoot,
                Examine, Retire, EndSort, ReportCycle, EndGraph, loadVars
  <2> QED BY <2>1 DEF PassesInv
<1>2. CASE Generate \/ WriteRunner
  <2>1. /\ UNCHANGED <<pkg, pass, entries, phase>> /\ stage \in {"generate", "properties"}
        /\ stage' \in {"generate", "restart"} \/ (stage' = "lint" /\ paths' = <<>>)
    BY <1>2 DEF Generate, WriteRunner, unchangedGraph, loadVars
  <2>2. pass = 1
    BY <1>0, <2>1 DEF PassesInv
  <2> QED BY <2>1, <2>2 DEF PassesInv
<1>3. CASE Resolved \/ Check \/ SkipCodegen \/ StartCodegen \/ Commit
  <2>1. /\ UNCHANGED <<pkg, pass, entries, phase, paths>>
        /\ stage \in {"resolve", "check", "codegen", "generate"}
        /\ pass = 2 => stage' \in {"check", "lint"} \/ stage \in {"codegen", "generate"}
        /\ pass = 1 => stage' \in {"check", "codegen", "generate", "properties"}
    BY <1>3 DEF Resolved, Check, SkipCodegen, StartCodegen, Commit, unchangedGraph, loadVars
  <2> QED BY <1>0, <2>1 DEF PassesInv
<1>4. CASE Lint \/ CompileStage \/ LinkStage \/ finish
  <2>1. /\ UNCHANGED <<pkg, pass, entries, phase, paths>>
        /\ stage \in {"lint", "compile", "link", "finish"}
        /\ stage' \in {"compile", "link", "finish", "finished"}
    BY <1>4 DEF Lint, CompileStage, LinkStage, finish, unchangedGraph, loadVars
  <2> QED BY <1>0, <2>1 DEF PassesInv
<1>5. CASE Discover
  <2>1. /\ stage = "start" /\ UNCHANGED <<pkg, pass, paths>> /\ paths = <<>> /\ pass = 1
        /\ phase = "idle"
    BY <1>0, <1>5 DEF Discover, PassesInv, ResolveRuns
  <2>2. \/ stage' = "finish" /\ phase' = phase
        \/ stage' = "resolve" /\ entries' = pkg.entries
    BY <1>5 DEF Discover, StartGraph
  <2> QED BY <2>1, <2>2 DEF PassesInv
<1>6. CASE Restart
  BY <1>6 DEF Restart, StartGraph, PassesInv
<1>7. CASE UNCHANGED vars
  BY <1>7 DEF vars, graphVars, loadVars, cascadeVars, PassesInv
<1> QED
  BY <1>1, <1>2, <1>3, <1>4, <1>5, <1>6, <1>7 DEF Next

\* A closed worklist stays closed when its sets stay and only paths are added.
LEMMA ClosedFrame ==
    ASSUME Closed, UNCHANGED <<pkg, roots, work, visited>>, \A p : Staged(p) => Staged(p)'
    PROVE  Closed'
<1>1. \A s \in visited' : Staged(pkg.art[s])'
  <2> SUFFICES ASSUME NEW s \in visited PROVE Staged(pkg.art[s])'
    OBVIOUS
  <2>1. Staged(pkg.art[s])
    BY DEF Closed
  <2> QED BY <2>1 DEF Staged
<1> QED
  BY <1>1 DEF Closed

\* Adding a path to the report keeps the ones it has.
LEMMA StagedKept ==
    ASSUME paths \in Seq(Paths), NEW q \in Paths, paths' = paths \/ paths' = Append(paths, q)
    PROVE  /\ \A p : Staged(p) => Staged(p)'
           /\ paths' = Append(paths, q) => Staged(q)'
<1>1. CASE paths' = paths
  <2>1. Append(paths, q) # paths
    <3>1. Len(Append(paths, q)) = Len(paths) + 1 /\ Len(paths) \in Nat
      OBVIOUS
    <3> QED BY <3>1
  <2> QED BY <1>1, <2>1 DEF Staged
<1>2. CASE paths' = Append(paths, q)
  <2>1. /\ Len(paths) \in Nat /\ Len(paths') = Len(paths) + 1 /\ paths'[Len(paths) + 1] = q
        /\ \A k \in 1 .. Len(paths) : paths'[k] = paths[k]
    BY <1>2
  <2>2. Len(paths) + 1 \in 1 .. Len(paths') /\ \A k \in 1 .. Len(paths) : k \in 1 .. Len(paths')
    BY <2>1
  <2> QED BY <2>1, <2>2 DEF Staged
<1> QED
  BY <1>1, <1>2

\* A condition that does not hold pushes nothing; one that holds is recorded.
LEMMA WhenPushed ==
    ASSUME NEW b, NEW d, NEW ds \in {<<>>, <<Diag("parse", "codegen")>>}, Emit(When(b, d) \o ds)
    PROVE  b => d \in raised'
<1> SUFFICES ASSUME b PROVE d \in raised'
  OBVIOUS
<1> DEFINE a == When(b, d)
<1>1. a = <<d>> /\ Emit(a \o ds)
  BY DEF When
<1> HIDE DEF a
<1>2. a \in {<<>>, <<d>>} 
  BY <1>1
<1>3. \E k \in 1 .. Len(a \o ds) : (a \o ds)[k] = d
  BY <1>1, <1>2, PushedTogether
<1> QED
  BY <1>1, <1>3 DEF Emit

\* Every step keeps what is known of the worklist.
LEMMA WorklistStep ==
    ASSUME Inv1, WorklistInv, [Next]_vars
    PROVE  WorklistInv'
<1> DEFINE Quiet == \A d \in raised : ~(d.by = "codegen" /\ d.class \in Rejecting)
<1>0. TypeOK /\ GraphType /\ CascadeType /\ paths \in Seq(Paths) /\ pkg \in Packages
  BY TypeParts DEF Inv1, CascadeType, GraphType
<1>1. raised \subseteq raised'
  <2>1. CASE DriverStep
    BY <1>0, <2>1, DriverEmits, RaisedGrows
  <2>2. CASE Resolve
    BY <1>0, <2>2, GraphEmits, RaisedGrows DEF Resolve
  <2>3. CASE Discover \/ Restart
    BY <2>3, RaisedGrows DEF Discover, Restart
  <2>4. CASE UNCHANGED vars
    BY <2>4 DEF vars, graphVars
  <2> QED BY <2>1, <2>2, <2>3, <2>4 DEF Next, DriverStep
<1>2. Quiet' => Quiet
  BY <1>1
<1>3. \A class \in Rejecting : Diag(class, "codegen") \in raised' => ~Quiet'
  BY DEF Diag
<1>4. "parse" \in Rejecting /\ "type" \in Rejecting
  BY DEF Rejecting
<1>5. WorklistInv' <=> (stage' # "generate" => work' = {}) /\ (Quiet' => Closed')
  BY DEF WorklistInv
<1>6. (stage # "generate" => work = {}) /\ (Quiet => Closed)
  BY DEF WorklistInv
<1> HIDE DEF Quiet
<1>7. CASE StartCodegen
  <2> DEFINE w == When(Located(Demanded) # Demanded, Diag("type", "codegen"))
  <2>1. /\ stage = "codegen" /\ roots' = Demanded /\ UNCHANGED <<pkg, visited, paths>>
        /\ \/ Located(Demanded) = {} /\ Emit(w) /\ stage' = "properties" /\ work' = work
           \/ Emit(w \o <<Diag("parse", "codegen")>>) /\ stage' = "properties" /\ work' = work
           \/ Emit(w) /\ stage' = "generate" /\ work' = Located(Demanded)
    BY <1>7 DEF StartCodegen, unchangedGraph
  <2>2. work = {}
    BY <1>6, <2>1
  <2>3. (\E ds \in {<<>>, <<Diag("parse", "codegen")>>} : Emit(w \o ds)) \/ Emit(w)
    BY <2>1
  <2>4. Emit(w) => Emit(w \o <<>>)
    <3>1. w \in {<<>>, <<Diag("type", "codegen")>>}
      BY WhenShape
    <3> HIDE DEF w
    <3>2. w \o <<>> = w
      BY <3>1
    <3> QED BY <3>2
  <2>5. \E ds \in {<<>>, <<Diag("parse", "codegen")>>} : Emit(w \o ds)
    BY <2>3, <2>4
  <2>6. Located(Demanded) # Demanded => ~Quiet'
    <3>1. Located(Demanded) # Demanded => Diag("type", "codegen") \in raised'
      BY <2>5, WhenPushed
    <3> QED BY <1>3, <1>4, <3>1
  <2>7. Emit(w \o <<Diag("parse", "codegen")>>) => ~Quiet'
    <3> SUFFICES ASSUME Emit(w \o <<Diag("parse", "codegen")>>) PROVE ~Quiet'
      OBVIOUS
    <3>1. w \in {<<>>, <<Diag("type", "codegen")>>}
      BY WhenShape
    <3> DEFINE v == <<Diag("parse", "codegen")>>
    <3>2. v \in {<<>>, <<Diag("parse", "codegen")>>} /\ v = <<Diag("parse", "codegen")>> /\ Emit(w \o v)
      OBVIOUS
    <3> HIDE DEF w, v
    <3>3. \E k \in 1 .. Len(w \o v) : (w \o v)[k] = Diag("parse", "codegen")
      BY <3>1, <3>2, PushedTogether
    <3>4. Diag("parse", "codegen") \in raised'
      BY <3>2, <3>3 DEF Emit
    <3> QED BY <1>3, <1>4, <3>4
  <2>8. ASSUME Quiet' PROVE Closed'
    <3>1. Closed /\ roots' \subseteq visited' \cup work'
      BY <1>2, <1>6, <2>1, <2>6, <2>7, <2>8
    <3>2. \A s \in visited : pkg.nested[s] \subseteq visited \cup work /\ Staged(pkg.art[s])
      BY <3>1 DEF Closed
    <3>3. \A s \in visited' : pkg'.nested[s] \subseteq visited' \cup work' /\ Staged(pkg.art[s])'
      BY <2>1, <2>2, <3>2 DEF Staged
    <3> QED BY <3>1, <3>3 DEF Closed
  <2> QED BY <1>5, <2>1, <2>2, <2>8
<1>8. CASE Generate
  <2>0. stage = "generate" /\ stage' = "generate" /\ UNCHANGED <<pkg, roots>>
    BY <1>8 DEF Generate, unchangedGraph
  <2>1. PICK s \in work :
           \/ s \in visited /\ work' = work \ {s} /\ UNCHANGED <<visited, paths>>
           \/ Emit(<<Diag("parse", "codegen")>>)
           \/ /\ visited' = visited \cup {s}
              /\ work' = (work \ {s}) \cup Located(pkg.nested[s])
              /\ paths' = IF Staged(pkg.art[s]) THEN paths ELSE Append(paths, pkg.art[s])
              /\ Emit(When(Located(pkg.nested[s]) # pkg.nested[s], Diag("type", "codegen")))
    BY <1>8 DEF Generate
  <2>2. s \in Specs /\ pkg.art[s] \in Paths
    BY <1>0, PackageFields DEF CascadeType
  <2>3. Emit(<<Diag("parse", "codegen")>>) => ~Quiet'
    <3> SUFFICES ASSUME Emit(<<Diag("parse", "codegen")>>) PROVE ~Quiet'
      OBVIOUS
    <3> DEFINE v == <<Diag("parse", "codegen")>>
    <3>1. 1 \in 1 .. Len(v) /\ v[1] = Diag("parse", "codegen") /\ Emit(v)
      OBVIOUS
    <3> HIDE DEF v
    <3>2. Diag("parse", "codegen") \in raised'
      BY <3>1 DEF Emit
    <3> QED BY <1>3, <1>4, <3>2
  <2>4. ASSUME Quiet' PROVE Closed'
    <3>1. /\ roots \subseteq visited \cup work
          /\ \A r \in visited : pkg.nested[r] \subseteq visited \cup work /\ Staged(pkg.art[r])
      BY <1>2, <1>6, <2>4 DEF Closed
    <3>2. CASE s \in visited /\ work' = work \ {s} /\ UNCHANGED <<visited, paths>>
      <4>1. visited' \cup work' = visited \cup work
        BY <3>2
      <4>2. \A r \in visited' : Staged(pkg.art[r])'
        BY <2>0, <3>1, <3>2 DEF Staged
      <4> QED BY <2>0, <3>1, <3>2, <4>1, <4>2 DEF Closed
    <3>3. CASE /\ visited' = visited \cup {s}
               /\ work' = (work \ {s}) \cup Located(pkg.nested[s])
               /\ paths' = IF Staged(pkg.art[s]) THEN paths ELSE Append(paths, pkg.art[s])
               /\ Emit(When(Located(pkg.nested[s]) # pkg.nested[s], Diag("type", "codegen")))
      <4> DEFINE w == When(Located(pkg.nested[s]) # pkg.nested[s], Diag("type", "codegen"))
      <4>1. Located(pkg.nested[s]) = pkg.nested[s]
        <5>1. w \in {<<>>, <<Diag("type", "codegen")>>} /\ Emit(w)
          BY <3>3, WhenShape
        <5>2. Emit(w \o <<>>)
          <6> HIDE DEF w
          <6>1. w \o <<>> = w
            BY <5>1
          <6> QED BY <5>1, <6>1
        <5>3. Located(pkg.nested[s]) # pkg.nested[s] => Diag("type", "codegen") \in raised'
          BY <5>2, WhenPushed
        <5> QED BY <1>3, <1>4, <2>4, <5>3
      <4>2. visited \cup work \subseteq visited' \cup work' /\ pkg.nested[s] \subseteq visited' \cup work'
        BY <3>3, <4>1
      <4>3. /\ \A p : Staged(p) => Staged(p)'
            /\ paths' = Append(paths, pkg.art[s]) => \A q : q = pkg.art[s] => Staged(q)'
        BY <1>0, <2>2, <3>3, StagedKept
      <4>4. \A q : q = pkg.art[s] => Staged(q)'
        BY <3>3, <4>3
      <4>5. ASSUME NEW r \in visited'
            PROVE  pkg.nested[r] \subseteq visited' \cup work' /\ \A q : q = pkg.art[r] => Staged(q)'
        <5>1. CASE r = s
          BY <4>2, <4>4, <5>1
        <5>2. CASE r \in visited
          BY <3>1, <4>2, <4>3, <5>2
        <5> QED BY <3>3, <5>1, <5>2
      <4>6. \A r \in visited' : pkg'.nested[r] \subseteq visited' \cup work' /\ Staged(pkg.art[r])'
        BY <2>0, <4>5 DEF Staged
      <4> QED BY <2>0, <3>1, <4>2, <4>6 DEF Closed
    <3> QED BY <2>1, <2>3, <2>4, <3>2, <3>3
  <2> QED BY <1>5, <2>0, <2>4
<1>9. CASE ~StartCodegen /\ ~Generate
  <2>1. /\ UNCHANGED <<pkg, roots, work, visited>>
        /\ paths' = paths \/ paths' = Append(paths, pkg.runner)
        /\ stage' = "generate" => stage = "generate"
        /\ stage = "generate" /\ stage' # "generate" => work = {}
    <3>1. CASE Discover \/ Restart \/ Resolved \/ Check \/ SkipCodegen \/ Commit
      BY <3>1 DEF Discover, Restart, Resolved, Check, SkipCodegen, Commit, unchangedGraph, genVars
    <3>2. CASE WriteRunner \/ Lint \/ CompileStage \/ LinkStage \/ finish
      BY <3>2 DEF WriteRunner, Lint, CompileStage, LinkStage, finish, unchangedGraph, genVars
    <3>3. CASE Resolve
      BY <3>3 DEF Resolve, cascadeVars, genVars, GraphNext, Visit, StartLink, LinkEdge, StartSort,
                  SortRoot, Examine, Retire, EndSort, ReportCycle, EndGraph
    <3>4. CASE UNCHANGED vars
      BY <3>4 DEF vars, graphVars, cascadeVars, genVars
    <3> QED BY <1>9, <3>1, <3>2, <3>3, <3>4 DEF Next
  <2>2. \A p : Staged(p) => Staged(p)'
    BY <1>0, <2>1, StagedKept, PackageFields
  <2> QED BY <1>2, <1>5, <1>6, <2>1, <2>2, ClosedFrame
<1> QED
  BY <1>7, <1>8, <1>9

\* A pushed diagnostic is recorded.
LEMMA OnePushed ==
    ASSUME NEW d, Emit(<<d>>)
    PROVE  d \in raised'
<1> DEFINE v == <<d>>
<1>1. 1 \in 1 .. Len(v) /\ v[1] = d /\ Emit(v)
  OBVIOUS
<1> HIDE DEF v
<1> QED
  BY <1>1 DEF Emit

\* The gates of a step that neither checks, compiles nor links.
LEMMA GatesFrame ==
    ASSUME GatesInv, HasErrors => HasErrors', raised \subseteq raised',
           UNCHANGED <<pkg, pass, phase, mods, typed, object, linked, exit>>,
           stage' # "start", stage # "finished", Checked' => Checked,
           stage' \in {"link", "finish", "finished"} <=> stage \in {"link", "finish", "finished"},
           stage' \in {"finish", "finished"} <=> stage \in {"finish", "finished"},
           linked => (HasErrors' => HasErrors)
    PROVE  GatesInv'
<1>1. Faulty("type")' <=> Faulty("type")
  BY DEF Faulty, Ids
<1>2. exit = "none"
  BY DEF GatesInv
<1>3. Checked' /\ typed' = pass' /\ Faulty("type")' => \E d \in raised' : d.class = "type" /\ d.pass = pass'
  BY <1>1 DEF GatesInv
<1>4. Checked' /\ ~HasErrors' /\ pkg'.stop >= Typecheck => typed' = pass'
  BY DEF GatesInv
<1> QED
  BY <1>2, <1>3, <1>4 DEF GatesInv

\* Every step keeps the gates.
LEMMA GatesStep ==
    ASSUME Inv1, Inv1', GraphInv, Strict, GatesInv, [Next]_vars
    PROVE  GatesInv'
<1>0. /\ TypeOK /\ GraphType /\ CascadeType /\ ResolveRuns /\ NoErrorLost' /\ pass \in 1 .. 2
      /\ pass' \in 1 .. 2 /\ pkg.stop \in 2 .. 6 /\ typed \in 0 .. 2
      /\ object' \in BOOLEAN /\ linked' \in BOOLEAN /\ linked \in BOOLEAN
  <2>1. TypeOK /\ TypeOK' /\ NoErrorLost' /\ GraphType /\ CascadeType
    BY TypeParts DEF Inv1
  <2>2. pkg.stop \in 2 .. 6
    BY <2>1, PackageFields DEF GraphType
  <2> QED BY <2>1, <2>2 DEF TypeOK, GraphType, CascadeType, GraphInv
<1>p. "parse" \in Rejecting /\ "type" \in Rejecting
  BY DEF Rejecting
<1>1. CASE Discover
  <2>1. stage = "start" /\ UNCHANGED <<pkg, pass, typed, object, linked, exit>>
    BY <1>1 DEF Discover, outVars
  <2>2. ~linked /\ exit = "none" /\ typed = 0
    BY <2>1 DEF GatesInv
  <2>3. CASE stage' = "resolve"
    BY <2>1, <2>2, <2>3 DEF GatesInv, Checked
  <2>4. CASE stage' = "finish" /\ Emit(<<Diag("parse", "driver")>>)
    <3>1. Diag("parse", "driver") \in raised'
      BY <2>4, OnePushed
    <3>2. HasErrors'
      <4>1. Diag("parse", "driver").class = "parse" /\ Diag("parse", "driver").by = "driver"
        BY DEF Diag
      <4> QED BY <1>0, <1>p, <2>1, <3>1, <4>1, RejectingIsErrorNext
    <3> QED BY <1>0, <2>1, <2>2, <2>4, <3>2 DEF GatesInv, Checked
  <2> QED BY <1>1, <2>3, <2>4 DEF Discover
<1>2. CASE Resolve \/ Restart
  <2>1. stage \in {"resolve", "restart"} /\ stage' = "resolve" /\ UNCHANGED <<linked, exit>>
    BY <1>2 DEF Resolve, Restart, cascadeVars, outVars
  <2>2. ~linked /\ exit = "none"
    BY <2>1 DEF GatesInv
  <2> QED BY <2>1, <2>2 DEF GatesInv, Checked
<1>3. CASE Resolved
  <2>1. stage = "resolve" /\ stage' = "check" /\ UNCHANGED <<linked, exit>>
    BY <1>3 DEF Resolved, outVars
  <2>2. ~linked /\ exit = "none"
    BY <2>1 DEF GatesInv
  <2> QED BY <2>1, <2>2 DEF GatesInv, Checked
<1>4. CASE DriverStep
  <2>1. raised \subseteq raised'
    BY <1>0, <1>4, DriverEmits, RaisedGrows
  <2>2. HasErrors => HasErrors'
    BY <1>0, <1>4, ErrorsStay
  <2>3. UNCHANGED <<pkg, pass, phase, mods>>
    BY <1>4 DEF DriverStep, Resolved, Check, SkipCodegen, StartCodegen, Generate, Commit,
                WriteRunner, Lint, CompileStage, LinkStage, finish, unchangedGraph, loadVars
  <2>4. Faulty("type")' <=> Faulty("type")
    BY <2>3 DEF Faulty, Ids
  <2>5. CASE SkipCodegen \/ StartCodegen \/ Generate \/ Commit \/ WriteRunner \/ Lint
    <3>1. /\ UNCHANGED <<typed, object, linked, exit>>
          /\ stage \in {"codegen", "generate", "properties", "lint"}
          /\ stage' \in {"generate", "properties", "lint", "restart", "compile"}
      BY <2>5 DEF SkipCodegen, StartCodegen, Generate, Commit, WriteRunner, Lint, outVars
    <3>2. ~linked
      BY <3>1 DEF GatesInv
    <3>3. Checked
      BY <3>1 DEF Checked
    <3> QED BY <2>1, <2>2, <2>3, <3>1, <3>2, <3>3, GatesFrame
  <2>6. CASE Check
    <3>1. stage = "check" /\ stage' \in {"codegen", "lint"} /\ UNCHANGED <<object, linked, exit>>
      BY <2>6 DEF Check, outVars
    <3>2. ~linked /\ exit = "none"
      BY <3>1 DEF GatesInv
    <3>3. ~HasErrors' /\ pkg.stop >= Typecheck => typed' = pass
      BY <2>2, <2>6 DEF Check
    <3>4. ASSUME typed' = pass, Faulty("type")
          PROVE  \E d \in raised' : d.class = "type" /\ d.pass = pass
      <4>1. PICK missing \in BOOLEAN : Emit(When(Faulty("type") \/ missing, Diag("type", "check")))
        BY <1>0, <2>6, <3>4 DEF Check
      <4>2. Emit(<<Diag("type", "check")>>)
        BY <3>4, <4>1 DEF When
      <4>3. Diag("type", "check") \in raised'
        BY <4>2, OnePushed
      <4> QED BY <4>3 DEF Diag
    <3>5. Checked' /\ typed' = pass' /\ Faulty("type")' =>
             \E d \in raised' : d.class = "type" /\ d.pass = pass'
      BY <2>3, <2>4, <3>4
    <3> QED BY <2>3, <3>1, <3>2, <3>3, <3>5 DEF GatesInv
  <2>7. CASE CompileStage
    <3>1. stage = "compile" /\ stage' = "link" /\ UNCHANGED <<typed, linked, exit>>
      BY <2>7 DEF CompileStage
    <3>2. ~linked /\ exit = "none"
      BY <3>1 DEF GatesInv
    <3>3. ASSUME ~HasErrors', pkg.stop >= Compile PROVE object'
      <4>1. ~HasErrors /\ pkg.stop >= Typecheck
        BY <1>0, <2>2, <3>3 DEF Compile, Typecheck
      <4>2. typed # 0
        BY <1>0, <3>1, <4>1 DEF GatesInv, Checked
      <4>3. \A class \in Rejecting : ~(Diag(class, "compile") \in raised')
        <5>1. \A class : Diag(class, "compile").class = class /\ Diag(class, "compile").by = "compile"
          BY DEF Diag
        <5> QED BY <1>0, <2>3, <3>3, <5>1, RejectingIsErrorNext
      <4>4. CASE \E class \in {"type", "parse"} : Emit(<<Diag(class, "compile")>>)
        BY <1>p, <4>3, <4>4, OnePushed
      <4>5. ASSUME NEW dump \in BOOLEAN, ~object',
                   Emit(When(~dump, Diag("parse", "compile")) \o When(~object', Diag("parse", "compile")))
            PROVE  FALSE
        <5> DEFINE a == When(~dump, Diag("parse", "compile"))
                   b == When(~object', Diag("parse", "compile"))
        <5>1. a \in {<<>>, <<Diag("parse", "compile")>>} /\ b = <<Diag("parse", "compile")>> /\ Emit(a \o b)
          BY <4>5 DEF When
        <5> HIDE DEF a, b
        <5>2. \E k \in 1 .. Len(a \o b) : (a \o b)[k] = Diag("parse", "compile")
          BY <5>1, PushedTogether
        <5>3. Diag("parse", "compile") \in raised'
          BY <5>1, <5>2 DEF Emit
        <5> QED BY <1>p, <4>3, <5>3
      <4> QED BY <2>7, <3>3, <4>1, <4>2, <4>4, <4>5 DEF CompileStage
    <3>4. ~HasErrors' /\ pkg.stop >= Typecheck => typed' = pass'
      BY <2>2, <2>3, <3>1 DEF GatesInv, Checked
    <3>5. Checked' /\ typed' = pass' /\ Faulty("type")' =>
             \E d \in raised' : d.class = "type" /\ d.pass = pass'
      BY <2>1, <2>3, <2>4, <3>1 DEF GatesInv, Checked
    <3> QED BY <2>3, <3>1, <3>2, <3>3, <3>4, <3>5 DEF GatesInv
  <2>8. CASE LinkStage
    <3>1. stage = "link" /\ stage' = "finish" /\ UNCHANGED <<typed, object, exit>>
      BY <2>8 DEF LinkStage
    <3>2. ~linked /\ exit = "none" /\ phase = "done"
      BY <1>0, <3>1 DEF GatesInv, ResolveRuns
    <3>3. ASSUME ~HasErrors', pkg.stop >= Link PROVE linked'
      <4>1. ~HasErrors /\ pkg.stop >= Compile
        BY <1>0, <2>2, <3>3 DEF Compile, Link
      <4>2. object
        BY <3>1, <4>1 DEF GatesInv
      <4>3. Emit(When(~linked', Diag("parse", "link")))
        BY <2>8, <3>3, <4>1, <4>2 DEF LinkStage
      <4>4. ~linked' => Emit(<<Diag("parse", "link")>>)
        BY <4>3 DEF When
      <4>5. ~(Diag("parse", "link") \in raised')
        <5>1. Diag("parse", "link").class = "parse" /\ Diag("parse", "link").by = "link"
          BY DEF Diag
        <5> QED BY <1>0, <1>p, <2>3, <3>3, <5>1, RejectingIsErrorNext
      <4> QED BY <4>4, <4>5, OnePushed
    <3>4. ASSUME linked' PROVE ~HasErrors' /\ pkg.stop >= Link
      <4>1. pkg.stop >= Link /\ ~HasErrors /\ Emit(When(~linked', Diag("parse", "link")))
        BY <2>8, <3>2, <3>4 DEF LinkStage
      <4>2. Emit(<<>>)
        BY <3>4, <4>1 DEF When
      <4>3. diags' = diags
        <5>1. diags \in Seq(D)
          BY <1>0 DEF GraphType, D
        <5> QED BY <4>2, <5>1 DEF Emit
      <4> QED BY <2>3, <4>1, <4>3 DEF HasErrors
    <3>5. ~HasErrors' /\ pkg.stop >= Typecheck => typed' = pass'
      BY <2>2, <2>3, <3>1 DEF GatesInv, Checked
    <3>6. Checked' /\ typed' = pass' /\ Faulty("type")' =>
             \E d \in raised' : d.class = "type" /\ d.pass = pass'
      BY <2>1, <2>3, <2>4, <3>1 DEF GatesInv, Checked
    <3>7. ~HasErrors' /\ pkg.stop >= Compile => object'
      BY <2>2, <3>1 DEF GatesInv
    <3> QED BY <2>3, <3>1, <3>2, <3>3, <3>4, <3>5, <3>6, <3>7 DEF GatesInv
  <2>9. CASE finish
    <3>1. /\ stage = "finish" /\ stage' = "finished" /\ UNCHANGED <<typed, object, linked, diags, raised>>
          /\ exit' = IF HasErrors THEN "BuildError" ELSE "Success"
      BY <2>9 DEF finish
    <3>2. HasErrors' <=> HasErrors
      BY <2>3, <3>1 DEF HasErrors
    <3>3. Checked /\ Checked'
      BY <3>1 DEF Checked
    <3> QED BY <2>3, <2>4, <3>1, <3>2, <3>3 DEF GatesInv
  <2> QED BY <1>3, <1>4, <2>5, <2>6, <2>7, <2>8, <2>9 DEF DriverStep
<1>5. CASE UNCHANGED vars
  <2>1. UNCHANGED <<pkg, pass, phase, mods, diags, raised, stage, typed, object, linked, exit>>
    BY <1>5 DEF vars, graphVars, loadVars, cascadeVars, outVars
  <2>2. HasErrors' <=> HasErrors
    BY <2>1 DEF HasErrors
  <2>3. Faulty("type")' <=> Faulty("type")
    BY <2>1 DEF Faulty, Ids
  <2> QED BY <2>1, <2>2, <2>3 DEF GatesInv, Checked
<1> QED
  BY <1>1, <1>2, <1>4, <1>5 DEF Next, DriverStep

\* The invariant of the driver always holds.
LEMMA DriverHolds == Spec => [](Inv1 /\ SortInv /\ GraphInv /\ DriverInv)
<1>1. Init => DriverInv
  <2> SUFFICES ASSUME Init PROVE DriverInv
    OBVIOUS
  <2>1. /\ pass = 1 /\ phase = "idle" /\ stage = "start" /\ typed = 0 /\ roots = {} /\ work = {}
        /\ visited = {} /\ paths = <<>> /\ linked = FALSE /\ exit = "none"
    BY DEF Init, GraphInit
  <2>2. PassesInv /\ WorklistInv
    BY <2>1 DEF PassesInv, WorklistInv, Closed
  <2>3. GatesInv
    BY <2>1 DEF GatesInv, Checked
  <2> QED BY <2>2, <2>3 DEF DriverInv
<1>2. /\ Inv1 /\ SortInv /\ GraphInv /\ DriverInv /\ [Next]_vars
      => DriverInv'
  <2> SUFFICES ASSUME Inv1, GraphInv, DriverInv, [Next]_vars PROVE DriverInv'
    OBVIOUS
  <2>1. PassesInv' /\ WorklistInv'
    BY PassesStep, WorklistStep DEF DriverInv
  <2>2. Inv1'
    BY StepInv1
  <2>3. Strict' => Strict
    <3>1. pkg' = pkg
      <4>1. CASE DriverStep
        BY <4>1 DEF DriverStep, Resolved, Check, SkipCodegen, StartCodegen, Generate, Commit,
                    WriteRunner, Lint, CompileStage, LinkStage, finish, unchangedGraph
      <4>2. CASE Resolve
        BY <4>2 DEF Resolve, GraphNext, Visit, StartLink, LinkEdge, StartSort, SortRoot, Examine,
                    Retire, EndSort, ReportCycle, EndGraph
      <4>3. CASE Discover \/ Restart \/ UNCHANGED vars
        BY <4>3 DEF Discover, Restart, vars, graphVars
      <4> QED BY <4>1, <4>2, <4>3 DEF Next, DriverStep
    <3> QED BY <3>1 DEF Strict
  <2> QED BY <2>1, <2>2, <2>3, GatesStep DEF DriverInv
<1> QED
  BY <1>1, <1>2, GraphHolds, PTL DEF Spec

\* Past the last gate, a build without an error is what `check` accepts.
LEMMA CleanIsAccepted ==
    ASSUME Inv1, SortInv, GraphInv, DriverInv, Strict,
           stage \in {"finish", "finished"}, ~HasErrors, pkg.stop >= Typecheck
    PROVE  Accepted
<1>0. /\ GraphType /\ CascadeType /\ NoErrorLost /\ pass \in 1 .. 2 /\ PassesInv /\ WorklistInv
      /\ GatesInv
  BY TypeParts DEF Inv1, GraphType, DriverInv
<1>1. phase = "done" /\ typed = pass
  BY <1>0 DEF GatesInv, Checked
<1>2. Held /\ LoadInv
  BY <1>1 DEF Held, GraphInv
<1>3. \A d \in raised : d.class \in Rejecting => d.by = "check" /\ d.pass # pass
  BY <1>0, RejectingIsError
<1>4. Silent("import") /\ Silent("parse") /\ Silent("cycle")
  BY <1>3 DEF Silent, Rejecting
<1>5. cycles = {}
  BY <1>1, <1>4 DEF SortInv, SearchOver
<1>6. Faithful
  BY <1>0, <1>1, <1>2, LoadedFaithful
<1>7. \A class \in {"parse", "import", "type"} : ~Faulty(class)
  <2>1. ~Faulty("parse") /\ ~Faulty("import")
    BY <1>2, <1>4 DEF LoadInv, Told, Faulty
  <2>2. ~Faulty("type")
    BY <1>0, <1>1, <1>3 DEF GatesInv, Checked, Rejecting
  <2> QED BY <2>1, <2>2
<1>8. \A k \in 1 .. Len(entries) : by_file_path(entries[k]) # {}
  BY <1>0, <1>1, <1>2, <1>4, AllLoaded
<1>9. /\ \A k \in 1 .. Len(paths) : by_file_path(paths[k]) # {}
      /\ \A k \in 1 .. Len(pkg.entries) : by_file_path(pkg.entries[k]) # {}
  <2>1. pkg.entries \in Seq(Paths) /\ paths \in Seq(Paths)
    BY <1>0, PackageFields DEF GraphType, CascadeType
  <2>2. CASE pass = 1
    <3>1. entries = pkg.entries /\ paths = <<>>
      BY <1>0, <1>1, <2>2 DEF PassesInv
    <3> QED BY <1>8, <3>1
  <2>3. CASE pass = 2
    <3>1. entries = pkg.entries \o paths
      BY <1>0, <1>1, <2>3 DEF PassesInv
    <3>2. /\ Len(entries) = Len(pkg.entries) + Len(paths)
          /\ \A j \in 1 .. Len(pkg.entries) : entries[j] = pkg.entries[j]
          /\ \A j \in 1 .. Len(paths) : entries[Len(pkg.entries) + j] = paths[j]
          /\ Len(pkg.entries) \in Nat /\ Len(paths) \in Nat
      BY <2>1, <3>1, ConcatFacts
    <3>3. ASSUME NEW k \in 1 .. Len(paths) PROVE by_file_path(paths[k]) # {}
      <4>1. Len(pkg.entries) + k \in 1 .. Len(entries)
        BY <3>2
      <4> QED BY <1>8, <3>2, <4>1
    <3>4. ASSUME NEW k \in 1 .. Len(pkg.entries) PROVE by_file_path(pkg.entries[k]) # {}
      <4>1. k \in 1 .. Len(entries)
        BY <3>2
      <4> QED BY <1>8, <3>2, <4>1
    <3> QED BY <3>3, <3>4
  <2> QED BY <1>0, <2>2, <2>3
<1>10. roots \subseteq visited /\ \A s \in visited : pkg.nested[s] \subseteq visited /\ Staged(pkg.art[s])
  <2>1. work = {} /\ Closed
    BY <1>0, <1>3 DEF WorklistInv
  <2> QED BY <2>1 DEF Closed
<1> QED
  BY <1>1, <1>5, <1>6, <1>7, <1>9, <1>10 DEF Accepted

\* When no class that rejects a program is demoted: a build that exits with
\* Success has accepted the package it ended with, generated files and all, and
\* linked it if asked to; and nothing is linked by a build that then fails.
THEOREM CascadeSuccess == Spec => []SuccessMeansBuilt
<1>1. Inv1 /\ SortInv /\ GraphInv /\ DriverInv => SuccessMeansBuilt
  <2> SUFFICES ASSUME Inv1, SortInv, GraphInv, DriverInv, Strict
               PROVE  /\ exit = "Success" /\ pkg.stop >= Typecheck => Accepted
                      /\ exit = "Success" /\ pkg.stop >= Link => linked
                      /\ linked => exit # "BuildError" /\ Accepted
    BY DEF SuccessMeansBuilt
  <2>1. GatesInv /\ pkg.stop \in 2 .. 6
    <3>1. pkg \in Packages
      BY TypeParts DEF Inv1, GraphType
    <3> QED BY <3>1, PackageFields DEF DriverInv
  <2>2. exit = "Success" => stage = "finished" /\ ~HasErrors
    BY <2>1 DEF GatesInv
  <2>3. linked => stage \in {"finish", "finished"} /\ ~HasErrors /\ pkg.stop >= Typecheck
    BY <2>1 DEF GatesInv, Link, Typecheck
  <2>4. linked => exit # "BuildError"
    BY <2>1 DEF GatesInv
  <2>5. exit = "Success" /\ pkg.stop >= Link => linked
    BY <2>1, <2>2 DEF GatesInv
  <2> QED BY <2>2, <2>3, <2>4, <2>5, CleanIsAccepted
<1> QED
  BY <1>1, DriverHolds, PTL

=============================================================================
