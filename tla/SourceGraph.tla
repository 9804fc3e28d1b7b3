------------------------------ MODULE SourceGraph ------------------------------
(***************************************************************************)
(* The parse-and-resolve pass of `edda-resolve`: `build_source_graph`      *)
(* loads the entry files breadth first, gives every file a module path,    *)
(* follows its imports, turns the collected imports into adjacency lists   *)
(* and sorts the graph with an iterative depth-first search that reports   *)
(* the import cycles.  One action is one turn of one of its loops.         *)
(*                                                                         *)
(* What files contain is data: a package says, for every path, which file  *)
(* it really is, the module path a file found there gets, what its imports *)
(* resolve to and which kinds of fault it has.  Modules are numbered from  *)
(* 1 (`ModuleId` counts from 0).                                           *)
(***************************************************************************)
EXTENDS Integers, Sequences, FiniteSets

CONSTANTS
    Paths,      \* file paths, more than one of which may name a file
    Names,      \* canonical module paths
    NoName,     \* what a file without a module identity has
    Specs,      \* demanded (spec, arguments) pairs
    Packages    \* the packages, and the builds asked of them

\* The diagnostic classes the properties tell apart, and the stages that emit.
\* "pinned" are those whose severity is an error whatever the manifest says.
Classes == {"parse", "import", "cycle", "type", "lint", "pinned"}
Stages == {"graph", "names", "check", "codegen", "lint", "map", "compile", "link", "driver"}

\* What an `import` resolves to: a module path and the file expected to hold it;
\* whether it is written as a sibling (or with `local`), with other leading
\* segments, or comes from a `derive`; and the leaves it introduces: those it
\* selects (`import p.{a, b}`) in their order, or one, its last segment or alias.
Imports == [name: Names, file: Paths, form: {"sibling", "dotted", "derive"},
            leaves: Seq(Names), selected: BOOLEAN]

\* A package: `real` is canonicalisation, `name` a file's identity, `imports`
\* what its imports and derives resolve to, `last` the last segment of a
\* module path, `fault` the classes of its faults,
\* `errors` the classes whose effective severity is an error; what its files
\* and specs demand, where a spec is declared and what its artifact is called;
\* and the command: how far the build goes, and whether with `--properties`.
Package ==
    [real: [Paths -> Paths], name: [Paths -> Names \cup {NoName}],
     imports: [Paths -> Seq(Imports)], last: [Names -> Names],
     fault: [Paths -> SUBSET Classes], errors: SUBSET Classes, disk: SUBSET Paths, entries: Seq(Paths),
     demands: [Paths -> SUBSET Specs], nested: [Specs -> SUBSET Specs],
     home: [Specs -> Names], art: [Specs -> Paths], runner: Paths,
     stop: 2 .. 6, properties: BOOLEAN]

ASSUME GraphAssumption == NoName \notin Names /\ Packages \subseteq Package

VARIABLES
    pkg,        \* the package being built
    disk,       \* the files that exist
    pass,       \* 1, or 2 once codegen has added sources
    diags,      \* Driver.diagnostics
    raised,     \* history: every diagnostic ever pushed
    phase,      \* where build_source_graph stands
    entries,    \* its argument
    queue,      \* GraphDriver.queue
    seen,       \* GraphDriver.seen_files
    mods,       \* GraphDriver.modules
    edges,      \* GraphDriver.pending_edges
    adj,        \* ResolvedSourceGraph.imports
    linkedTo,   \* how many pending edges build_adjacency has turned into adj
    color,      \* 0 white, 1 gray, 2 black
    stack,      \* the frames of the depth-first search
    order,      \* nodes in the order they turned black
    topo,       \* ResolvedSourceGraph.topo_order
    cycles,     \* the normalised cycles found
    unreported  \* cycles whose diagnostic is not pushed yet

loadVars == <<entries, queue, seen, mods, edges>>
sortVars == <<color, stack, order, topo, cycles, unreported>>
graphVars == <<pkg, disk, pass, diags, raised, phase, loadVars, adj, linkedTo, sortVars>>

-----------------------------------------------------------------------------
(* Diagnostics. *)

Diag(class, by) == [class |-> class, pass |-> pass, by |-> by]

Emit(ds) ==
    /\ diags' = diags \o ds
    /\ raised' = raised \cup {ds[k] : k \in 1 .. Len(ds)}

When(b, d) == IF b THEN <<d>> ELSE <<>>

HasErrors == \E k \in 1 .. Len(diags) : diags[k].class \in pkg.errors \cup {"pinned"}

-----------------------------------------------------------------------------
(* Loading. *)

\* A path that cannot be canonicalised is its own key.
canonical_key(p) == IF pkg.real[p] \in disk THEN pkg.real[p] ELSE p

Ids == 1 .. Len(mods)
by_path(n) == {i \in Ids : mods[i].name = n}
by_file_path(p) == {i \in Ids : canonical_key(mods[i].file) = canonical_key(p)}

\* build_source_graph(es) begins: a fresh GraphDriver with es enqueued.
StartGraph(es) ==
    /\ entries' = es /\ queue' = es
    /\ seen' = {} /\ mods' = <<>> /\ edges' = <<>>
    /\ adj' = <<>> /\ linkedTo' = 0
    /\ color' = <<>> /\ stack' = <<>> /\ order' = <<>> /\ topo' = <<>>
    /\ cycles' = {} /\ unreported' = {}
    /\ phase' = "load"

\* What loading a path that is neither a duplicate nor unreadable reports: its
\* parse errors, then the imports that resolve to nothing.
Complaints(p, class) == When(class \in pkg.fault[p], Diag(class, "graph"))

\* collect_imports followed by register_module.
Register(p) ==
    LET is == pkg.imports[p]
        id == Len(mods) + 1
    IN  /\ mods' = Append(mods, [file |-> p, name |-> pkg.name[p]])
        /\ queue' = Tail(queue) \o [k \in 1 .. Len(is) |-> is[k].file]
        /\ edges' = edges \o [k \in 1 .. Len(is) |->
                        [from |-> id, name |-> is[k].name, file |-> is[k].file]]
        /\ Emit(Complaints(p, "parse") \o Complaints(p, "import"))

\* visit: skip a file already seen, report one that cannot be read, has no
\* identity or whose module path is taken, or else register it as a module.
Visit ==
    /\ phase = "load" /\ queue # <<>>
    /\ LET p == Head(queue) IN
       /\ seen' = seen \cup {canonical_key(p)}
       /\ \/ /\ canonical_key(p) \in seen
             /\ queue' = Tail(queue)
             /\ UNCHANGED <<mods, edges, diags, raised>>
          \/ /\ canonical_key(p) \notin seen
             /\ pkg.real[p] \notin disk
             /\ queue' = Tail(queue)
             /\ Emit(<<Diag("import", "graph")>>)
             /\ UNCHANGED <<mods, edges>>
          \/ /\ canonical_key(p) \notin seen
             /\ pkg.real[p] \in disk
             /\ pkg.name[p] = NoName \/ by_path(pkg.name[p]) # {}
             /\ queue' = Tail(queue)
             /\ Emit(Complaints(p, "parse") \o <<Diag("import", "graph")>>)
             /\ UNCHANGED <<mods, edges>>
          \/ /\ canonical_key(p) \notin seen
             /\ pkg.real[p] \in disk
             /\ pkg.name[p] # NoName /\ by_path(pkg.name[p]) = {}
             /\ Register(p)
    /\ UNCHANGED <<pkg, disk, pass, phase, entries, adj, linkedTo, sortVars>>

\* Mutant of StartLink: one adjacency list per entry file, not per module.
StartLinkPerEntry ==
    /\ phase = "load" /\ queue = <<>>
    /\ phase' = "link"
    /\ adj' = [i \in 1 .. Len(entries) |-> <<>>]
    /\ UNCHANGED <<pkg, disk, pass, diags, raised, loadVars, linkedTo, sortVars>>

\* drive ends; finalize allocates the adjacency lists.
StartLink ==
    /\ phase = "load" /\ queue = <<>>
    /\ phase' = "link"
    /\ adj' = [i \in Ids |-> <<>>]
    /\ UNCHANGED <<pkg, disk, pass, diags, raised, loadVars, linkedTo, sortVars>>

\* Mutant of target_id: no fallback to the expected file.
TargetByName(e) == by_path(e.name)

\* The modules an import may mean: the one of that name, or else the one
\* loaded from the expected file (a `module` declaration renamed it).
target_id(e) == IF by_path(e.name) # {} THEN by_path(e.name) ELSE by_file_path(e.file)

\* build_adjacency, one pending edge at a time.
LinkEdge ==
    /\ phase = "link" /\ linkedTo < Len(edges)
    /\ LET e == edges[linkedTo + 1] IN
       \/ /\ target_id(e) = {}
          /\ UNCHANGED adj
       \/ \E t \in target_id(e) : adj' = [adj EXCEPT ![e.from] = Append(@, t)]
    /\ linkedTo' = linkedTo + 1
    /\ UNCHANGED <<pkg, disk, pass, diags, raised, phase, loadVars, sortVars>>

-----------------------------------------------------------------------------
(* Sorting: topo_or_cycles. *)

StartSort ==
    /\ phase = "link" /\ linkedTo = Len(edges)
    /\ phase' = "sort"
    /\ color' = [i \in Ids |-> 0]
    /\ UNCHANGED <<pkg, disk, pass, diags, raised, loadVars, adj, linkedTo,
                   stack, order, topo, cycles, unreported>>

Top == stack[Len(stack)]
Below == SubSeq(stack, 1, Len(stack) - 1)
Advance == Append(Below, [node |-> Top.node, next |-> Top.next + 1])
HasChild == Top.next <= Len(adj[Top.node])
Child == adj[Top.node][Top.next]

\* The next root is the first white node.
SortRoot ==
    /\ phase = "sort" /\ stack = <<>>
    /\ \E r \in Ids :
          /\ color[r] = 0
          /\ \A i \in 1 .. r - 1 : color[i] # 0
          /\ color' = [color EXCEPT ![r] = 1]
          /\ stack' = <<[node |-> r, next |-> 1]>>
    /\ UNCHANGED <<pkg, disk, pass, diags, raised, phase, loadVars, adj, linkedTo,
                   order, topo, cycles, unreported>>

\* extract_cycle: the nodes of the stack from the target of the back edge up.
extract_cycle(c) ==
    LET start == CHOOSE k \in 1 .. Len(stack) : stack[k].node = c
    IN  [k \in 1 .. Len(stack) - start + 1 |-> stack[start + k - 1].node]

\* normalize_cycle: rotated so that the smallest id comes first.
normalize_cycle(c) ==
    LET m == CHOOSE k \in 1 .. Len(c) : \A j \in 1 .. Len(c) : c[k] <= c[j]
    IN  [k \in 1 .. Len(c) |->
            IF m + k - 1 <= Len(c) THEN c[m + k - 1] ELSE c[m + k - 1 - Len(c)]]

\* Mutant of Examine: a gray child is passed over like a black one.
ExamineTwoColors ==
    /\ phase = "sort" /\ stack # <<>> /\ HasChild
    /\ \/ /\ color[Child] = 0
          /\ color' = [color EXCEPT ![Child] = 1]
          /\ stack' = Append(Advance, [node |-> Child, next |-> 1])
       \/ /\ color[Child] # 0
          /\ stack' = Advance
          /\ UNCHANGED color
    /\ UNCHANGED <<pkg, disk, pass, diags, raised, phase, loadVars, adj, linkedTo,
                   order, topo, cycles, unreported>>

\* A white child is pushed, a gray one closes a cycle, a black one is done.
Examine ==
    /\ phase = "sort" /\ stack # <<>> /\ HasChild
    /\ \/ /\ color[Child] = 0
          /\ color' = [color EXCEPT ![Child] = 1]
          /\ stack' = Append(Advance, [node |-> Child, next |-> 1])
          /\ UNCHANGED cycles
       \/ /\ color[Child] = 1
          /\ cycles' = cycles \cup {normalize_cycle(extract_cycle(Child))}
          /\ stack' = Advance
          /\ UNCHANGED color
       \/ /\ color[Child] = 2
          /\ stack' = Advance
          /\ UNCHANGED <<color, cycles>>
    /\ UNCHANGED <<pkg, disk, pass, diags, raised, phase, loadVars, adj, linkedTo,
                   order, topo, unreported>>

\* Every child of the top frame has been examined.
Retire ==
    /\ phase = "sort" /\ stack # <<>> /\ ~HasChild
    /\ color' = [color EXCEPT ![Top.node] = 2]
    /\ order' = Append(order, Top.node)
    /\ stack' = Below
    /\ UNCHANGED <<pkg, disk, pass, diags, raised, phase, loadVars, adj, linkedTo,
                   topo, cycles, unreported>>

\* No white node is left: the order is reversed and finalize reports cycles.
EndSort ==
    /\ phase = "sort" /\ stack = <<>>
    /\ \A i \in Ids : color[i] # 0
    /\ phase' = "report"
    /\ topo' = [k \in 1 .. Len(order) |-> order[Len(order) + 1 - k]]
    /\ unreported' = cycles
    /\ UNCHANGED <<pkg, disk, pass, diags, raised, loadVars, adj, linkedTo,
                   color, stack, order, cycles>>

\* emit_import_cycle, in the arbitrary order of a hash set.
ReportCycle ==
    /\ phase = "report"
    /\ \E c \in unreported : unreported' = unreported \ {c}
    /\ Emit(<<Diag("cycle", "graph")>>)
    /\ UNCHANGED <<pkg, disk, pass, phase, loadVars, adj, linkedTo,
                   color, stack, order, topo, cycles>>

EndGraph ==
    /\ phase = "report" /\ unreported = {}
    /\ phase' = "done"
    /\ UNCHANGED <<pkg, disk, pass, diags, raised, loadVars, adj, linkedTo, sortVars>>

GraphInit ==
    /\ pkg \in Packages
    /\ disk = pkg.disk
    /\ pass = 1 /\ diags = <<>> /\ raised = {}
    /\ phase = "idle"
    /\ entries = <<>> /\ queue = <<>> /\ seen = {} /\ mods = <<>> /\ edges = <<>>
    /\ adj = <<>> /\ linkedTo = 0
    /\ color = <<>> /\ stack = <<>> /\ order = <<>> /\ topo = <<>>
    /\ cycles = {} /\ unreported = {}

GraphNext ==
    \/ Visit \/ StartLink \/ LinkEdge
    \/ StartSort \/ SortRoot \/ Examine \/ Retire \/ EndSort
    \/ ReportCycle \/ EndGraph

-----------------------------------------------------------------------------
(* What the graph promises. *)

GraphType ==
    /\ pkg \in Packages
    /\ disk \subseteq Paths
    /\ pass \in 1 .. 2
    /\ diags \in Seq([class: Classes, pass: 1 .. 2, by: Stages])
    /\ raised \subseteq [class: Classes, pass: 1 .. 2, by: Stages]
    /\ phase \in {"idle", "load", "link", "sort", "report", "done"}
    /\ entries \in Seq(Paths) /\ queue \in Seq(Paths)
    /\ seen \subseteq Paths
    /\ mods \in Seq([file: Paths, name: Names])
    /\ edges \in Seq([from: Ids, name: Names, file: Paths])
    /\ linkedTo \in 0 .. Len(edges)
    /\ phase \in {"link", "sort", "report", "done"} => adj \in [Ids -> Seq(Ids)]
    /\ phase \in {"sort", "report", "done"} => color \in [Ids -> 0 .. 2]
    /\ stack \in Seq([node: Ids, next: Nat \ {0}])
    /\ order \in Seq(Ids) /\ topo \in Seq(Ids)
    /\ cycles \subseteq Seq(Ids) /\ unreported \subseteq cycles

\* This pass's graph construction pushed no diagnostic of the class.
Silent(class) == \A d \in raised : ~(d.class = class /\ d.pass = pass /\ d.by = "graph")

EdgeTo(i, j) == \E k \in 1 .. Len(adj[i]) : adj[i][k] = j

\* Consecutive nodes import each other, and the last imports the first.
IsCycle(c) ==
    /\ Len(c) > 0
    /\ \A k \in 1 .. Len(c) - 1 : EdgeTo(c[k], c[k + 1])
    /\ EdgeTo(c[Len(c)], c[1])

\* The topological order lists every module exactly once; unless a cycle was
\* reported, every module comes before the modules it imports; and what is
\* reported as a cycle is one.
Sorted ==
    /\ \A i \in Ids : \E k \in 1 .. Len(topo) : topo[k] = i
    /\ \A j, k \in 1 .. Len(topo) : topo[j] = topo[k] => j = k
    /\ Silent("cycle") =>
          \A j, k \in 1 .. Len(topo) : EdgeTo(topo[j], topo[k]) => j < k
    /\ \A c \in cycles : IsCycle(c)

\* Module j is what the import e means.
Means(e, j) ==
    mods[j].name = e.name \/ canonical_key(mods[j].file) = canonical_key(e.file)

\* No two modules share a module path or a file; every edge of the graph is
\* an import of its source; and unless the pass reported an import error every
\* entry file is a module and every import of every module has its edge.
Faithful ==
    /\ \A i, j \in Ids :
          \/ mods[i].name = mods[j].name
          \/ canonical_key(mods[i].file) = canonical_key(mods[j].file)
          => i = j
    /\ \A i, j \in Ids : EdgeTo(i, j) =>
          LET is == pkg.imports[mods[i].file]
          IN  \E k \in 1 .. Len(is) : Means(is[k], j)
    /\ Silent("import") =>
          /\ \A k \in 1 .. Len(entries) : by_file_path(entries[k]) # {}
          /\ \A i \in Ids :
                LET is == pkg.imports[mods[i].file]
                IN  \A k \in 1 .. Len(is) : \E j \in Ids : EdgeTo(i, j) /\ Means(is[k], j)

=============================================================================
