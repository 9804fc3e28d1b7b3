------------------------------ MODULE ImportLeaves ------------------------------
(***************************************************************************)
(* The import leaf tables of `edda-resolve`: what the names a file's       *)
(* imports introduce stand for.  `build_import_leaf_table` works out the   *)
(* target of every import a second time, after the source graph is built,  *)
(* by rules of its own; it is a function of the finished graph.            *)
(***************************************************************************)
EXTENDS SourceGraph

\* Mutant of LeafTarget: a module path names its module or nothing.
LeafTargetByName(e) == by_path(e.name)

\* The module an import means here.  Only a sibling import, or one that begins
\* with `local`, has an expected file to fall back to.
LeafTarget(e) ==
    IF by_path(e.name) # {} \/ e.form # "sibling" THEN by_path(e.name)
    ELSE by_file_path(e.file)

\* The `import` items of module i that have a target, and those among them
\* that are the first of their module path.
Targeted(i) ==
    LET is == pkg.imports[mods[i].file]
    IN  {k \in 1 .. Len(is) : is[k].form # "derive" /\ LeafTarget(is[k]) # {}}

Firsts(i) ==
    LET is == pkg.imports[mods[i].file]
    IN  {k \in Targeted(i) : \A j \in Targeted(i) : j < k => is[j].name # is[k].name}

\* register_leaf: leaf m of import k is bound, since no earlier leaf has its name.
Binds(i, k, m) ==
    LET is == pkg.imports[mods[i].file]
    IN  \A j \in Firsts(i) : \A n \in 1 .. Len(is[j].leaves) :
            j < k \/ (j = k /\ n < m) => is[j].leaves[n] # is[k].leaves[m]

\* The bindings of import k.  A selected leaf is an item inside the target, any
\* other is the target itself.
Bindings(i, k) ==
    LET e == pkg.imports[mods[i].file][k]
    IN  {[leaf |-> e.leaves[m], module |-> t, selected |-> e.selected] :
            m \in {n \in 1 .. Len(e.leaves) : Binds(i, k, n)}, t \in LeafTarget(e)}

\* build_import_leaf_table: the bindings of module i.  Its own leaf is added
\* last, unless an import has taken it.
LeafTable(i) ==
    LET imported == UNION {Bindings(i, k) : k \in Firsts(i)}
        own == [leaf |-> pkg.last[mods[i].name], module |-> i, selected |-> FALSE]
    IN  IF \E b \in imported : b.leaf = own.leaf THEN imported ELSE imported \cup {own}

\* What the tables report: a module path imported twice, a leaf introduced twice.
DuplicateImport == \E i \in Ids : Firsts(i) # Targeted(i)
DuplicateLeaf ==
    \E i \in Ids : \E k \in Firsts(i) :
        \E m \in 1 .. Len(pkg.imports[mods[i].file][k].leaves) : ~Binds(i, k, m)

-----------------------------------------------------------------------------
(* What the tables promise. *)

\* The table of module i agrees with the graph about what an import means:
\* a leaf stands for one thing, in or as one module, which is i or one that i
\* imports.
LeavesFollow(i) ==
    /\ \A b, c \in LeafTable(i) : b.leaf = c.leaf => b = c
    /\ \A b \in LeafTable(i) : b.module = i \/ EdgeTo(i, b.module)

\* Import k of module i is skipped: it has leading segments, and the file it
\* means declares another module path.
Skipped(i, k) ==
    LET e == pkg.imports[mods[i].file][k]
    IN  e.form = "dotted" /\ by_path(e.name) = {}

\* Import k of module i is dropped: an earlier one that has a target is of the
\* same module path.
Repeated(i, k) ==
    LET is == pkg.imports[mods[i].file]
    IN  \E j \in Targeted(i) : j < k /\ is[j].name = is[k].name

\* Every leaf of import k of module i is bound to what the import means.
Stands(i, k) ==
    LET e == pkg.imports[mods[i].file][k]
    IN  \A m \in 1 .. Len(e.leaves) : \E b \in LeafTable(i) :
            b.leaf = e.leaves[m] /\ b.selected = e.selected /\ Means(e, b.module)
=============================================================================
