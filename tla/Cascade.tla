-------------------------------- MODULE Cascade --------------------------------
(***************************************************************************)
(* The build cascade of `edda-driver`: `cascade::run` resolves the sources *)
(* of a package, typechecks them, materialises the specs they demand, runs *)
(* the first two stages again over the sources and the generated files,    *)
(* and compiles and links what the second pass accepted.  It composes the  *)
(* source graph with the gates between the stages, the splice of the       *)
(* diagnostics between the passes and the codegen worklist.                *)
(*                                                                         *)
(* What a stage finds wrong with the program is data of the package where  *)
(* the passes must agree about it, and a free choice where the environment *)
(* (a disk, a linker) decides.                                             *)
(***************************************************************************)
EXTENDS ImportLeaves

\* Stage::ImportResolve .. Stage::Link of RunPlan::stop_after.
ImportResolve == 2
Typecheck == 3
Codegen == 4
Compile == 5
Link == 6

VARIABLES
    stage,      \* where cascade::run stands
    pre,        \* pre_typecheck_diag_len
    post,       \* post_typecheck_diag_len
    typed,      \* the pass whose TypedPackage is held, 0 for None
    roots,      \* history: what collect_roots was asked for
    work,       \* drive_codegen's worklist
    visited,    \* its visited_keys
    paths,      \* codegen_paths
    object,     \* compile_outputs holds the object file
    linked,     \* the link stage has produced its output
    exit        \* Outcome.exit_code

markVars == <<pre, post>>
genVars == <<roots, work, visited>>
outVars == <<object, linked, exit>>
cascadeVars == <<markVars, stage, typed, genVars, paths, outVars>>
vars == <<graphVars, cascadeVars>>

unchangedGraph == UNCHANGED <<pkg, pass, phase, loadVars, adj, linkedTo, sortVars>>

-----------------------------------------------------------------------------
(* Resolve and typecheck. *)

\* discover_source_files, then drive_resolve begins.
Discover ==
    /\ stage = "start"
    /\ \/ /\ Emit(<<Diag("parse", "driver")>>)
          /\ stage' = "finish"
          /\ UNCHANGED <<phase, loadVars, adj, linkedTo, sortVars>>
       \/ /\ StartGraph(pkg.entries)
          /\ stage' = "resolve"
          /\ UNCHANGED <<diags, raised>>
    /\ UNCHANGED <<pkg, disk, pass, markVars, typed, genVars, paths, outVars>>

\* build_source_graph runs.
Resolve ==
    /\ stage = "resolve"
    /\ GraphNext
    /\ UNCHANGED cascadeVars

\* drive_resolve ends with build_resolved_package: the leaf tables complain of
\* duplicates, and names may be rejected.
Resolved ==
    /\ stage = "resolve" /\ phase = "done"
    /\ \E unknown \in BOOLEAN :
          Emit(When(DuplicateImport, Diag("lint", "names"))
                  \o When(DuplicateLeaf \/ unknown, Diag("import", "names")))
    /\ stage' = "check"
    /\ unchangedGraph
    /\ UNCHANGED <<disk, markVars, typed, genVars, paths, outVars>>

\* The specs the loaded modules demand, those of a set of specs whose
\* declaration some module holds, and those whose artifact is no module yet.
Demanded == UNION {pkg.demands[mods[i].file] : i \in Ids}
Located(S) == {s \in S : by_path(pkg.home[s]) # {}}
Unexpanded == {s \in Demanded : by_file_path(pkg.art[s]) = {}}

Faulty(class) == \E i \in Ids : class \in pkg.fault[mods[i].file]

\* Mutant of Check: the second pass keeps the verdict of the first.
CheckOnce ==
    /\ stage = "check"
    /\ typed' = IF pkg.stop >= Typecheck /\ ~HasErrors THEN pass ELSE 0
    /\ IF pass = 1
       THEN /\ Emit(When(typed' # 0 /\ Faulty("type"), Diag("type", "check")))
            /\ pre' = Len(diags)
            /\ post' = Len(diags')
            /\ stage' = "codegen"
       ELSE /\ stage' = "lint"
            /\ UNCHANGED <<diags, raised, pre, post>>
    /\ unchangedGraph
    /\ UNCHANGED <<disk, genVars, paths, outVars>>

\* drive_typecheck, in either pass: a type error is found whenever a module
\* has one; a member of a spec that is not generated yet may look like one.
Check ==
    /\ stage = "check"
    /\ IF pkg.stop >= Typecheck /\ ~HasErrors
       THEN /\ typed' = pass
            /\ \E missing \in BOOLEAN :
                  /\ missing => Unexpanded # {}
                  /\ Emit(When(Faulty("type") \/ missing, Diag("type", "check")))
       ELSE /\ typed' = 0
            /\ UNCHANGED <<diags, raised>>
    /\ IF pass = 1
       THEN /\ pre' = Len(diags)
            /\ post' = Len(diags')
            /\ stage' = "codegen"
       ELSE /\ stage' = "lint"
            /\ UNCHANGED <<pre, post>>
    /\ unchangedGraph
    /\ UNCHANGED <<disk, genVars, paths, outVars>>

-----------------------------------------------------------------------------
(* Codegen. *)

\* Not entered unless the first pass produced a typed package.
SkipCodegen ==
    /\ stage = "codegen"
    /\ pkg.stop < Codegen \/ typed = 0
    /\ stage' = "properties"
    /\ unchangedGraph
    /\ UNCHANGED <<disk, diags, raised, markVars, typed, genVars, paths, outVars>>

\* collect_roots; with a root, the store is opened and a session begun.
StartCodegen ==
    /\ stage = "codegen"
    /\ pkg.stop >= Codegen /\ typed # 0
    /\ roots' = Demanded
    /\ LET unknown == When(Located(Demanded) # Demanded, Diag("type", "codegen")) IN
       \/ /\ Located(Demanded) = {}
          /\ Emit(unknown)
          /\ stage' = "properties"
          /\ UNCHANGED work
       \/ /\ Located(Demanded) # {}
          /\ Emit(unknown \o <<Diag("parse", "codegen")>>)
          /\ stage' = "properties"
          /\ UNCHANGED work
       \/ /\ Located(Demanded) # {}
          /\ Emit(unknown)
          /\ stage' = "generate"
          /\ work' = Located(Demanded)
    /\ unchangedGraph
    /\ UNCHANGED <<disk, markVars, typed, visited, paths, outVars>>

Staged(p) == \E k \in 1 .. Len(paths) : paths[k] = p

\* Mutant of Generate: no set of visited keys.
GenerateAgain ==
    /\ stage = "generate"
    /\ \E s \in work :
          /\ visited' = visited \cup {s}
          /\ work' = (work \ {s}) \cup Located(pkg.nested[s])
          /\ paths' = IF Staged(pkg.art[s]) THEN paths ELSE Append(paths, pkg.art[s])
          /\ Emit(When(Located(pkg.nested[s]) # pkg.nested[s], Diag("type", "codegen")))
    /\ unchangedGraph
    /\ UNCHANGED <<disk, stage, markVars, typed, roots, outVars>>

\* One turn of the worklist: a key met before is dropped; a new one is
\* instantiated, which fails or stages its artifact, listed once, and adds
\* the invocations of its body that can be located.
Generate ==
    /\ stage = "generate"
    /\ \E s \in work :
       \/ /\ s \in visited
          /\ work' = work \ {s}
          /\ UNCHANGED <<visited, paths, diags, raised>>
       \/ /\ s \notin visited
          /\ visited' = visited \cup {s}
          /\ work' = work \ {s}
          /\ Emit(<<Diag("parse", "codegen")>>)
          /\ UNCHANGED paths
       \/ /\ s \notin visited
          /\ visited' = visited \cup {s}
          /\ work' = (work \ {s}) \cup Located(pkg.nested[s])
          /\ paths' = IF Staged(pkg.art[s]) THEN paths ELSE Append(paths, pkg.art[s])
          /\ Emit(When(Located(pkg.nested[s]) # pkg.nested[s], Diag("type", "codegen")))
    /\ unchangedGraph
    /\ UNCHANGED <<disk, stage, markVars, typed, roots, outVars>>

Artifacts == {pkg.real[paths[k]] : k \in 1 .. Len(paths)}

\* session.commit writes every staged artifact, or fails and leaves any of
\* them on disk; the report lists them all either way.
Commit ==
    /\ stage = "generate" /\ work = {}
    /\ \/ /\ disk' = disk \cup Artifacts
          /\ UNCHANGED <<diags, raised>>
       \/ /\ \E kept \in SUBSET Artifacts : disk' = (disk \ Artifacts) \cup kept
          /\ Emit(<<Diag("parse", "codegen")>>)
    /\ stage' = "properties"
    /\ unchangedGraph
    /\ UNCHANGED <<markVars, typed, genVars, paths, outVars>>

-----------------------------------------------------------------------------
(* Properties and the second pass. *)

\* `test --properties` writes its runner and lists it with the generated
\* files; without targets, or when the write fails, nothing is reported.
WriteRunner ==
    /\ stage = "properties"
    /\ \/ /\ pkg.properties
          /\ disk' = disk \cup {pkg.real[pkg.runner]}
          /\ paths' = Append(paths, pkg.runner)
       \/ UNCHANGED <<disk, paths>>
    /\ stage' = IF paths' = <<>> THEN "lint" ELSE "restart"
    /\ unchangedGraph
    /\ UNCHANGED <<diags, raised, markVars, typed, genVars, outVars>>

\* Mutant of splice: everything after the first resolve is dropped.
TruncateAll == SubSeq(diags, 1, pre)

\* The first typecheck's diagnostics are cut out from between those before
\* and those after it, and everything generated is resolved with the sources.
splice == SubSeq(diags, 1, pre) \o SubSeq(diags, post + 1, Len(diags))

Restart ==
    /\ stage = "restart"
    /\ diags' = splice
    /\ StartGraph(pkg.entries \o paths)
    /\ pass' = 2
    /\ typed' = 0
    /\ stage' = "resolve"
    /\ UNCHANGED <<pkg, disk, raised, markVars, genVars, paths, outVars>>

-----------------------------------------------------------------------------
(* The back half. *)

\* finalize_unused_import_lint and the trust budget, then drive_structmap, which
\* may complain of the code it maps, find the map stale or fail to write it.
Lint ==
    /\ stage = "lint"
    /\ \E ds \in {<<>>} \cup {<<Diag(class, "map")>> : class \in {"lint", "pinned", "parse"}} :
          /\ ds # <<>> => typed # 0
          /\ Emit(When(Faulty("lint"), Diag("lint", "lint"))
                     \o When(Faulty("pinned"), Diag("pinned", "lint")) \o ds)
    /\ stage' = "compile"
    /\ unchangedGraph
    /\ UNCHANGED <<disk, markVars, typed, genVars, paths, outVars>>

\* drive_compile: MIR lowering rejects the program, or the output directory
\* cannot be made, or each of the dump and the object is written or fails.
CompileStage ==
    /\ stage = "compile"
    /\ IF pkg.stop >= Compile /\ ~HasErrors /\ typed # 0
       THEN \/ /\ \E class \in {"type", "parse"} : Emit(<<Diag(class, "compile")>>)
               /\ UNCHANGED object
            \/ \E dump \in BOOLEAN :
                  /\ object' \in BOOLEAN
                  /\ Emit(When(~dump, Diag("parse", "compile"))
                             \o When(~object', Diag("parse", "compile")))
       ELSE UNCHANGED <<diags, raised, object>>
    /\ stage' = "link"
    /\ unchangedGraph
    /\ UNCHANGED <<disk, markVars, typed, genVars, paths, linked, exit>>

\* drive_link: nothing to do without an object; each failure is reported.
LinkStage ==
    /\ stage = "link"
    /\ IF pkg.stop >= Link /\ ~HasErrors /\ object
       THEN /\ linked' \in BOOLEAN
            /\ Emit(When(~linked', Diag("parse", "link")))
       ELSE UNCHANGED <<diags, raised, linked>>
    /\ stage' = "finish"
    /\ unchangedGraph
    /\ UNCHANGED <<disk, markVars, typed, genVars, paths, object, exit>>

finish ==
    /\ stage = "finish"
    /\ exit' = IF HasErrors THEN "BuildError" ELSE "Success"
    /\ stage' = "finished"
    /\ unchangedGraph
    /\ UNCHANGED <<disk, diags, raised, markVars, typed, genVars, paths, object, linked>>

Init ==
    /\ GraphInit
    /\ stage = "start"
    /\ pre = 0 /\ post = 0 /\ typed = 0
    /\ roots = {} /\ work = {} /\ visited = {} /\ paths = <<>>
    /\ object = FALSE /\ linked = FALSE /\ exit = "none"

Next ==
    \/ Discover \/ Resolve \/ Resolved \/ Check
    \/ SkipCodegen \/ StartCodegen \/ Generate \/ Commit
    \/ WriteRunner \/ Restart
    \/ Lint \/ CompileStage \/ LinkStage \/ finish

\* The driver is one thread whose steps all return, so it never stops early.
Spec == Init /\ [][Next]_vars /\ WF_vars(Next)

-----------------------------------------------------------------------------
(* What a build promises. *)

TypeOK ==
    /\ GraphType
    /\ stage \in {"start", "resolve", "check", "codegen", "generate", "properties",
                  "restart", "lint", "compile", "link", "finish", "finished"}
    /\ pre \in Nat /\ post \in Nat
    /\ typed \in 0 .. 2
    /\ roots \subseteq Specs /\ work \subseteq Specs /\ visited \subseteq Specs
    /\ paths \in Seq(Paths)
    /\ object \in BOOLEAN /\ linked \in BOOLEAN
    /\ exit \in {"none", "BuildError", "Success"}

\* Whenever build_source_graph has returned, its topological order is right
\* and a cycle is reported exactly when there is one.
OrderSound == phase = "done" => Sorted

\* The graph stays what the files say until codegen writes to the disk; then
\* the second pass builds a new one before anything looks at it again.
Current == phase = "done" /\ (stage \in {"properties", "restart"} => paths = <<>>)

\* Every graph a later stage works on has exactly the modules and the edges
\* that the files and their imports ask for, or an import error was reported.
GraphFaithful == Current => Faithful

\* The leaf tables that later stages use are those of the current graph.
Named == Current /\ stage # "resolve"

\* Once the names are resolved, what a leaf stands for is what the graph says
\* its import means: build_import_leaf_table, which works the targets out by
\* rules of its own, binds a leaf once and to a module the importer has an edge
\* to.  And unless an import error was reported in this pass every leaf of
\* every `import` is bound to what the import means, selected names each on
\* their own, but for two kinds of import that are passed over: one with
\* leading segments of a file that declares another module path, and one of a
\* module path that an earlier import of the file has.
LeavesAgree ==
    Named => \A i \in Ids :
        /\ LeavesFollow(i)
        /\ (\A d \in raised : ~(d.class = "import" /\ d.pass = pass)) =>
              \A k \in 1 .. Len(pkg.imports[mods[i].file]) :
                  \/ pkg.imports[mods[i].file][k].form = "derive"
                  \/ Skipped(i, k) \/ Repeated(i, k) \/ Stands(i, k)

\* What build_import_leaf_table says of an import it skips for lack of a target:
\* "the error was emitted there", when the source graph was built.
SkippedWereReported ==
    Named => \A i \in Ids : \A k \in 1 .. Len(pkg.imports[mods[i].file]) :
        pkg.imports[mods[i].file][k].form = "derive" \/ k \in Targeted(i) \/ ~Silent("import")

\* No diagnostic disappears: all that was ever pushed is in the outcome, but
\* for what the first typecheck said of a package that is checked again.
NoErrorLost ==
    \A d \in raised : (d.pass = 2 \/ d.by # "check" \/ pass = 1) =>
        \E k \in 1 .. Len(diags) : diags[k] = d

\* No class that rejects a program was demoted in the manifest.
Strict == {"parse", "import", "cycle", "type"} \subseteq pkg.errors

\* What `check` accepts: the typed package is of the last graph, which holds
\* every generated file and no module with an error, has no cycle, and misses
\* nothing that was demanded or that a generated file demands in turn.
Accepted ==
    /\ typed = pass
    /\ cycles = {}
    /\ Faithful
    /\ \A class \in {"parse", "import", "type"} : ~Faulty(class)
    /\ \A k \in 1 .. Len(paths) : by_file_path(paths[k]) # {}
    /\ \A k \in 1 .. Len(pkg.entries) : by_file_path(pkg.entries[k]) # {}
    /\ pkg.stop >= Codegen =>
          /\ roots \subseteq visited
          /\ \A s \in visited : pkg.nested[s] \subseteq visited /\ Staged(pkg.art[s])

\* A build that exits with Success has checked all it generated, and linked it
\* when asked to; and nothing is linked by a build that then fails.
SuccessMeansBuilt ==
    Strict =>
        /\ exit = "Success" /\ pkg.stop >= Typecheck => Accepted
        /\ exit = "Success" /\ pkg.stop >= Link => linked
        /\ linked => exit # "BuildError" /\ Accepted

\* Every build comes to an end.
BuildEnds == <>(stage = "finished")

=============================================================================
