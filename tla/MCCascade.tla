------------------------------ MODULE MCCascade ------------------------------
(* Packages of three sources A B C, two generated files G H and a runner R.  *)
EXTENDS Cascade, TLC

CONSTANTS A, B, C, G, H, R, s, t

Source == {A, B, C}

Sibling(p) == [name |-> p, file |-> p, form |-> "sibling", leaves |-> <<p>>, selected |-> FALSE]

\* Every file is a module of its own name, importing what `files` says.
Plain(files, stop) ==
    [real |-> [p \in Paths |-> p], name |-> [p \in Paths |-> p],
     imports |-> [p \in Paths |->
        IF p \in Source THEN [k \in 1 .. Len(files[p]) |-> Sibling(files[p][k])] ELSE <<>>],
     last |-> [n \in Names |-> n],
     fault |-> [p \in Paths |-> {}], errors |-> {"parse", "import", "cycle", "type"},
     disk |-> Source, entries |-> <<A, B, C>>,
     demands |-> [p \in Paths |-> {}], nested |-> [x \in Specs |-> {}],
     home |-> [x \in Specs |-> C], art |-> [x \in Specs |-> IF x = s THEN G ELSE H],
     runner |-> R, stop |-> stop, properties |-> FALSE]

\* Every import graph with at most two imports a file, repeats included.
Short == UNION {[1 .. n -> Source] : n \in 0 .. 2}
Graphs == {Plain(files, ImportResolve) : files \in [Source -> Short]}

Chain == (A :> <<B, C>>) @@ (B :> <<C>>) @@ (C :> <<>>)

\* A demands s, whose body demands t, and t demands s again.
Base(stop) ==
    [Plain(Chain, stop) EXCEPT !.demands[A] = {s}, !.nested = (s :> {t}) @@ (t :> {s})]

Variants(b) ==
    {b,
     \* the file B is also reached as H, and declares the module H
     [b EXCEPT !.real[H] = B, !.imports[A][1].file = H, !.art[t] = G],
     [b EXCEPT !.name[B] = H, !.art[t] = G],
     \* with leading segments, such an import introduces no leaf
     [b EXCEPT !.name[B] = H, !.art[t] = G, !.imports[A][1].form = "dotted"],
     \* an alias takes another import's leaf, or the file's own; a derive
     [b EXCEPT !.imports[A][2].leaves = <<B>>],
     [b EXCEPT !.imports[A][2].leaves = <<A>>],
     [b EXCEPT !.imports[A][2].form = "derive"],
     \* selected names: of their own, the file's own, another import's, twice one
     [b EXCEPT !.imports[A][2].leaves = <<G, C>>, !.imports[A][2].selected = TRUE],
     [b EXCEPT !.imports[A][2].leaves = <<A, G>>, !.imports[A][2].selected = TRUE],
     [b EXCEPT !.imports[A][2].leaves = <<G, B>>, !.imports[A][2].selected = TRUE],
     [b EXCEPT !.imports[A][2].leaves = <<G, G>>, !.imports[A][2].selected = TRUE],
     \* B is imported a second time, under another name
     [b EXCEPT !.imports[A][2] = [Sibling(B) EXCEPT !.leaves = <<G>>]],
     \* two files claim the module B; one has no module path; one is missing
     [b EXCEPT !.name[C] = B],
     [b EXCEPT !.name[B] = NoName],
     [b EXCEPT !.disk = {A, C}],
     \* t is declared in no module; both specs have one artifact, already there
     [b EXCEPT !.home[t] = H],
     [b EXCEPT !.art[t] = G, !.disk = {A, B, C, G}],
     \* faults of a source and of generated files, a denied lint, a budget
     [b EXCEPT !.fault[B] = {"parse"}],
     [b EXCEPT !.fault[C] = {"import"}],
     [b EXCEPT !.fault[B] = {"type"}],
     [b EXCEPT !.fault[H] = {"type"}],
     [b EXCEPT !.fault[A] = {"lint"}, !.errors = Classes],
     [b EXCEPT !.fault[C] = {"lint", "pinned"}],
     \* a generated file that imports its importer; demoted error classes
     [b EXCEPT !.imports[A] = <<Sibling(H)>>, !.disk = {A, B, C, H},
               !.imports[H] = <<Sibling(A)>>],
     [b EXCEPT !.errors = {"parse", "cycle"}, !.disk = {A, C}, !.fault[C] = {"type"}]}

Builds ==
    UNION {Variants(Base(n)) : n \in {ImportResolve, Codegen, Link}}
    \cup {[b EXCEPT !.properties = TRUE] :
             b \in {Base(Link), [Base(Link) EXCEPT !.demands[A] = {}],
                    [Base(Link) EXCEPT !.fault[B] = {"type"}],
                    [Base(Link) EXCEPT !.fault[B] = {"parse"}]}}

MCPaths == {A, B, C, G, H, R}
MCSpecs == {s, t}
MCPackages == Graphs \cup Builds
=============================================================================
