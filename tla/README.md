# Verification of edda-bootstrap

edda-bootstrap is the Rust compiler and tool chain of the Edda language:
some thirty crates under `crates/`. This directory holds TLA+ models of the
parts of it whose correctness depends on order and interleaving, the TLC
configurations that check them on small instances, and TLAPS proofs of the
main results for instances of every size.

## 1. Inventory

| Part | State it keeps | Operations | What is hard |
|---|---|---|---|
| Task runtime (`edda-rt/src/task.rs`) | a queue of jobs, a mutex around its receiver, per task a state, a result pointer and a cancelled flag, per group a list of children | spawn, await, cancel, cancel_and_await, detach, group open/join; `worker_loop`, `complete` | threads, condition variables, nested blocking calls, races for one result |
| Codegen cache (`edda-cache/src/store`, `edda-codegen/src/cascade.rs`) | artifact files, `manifest.toon`, the manifest in each Store's memory, staging directories | open, begin, stage, commit, abort, read | several processes, crashes and failing calls between file system calls |
| Cache collector (`edda-cache/src/gc.rs`) | a marker file, the entries it deletes | `Gc::run` | partial deletion, races with commits |
| Ownership checker (`edda-types/src/infer`) with the control flow of `edda-mir/src/lower` | a state per binding along the walk of a body | the transitions of each operand, joins of branches, loops, handlers, exit check | the walk is linear, the execution is not: branches, loops, jumps, skipped operands |
| Daemon and language server (`edda-daemon`, `edda-lsp`) | open documents, versions, analyses | open, change, close, requests | stale analyses, order of notifications |
| Module graph and import leaves (`edda-resolve/src/graph`, `imports.rs`) | a queue of files, modules, pending imports, adjacency lists, a search stack, per module a table of leaves | load, register, link, sort, report cycles, bind leaves | aliases of one file, renamed modules, cycles met with several frames open, two computations of one target |
| Driver (`edda-driver/src/cascade`, `codegen`) | the diagnostics, the typed package, a worklist of specs, the generated paths | two passes of resolve and typecheck around codegen, compile, link | diagnostics cut by position, gates between the passes, termination, failing writes |
| Job queue (`comparisons/job-queue/rust`) | jobs, namespaces, workers in memory and in a snapshot file, a clock | enqueue, acquire, heartbeat, complete, fail, cancel, promote, registrations, queries, open | leases that expire, cascades over dependencies, failing saves, kills, a clock that starts again |
| Packages (`edda-manifest`, `edda-mimir-*`) | lockfile, registry, archives | resolve, publish | one step of several failing |
| MCP server (`edda-mcp`) | session phase | handshake, tool calls | order of messages |
| Comptime, refinement, syntax, remaining MIR, emission, linking, diagnostics, interner, hashing, command line | tables and trees | sequential passes | nothing interleaves |

How they interact: the command line and the daemon call the driver; the driver
walks parse, resolve, type check (with the ownership checker), comptime,
refinement and MIR, and hands specs to codegen, whose `CodegenSession` opens a
`Store`, stages what it generates and commits it. The MIR of a
`scope(exec)` block calls the task runtime through its C ABI
(`__edda_task_*`). The daemon is documented to share one `Store` among worker
threads; separate command line builds share the cache directory only.

What makes each modelled part correct:

* tasks: no job is lost or run twice; a result is delivered once, and to
  whoever awaits it; nobody sleeps through a completion; a scope is left
  only when its children are done; every blocking call returns;
* cache: a manifest never lists a file that is not there; the manifest can
  always be read back; what was committed stays; the entries of a cascade
  appear together or not at all;
* ownership: an accepted body never uses a field that has no value;
* module graph: the order lists every module once and imports after
  importers, cycles are reported exactly when there are any, and every edge
  and every leaf is what an import says;
* driver: nothing any stage reported is lost, Success means that the program
  with all its generated files was checked and linked, and builds end;
* job queue: a job is offered when and only when its dependencies completed,
  one worker at a time counts on it, what a client was told survives, and
  every job ends in one way.

The hazards behind these properties are listed, at their lines, in
`PROJECT.json` under `hazards`.

## 2. Modules

| Module | Models | Role |
|---|---|---|
| `TaskRuntime` | task runtime and the scopes MIR opens around it | component |
| `TaskCell` | one-shot result cells | abstract specification of results |
| `MCTaskRuntime` | | TLC instance |
| `TaskRuntimeProofs`, `TaskWaitProofs` | | theorems |
| `CacheStore` | store, commit, collector, crashes | component (store and collector on one disk) |
| `ArtifactCatalog` | what readers of the cache may rely on | abstract specification |
| `MCCacheStore` | | TLC instance |
| `CacheStoreProofs` | | theorems |
| `ModeCheck` | ownership checker, MIR control flow, execution of accepted bodies | component (checker and lowering composed) |
| `MCModeCheck` | | TLC instance |
| `ModeCheckProofs` | | theorems |
| `JobQueue` | the queue, its snapshot, its clock and its clients | component |
| `MCJobQueue` | | TLC instance |
| `JobQueueProofs` | | theorems |
| `SourceGraph` | `build_source_graph` | component |
| `ImportLeaves` | `build_import_leaf_table`, on a finished graph | component (extends SourceGraph) |
| `Cascade` | `cascade::run` and `drive_codegen` | component; composes the graph, the leaves and the stages |
| `MCCascade` | | TLC instance |
| `CascadeProofs`, `CascadeSortProofs`, `CascadeGraphProofs` | | theorems (types and diagnostics; the search; graph, leaves and driver) |

### TaskRuntime

An *actor* is a thread of generated code: the main thread, or a task body
running on a worker. One action is one critical section on a task's mutex.
`Spawn`, `Await`, `CancelAndAwait`, `Cancel`, `Detach`, `GroupOpen`,
`JoinStart` are the C-ABI entry points; a blocking entry point only records
in `todo` whom it waits for, and `wait_and_take` goes on in the steps
`WaitSleep` (the check that finds Pending and sleeps), `SpuriousWake` and
`Take`. A worker goes through `pc` = idle (`WorkerLock`), recv
(`WorkerRecv`, mutex held), check (`JobCheck`: the cancelled flag), body
(`BodyReturn`), complete (`Complete`: store under the mutex), notify
(`Notify`: `notify_all` after the unlock). `EarlyExit` is a `scope(exec)`
body that ends in `return`: `lower_exec_scope` emits no join then.

Constants name what generated programs do. `MovesHandles`: a task handle is
an ordinary value, so a spawn can hand one to a child. `EarlyExits`: scopes
are left by `return`. `Spawners` are the actors whose code opens scopes.
`UnitTasks` are the tasks whose body has type unit or never: their spawn shim
returns null, any other a heap buffer (`BodyResult`).

### CacheStore

Each file system call of `StagingHandle::commit` and `Gc::run` is an action;
`Crash` stops all cascades of a process between any two, `CommitFails` and
`GcFails` are a call that returns an error. A file of manifest text is an
inode named after the cascade that created it: `CreateNew` opens and
truncates whatever inode `manifest.toon.new` names at that moment, `WriteNew`
writes to the inode that was opened, `Swap` renames. So two commits can
write into one inode, and a text is empty, whole or torn. `SlowRename` is
`atomic_rename`'s second branch (a rename that rejects an existing
destination: remove it and retry), with a step between the two.
`Sequential` restricts the processes: a Store is opened when the earlier
ones are gone.

`Gc::run` goes through the shards of the cache one by one (`shards`,
`GcPrune`). It rewrites no manifest: it returns what it deleted and leaves the
manifest to its caller (`gc.rs`, lines 156 to 160). Nothing in the repository
calls it yet, so the commit of the manifest without those entries, with which a
collection ends here (`GcUnmark` and what follows it), is that contract and not
translated code. An artifact a collection has declared dead (`Dead`) may be
listed without a file until that commit.

`ArtifactCatalog` is about whole cascades: each gathers artifacts, is fixed when
its commit begins, installs its own artifacts, and then lists all of them in one
step (`Publish(c)`) or none ever (`GiveUp`).

### ModeCheck

The walk of `infer_stmt`/`synth_*` over a function body is one action per
construct: an operand or assignment (`Apply`, or `Reject` with an error),
`Return`, `if`/`match` (`OpenBranch`, `NextArm`, `CloseBranch`, `CloseIf`),
`handle` (`OpenHandle`, `Try` for a `?` in its body, `Recover`), `loop` and
`for` (`OpenLoop`, `Break`, `Continue`, `CloseLoop`), `&&`/`||` (`OpenAnd`,
`CloseAnd`), and the exit check (`Finish`). The body is not an input: the
walk chooses the next construct, so TLC explores every body within the
bounds. `at[p]` is the `TyEnv` at program point p, and along with the walk
each construct adds the edges that MIR lowering gives it. When the walk
reported nothing, the body is executed along those edges (`Run`), where
`live` holds the fields that have a value.

`flow` says how control leaves the block so far: it falls through, it
"exits" in the sense of `expr_always_exits` (return, raise, panic, and
branches of which every arm exits), it jumps (break, continue), which that
function deliberately does not count, or it "slips": it is taken for an exit and
falls through, as after a match all arms of which return although none need
match. A match is "partial" when its scrutinee is not of a sum type: the checker
asks for no exhaustiveness there, and lowering gives it an edge from its entry
to its join. A compound assignment (`update`) is an assignment to the checker,
and reads its target in MIR.

The walk overlooks five things, named by `Oversights`: jumps leave a loop body
in the middle ("jump"), a `?` leaves the body of a handler in the middle
("raise"), the right operand of `&&` may be skipped ("skip"), a partial match
may take no arm ("gap"), and a compound assignment reads ("update"). For each
one in `Avoids`, bodies are restricted: they have that construct only where what
the environment at the target of the overlooked edge claims holds anyway (for an
update, where the field is valid; and a partial match has an arm that does not
exit). Avoiding all five is the hypothesis under
which the checker is sound; section 5 says what happens without each.

### JobQueue

Every public call of `Queue` locks the state, ticks it, changes it and saves
it, so a call is one action: `Enqueue`, `Acquire`, `Heartbeat`, `Complete`,
`Fail`, `Cancel`, `Promote`, `RegisterWorker`, `DeregisterWorker`,
`RegisterNamespace`, and `Observe` for the queries that tick. What they do to
the state are operators of the same names as the code's helpers (`Tick`,
`CascadeCancel`, `DeadLetter`, ...) on a value of `State`: `mem` is the live
one, `disk` the snapshot. `Save(u, ok)` is `save`: a failing one leaves the
old or the new snapshot (the error may come after the rename) and memory
changed either way; after it, as after any call, `Reopen` may start a new
process from the snapshot, with the clock continued or begun again. `now` is
the queue's clock, `epoch` the instant at which it began. `told` is what
clients were told (ids, completions), `held` until when each worker counts on
a lease.

### SourceGraph, ImportLeaves and Cascade

What files contain is data. A package (`pkg`) is a record that says which
file a path really is, the module path of a file, what its imports resolve to
and which leaf they introduce, which classes of fault it has, what its files
and specs demand, which classes are errors, and the command. `Init` takes any
package of the constant `Packages`. On it, one action is one turn of a loop:
`Visit` for the queue of files, `LinkEdge` for `build_adjacency`, `SortRoot`,
`Examine` and `Retire` for the iterative search, `ReportCycle`; `Generate`
for the worklist. The stages of `cascade::run` follow as actions guarded by
`stage`: `Discover`, `Resolve` (the graph), `Resolved` (the leaf tables and
names), `Check`, `SkipCodegen`/`StartCodegen`, `Generate`, `Commit`,
`WriteRunner`, `Restart` (the splice and the second pass), `Lint`,
`CompileStage`, `LinkStage`, `finish`. Faults of the program are data, so that
both passes agree about them; what a disk or a linker answers is a free choice.
The order of the worklist and the arguments of specs are abstracted: `work` is
a set, and an element is a (spec, arguments) pair. `raised` and `roots` are
history variables: every diagnostic ever pushed, and what codegen was asked for.

The leaf tables are a function of the finished graph, so `ImportLeaves` has no
variable: `LeafTable(i)` is the table of module i. An import introduces a
sequence of leaves: its last segment or its alias, or one for each selected
name, which stands for an item inside the module and collides, or not, on its
own. Two kinds of import bind nothing and are named: `Skipped` (leading
segments, and the file declares another module path) and `Repeated` (an earlier
import has the same module path).

## 3. Runs

| Run | Shows |
|---|---|
| `task_safety` | handles stay with their spawner and scopes reach their end: `NoLostWakeup`, `AwaitReturnsResult`, `ScopeWaitsForChildren`, and every blocking call returns or the pool is starved (`CallsReturn`) |
| `task_sharing` | also with moved handles and early exits: `NoJobLost`, `OneJobPerTask`, and the runtime refines `TaskCell` |
| `task_early_exit` | violation: a scope left by `return` still has running children |
| `cache_concurrent` | two threads on one Store and a collector in another process, crashes and faults anywhere: `ManifestSound` |
| `cache_sequential` | three builds in a row, each may crash or fail: `SuccessIsDurable`, and the cache refines `ArtifactCatalog` |
| `cache_reopen` | the slow rename, faults, crashes and a collection: the manifest can always be read back, and an entry without a file (`LossHasCause`) is always the trace of a command that did not finish |
| `cache_lost_entries` | violation: of two overlapping commits, the later erases the entries of the earlier |
| `mode_sound` | bodies that keep clear of the five oversights: `NoDeadUse` |
| `mode_skip` | violation: `c && f(init x)`, then `take x`, is accepted |
| `job_queue` | a failing save, kills and restarts: `DependenciesCounted`, `ExclusiveHold`, `AckedIsDurable`, `JobsAccounted`, and in the snapshot an end is never undone (`EndsAreFinal`) |
| `driver_build` | every small import graph, and builds of sound and faulty packages: `OrderSound`, `GraphFaithful`, `LeavesAgree`, `NoErrorLost`, `SuccessMeansBuilt`, `BuildEnds` |
| `import_skipped` | violation: an import that binds no leaf, with no error |

Deadlock is checked of the job queue only: programs end, builds end, walks
end, and a task program in which every worker waits really stops.

Bounds. Two tasks, two groups and two workers are the smallest pool in which
a body spawns and joins a child of its own, two workers race for a job, and an
awaiter and a joiner race for a result; each task and group is used once.
Workers and groups are symmetric; `task_safety`, which checks liveness, has `InOrder`
in place of the symmetry: it keeps one behaviour of each class that differs only
in the names of groups and workers. Two artifacts, one of each tier, and three
cascades give every pair of concurrent commits plus a collection, and a
cascade of two artifacts that is interrupted in the middle. Six program
points and nesting of two hold bodies of five operations and constructs, such
as a take, a branch that re-initialises, and a use; two parameters (an `init`
one and a linear `take` one) with two fields each reach all four kinds of
state. The two fields are symmetric. The bodies of `mode_sound` have no `init`
arguments, reads or `mutable` ones: to the walk and at run time the first is an
assignment that fewer states admit, and the others ask for a valid target and
leave it so, as an update of one does; the proof covers them all.

Three jobs are a job with two dependencies, or a chain of two; one of them may
be scheduled and one needs a capability. Two symmetric workers, instants 0 and
1, one failing save, two attempts and a ring of one let a lease expire under
its holder, a retry run out, a ring overflow and a restart fall between any two
calls. Three source files with at most two imports each, repeated and
self-imports included, give all 2197 import graphs up to nested and overlapping
cycles; these stop after import resolution, as the daemon does. Twenty-five variants
of a package whose two specs demand each other (an aliased path, a renamed
module, colliding, missing and nameless files, taken leaves, selected names,
among them one taken and one selected twice, a module imported again under
another name, an undeclared spec, faults in sources and in generated files,
denied and demoted classes) are built with each kind of plan, and four packages
with `--properties`.

Fairness. `driver_build`: `WF` of the next step, since the driver is one thread
and each of its steps is a call that returns. `task_safety`: `WF` of
each worker's and each actor's next step: the operating system schedules every
thread that is not blocked, the mutexes are held for a few instructions, and a
body that may return does (`BodyReturn` is a worker step). Entry points (`Call`)
are not fair: a program need not call anything. `SpuriousWake` is not fair.
Bodies block in `wait_and_take` too, and a waiting body keeps its worker: once
all workers wait for queued children nothing moves (`Starved`). That is how the
pool is built, and no comment promises otherwise; `CallsReturn` says that it is
the only way in which a call does not return.

## 4. What is proved

All theorems hold for every value of the constants (any number of tasks,
groups, workers, artifacts, cascades, Stores, bindings, fields, points), from
the assumptions named in the modules.

* `TypeCorrect` (TaskRuntime). `TypeOK` is inductive as it stands: it includes
  that the receiver's mutex is held exactly in recv and that a worker has a
  job exactly while it works on one.
* `JobsAreNotLost`, `JobsAreNotDuplicated`. The inductive invariant `JobInv`
  adds that an unspawned task is referenced nowhere (`Fresh`), so a spawn
  cannot put a second copy into the queue, that a task without a completed
  job has no result, and that what was delivered is Taken.
* `CellRefinement`: under `JobInv` each step maps to a step of `TaskCell` or
  to none.
* `ScopesWait`, when scope bodies reach their end. `ChildInv` adds that open
  scopes are distinct and each belongs to one actor (`ScopeInv`), that a
  pending child is in its group's list or on the list of the actor joining
  the group (`ChildTracked`: the join drains the list before it waits), that a
  task nobody detached stays Pending until its job is finished (`Undone`),
  and that a scope that was left has an empty list.
* `WaitersAreWoken`, when handles are not moved. `OwnInv` adds that nobody but
  the waiting actor has the handle of a task somebody waits for, so no second
  consumer can turn it Taken between the store and the notification.
* `AwaitsReturn`, when handles are not moved. `ReturnInv` adds to `OwnInv` that
  a group's list holds children of that group only (`ChildGroup`), that a
  task somebody waits for has one waiter, no handle, and is on no list but the
  waiter's own (`WaitAlone`), and how state, result pointer and cancelled flag agree at
  every point of `worker_loop` (`ResultInv`). So an await returns what the body
  returned, and null otherwise only when the task was cancelled before it
  started. The assumption is needed: section 5 says what happens with a moved
  handle.
* `CacheTypeCorrect`. `TypeOK` needs `CascadeInv`: an inode has a name only
  after the cascade it is named after opened it; hence the two manifest names
  never share an inode.
* `CacheManifestSound`, where rename replaces its destination. `KeptInv` says
  of every manifest (on disk under either name, in memory, or about to be
  written) that it lists only files that are there or declared dead, or, for
  one about to be written, those its own cascade has still to install.
* `CacheReadable`, `CacheLossHasCause`, `CacheDurable`,
  `CacheImplementsCatalog`, when commands follow one another, each in a process
  of its own (`OneAtATime`); the last two also where rename replaces its
  destination, and the refinement where nothing is collected.
  `cache_lost_entries` is why the first assumption is there: of two overlapping
  commits one loses its entries. `AloneInv` says that at most one command
  is live, that its Store has the manifest on disk in memory up to its own
  rename and that it writes its target to a file nobody else has open (`Solo`),
  that builds do not collect and collections do not install (`KindInv`), and
  that what is missing has a cause. `DurableInv` adds that what was committed
  is there and listed on disk, or was declared dead. The refinement maps a
  cascade to what it has staged and its label to a `progress`; its core is that a
  cascade at its swap has installed everything it staged, so that the one rename
  lists all of the cascade. The first two theorems cover the slow
  rename: its window leaves no manifest, which opens as an empty one, but never
  a torn one.
* `ModeTypeCorrect`. Joins and field transitions never produce a
  `PartialInit` that names every field; a loop's head is a point of its own.
* `AcceptedBodiesAreSound`, for bodies that avoid the five oversights. `SoundInv`
  says that the environment at the end of an edge claims no more than its
  operation leaves of the one at its start (`EdgeSound`); that the join a
  construct has collected claims no more than any arm that falls through
  provides, and that jumps out of it leave where the environment at its entry
  holds (`FrameSound`); and that what is claimed at the point of execution is
  live. It rests on `ClearInv`: in such bodies what the walk takes for an exit
  never falls through, so that no join leaves out an arm that reaches it. The
  core of it are the lemmas `GlbFacts`, `PostFacts` and `FlowFacts`.
* `QueueTypes`, `QueueDependencies`, `QueueExclusive`, `QueueDurable`, when
  dead-letter rings have room for a job (`RingAssumption`). The inductive
  invariant `IInv` holds of memory and of the snapshot alike that each is good
  (`Good`: well formed, dependencies counted, rings hold dead jobs), so that a
  restart from either keeps it; that a worker's hold ends no later than its
  lease as the running clock reads it, and as any later process would; and that
  ids and completions clients were told of are in both. Each helper has a lemma
  that it keeps a state good, each call one that it keeps `IInv`.
* `QueueAccounts`. `Accounted`, of memory and of the snapshot, says for each
  namespace that the counters are the cardinalities of the sets they count
  and that a ring has no repetitions, without which its length would say
  nothing of the dead jobs it names. `CountMoves` is the lemma that a set of
  jobs moving between two states moves the two counters by its size.
* `QueueEndsAreFinal`. The invariant is `Ahead`: memory comes after the
  snapshot in the order `Final`. `Final` is reflexive and transitive, each
  operation takes memory to a later state, and a save, however it ends, leaves
  one of the two on disk.
* `CascadeTypes`, `CascadeNothingLost`, for any set of packages. `Inv1` adds to
  the types that every gray node is on the search's stack (`GrayOnStack`, the
  `expect` of `extract_cycle`), and that the remembered positions enclose only
  diagnostics of the first typecheck (`Marks`), which is what makes the splice
  lose nothing else.
* `CascadeOrder`. `SortInv` is the argument for the iterative search: the stack
  is a path of edges (`StackIsPath`) of gray nodes (`StackIsGray`), the
  order lists the black ones (`OrderIsBlack`), while no cycle was found what a
  frame has looked at is black or the frame above, and what a black node
  imports turned black before it (`LookedAt`), recorded cycles are cycles
  (`CyclesAreCycles`), and when the search is over no node is white
  (`SearchOver`).
* `CascadeFaithful`, `CascadeLeaves`. `GraphInv` says that modules
  have been read and share neither path nor file, that the pending edges are
  the modules' imports, that what an import asks for is queued or was looked at
  (`Reached`), that what was looked at is a module or was reported (`Told`), and
  that the adjacency lists hold exactly the edges linked so far
  (`LinkedRight`); and that a leaf introduced twice was reported
  (`LeavesTold`). It holds in both passes. `LeavesAgree` says of every leaf,
  selected names included, that it is bound to what its import means, except
  those of `Skipped` and `Repeated` imports: the former are passed over in silence
  (`import_skipped`), the latter with a lint.
* `CascadeSuccess`. `DriverInv` has a fact per stage: which passes have run and
  on which package (`PassesInv`), that unless codegen complained, what it has
  done and what is still in its worklist is closed under demands
  (`WorklistInv`), and, when no
  rejecting class is demoted (`Strict`), that a stage behind a gate is reached
  only without errors (`GatesInv`). It uses `CascadeNothingLost`: an error
  seen by the final gate is one no splice removed.

Only model-checked: `CallsReturn` and `BuildEnds`. Both are liveness under
fairness, which is out of the prover's reach. Every other property of a passing
run is a theorem.

## 5. What the checks found

* `lower_exec_scope` joins a group only if its body still has a current
  block, so `return` leaves the scope while children run (`task_early_exit`).
* A commit merges into the manifest its Store read at open or at its own last
  commit, and no lock spans the merge and the swap: overlapping commits lose
  entries (`cache_lost_entries`).
* `synth_logical` walks both operands of `&&` and `||` in sequence, so an `init`
  in the right one counts although it may be skipped (`mode_skip`).
* `canonical_path_of_import` gives no expected file for an import with leading
  segments other than `local`, while `build_adjacency` falls back to one. So when
  such an import names a file that declares another module path, the graph has
  the edge and nothing is reported, yet the leaf is not bound; the comments in
  `imports.rs` take the error to be reported already (`import_skipped`).

The models show more with other constants than those of the runs:

* With `MovesHandles`, `TaskSafety.cfg` has two counterexamples. The join of the
  spawner's scope takes a result before the sibling that was given the handle
  awaits it, and the await of a body that ran returns null. And a `detach` by
  the sibling turns the task Taken under a sleeping join, which neither it nor
  `complete` then wakes.
* With `ManifestReadable` in `CacheLostEntries.cfg`: all commits write to
  `manifest.toon.new`, and one that truncates it between the write and the
  rename of another makes that rename install an unreadable manifest.
* Each of the other four oversights of the walk, left out of `Avoids`, gives an
  accepted body that uses a field without a value: `loop { take x.f; if c {
  continue }; init x.f }`, since `check_loop_reentry` compares only the end of
  the body with its start; `handle { take x.f; g()? }` with a recovery that takes
  x.f, since the recovery is walked from the environment before the body (both
  need seven points and a `take` parameter that is not linear); a partial match
  that initialises x in every arm, then `take x`; and `x.f += e` on an x that was
  never written.

Observed while modelling and not turned into runs: a commit that fails after
some renames leaves installed files that no manifest lists; the
collector removes its marker before the manifest is rewritten, so a crash
there cannot be told from a finished collection; the slow rename can lose an
artifact when its retry fails. In the checker: an early `return` bypasses the
exit check of `init` parameters, and `Consumed` is accepted for one at the
end; a linear parameter consumed on one branch only is not reported; taking
the last field of a `take` parameter makes it Uninit, which the exit check
rejects although its comment says there is no such transition; an explicit
`raise` in a `handle` body is lowered to leave the function although the
checker discharges its effect.

In the job queue: with `dead_letter_capacity` 0 the dead job is removed before
`fail` reads its dependents, so they wait for ever although the queue's README
(`comparisons/job-queue/rust/README.md`, lines 57 to 60) has dead letters
cascade; `RingAssumption` excludes it. `SystemClock` counts from the start of
its process, so after a restart persisted leases and schedules last longer than
asked, which is why `ExclusiveHold` still holds. A failed save leaves memory
ahead of the snapshot, and the caller cannot tell. A lease that runs out
leaves no audit event.

In the resolver and the driver: a second import of a module path is dropped with
its alias or its selected names (`Repeated`) and a lint, although the comment at
`imports.rs` line 126 takes its leaf to be bound. `[lints]` accepts `warn` for
the classes that reject a program, so a manifest can demote them, and such a
build links what it rejected; `Strict` excludes it. When there is a second pass,
resolve and parse diagnostics of the first are reported twice. A property
runner that cannot be written is dropped silently. A failed dump of the MIR
fails the build after its object is written. `visited_keys` bounds only spec
closures that are finite. In the daemon, read and not modelled: after
`close_document` queries answer from the syntax tree of the time the project
was opened, closing a project drops every session's overlays, and document
versions are stored but never compared.

## 6. What is left out

* Tasks: the executor's thread count and its environment variable, the
  contents of argument buffers, poisoned mutexes, failure to start a thread.
* Cache: entry metadata, the size check's arithmetic, schedules, dry runs,
  the unused global registry. Renames and single writes are atomic; nothing
  is lost on power failure.
* Ownership: locals of inner blocks and the leak sweep of linear locals,
  tuple elements, nested projections, closures and spawn captures, guards of
  match arms that operate on a parameter, dead code after a jump, and the walk
  after its first error.
* Job queue: payloads, reasons and error kinds, the audit log, the counters no
  property reads, priorities' validation, saturation of `u64` arithmetic.
* Driver: the text of imports and how it becomes a path, names inside bodies,
  the contents of artifacts (the cache they are committed to is `CacheStore`),
  the summary's counters, `fmt` and `clean`.
* Not modelled: everything listed `not_modelled` in `PROJECT.json`. By size
  that is most of the repository: the parser, type inference, refinement, MIR
  and emission are long sequential passes over trees, whose models would be
  transliterations, and whose tests reach what TLC would.

## 7. Plan

1. Locals, operations in match guards and captures in `ModeCheck`; the state of `init`
   parameters at an early return.
2. The daemon's projects and overlays on top of `Cascade`; packages and the
   lockfile; how import texts become paths, as operators.
3. Proofs: the refinement of `ArtifactCatalog` by commands that follow one
   another when collections are among them, with deletions in the catalog.
