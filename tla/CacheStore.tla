----------------------------- MODULE CacheStore -----------------------------
(***************************************************************************)
(* The codegen cache of a project (crates/edda-cache): artifact files at   *)
(* content-addressed paths and one manifest.toon that lists them.  A       *)
(* cascade stages its artifacts in a private directory and then commits:   *)
(* it renames every artifact to its final path, writes the merged manifest *)
(* to manifest.toon.new and renames that over manifest.toon.  A collector  *)
(* (Gc::run) deletes files first and rewrites the manifest afterwards.     *)
(*                                                                         *)
(* Every file system call of a commit is a step, so processes interleave   *)
(* between any two of them and may crash between any two of them.  A file  *)
(* of manifest text is an inode, named after the cascade that created it:  *)
(* a rename moves the name and a write goes to the inode that was opened.  *)
(***************************************************************************)
EXTENDS FiniteSets

CONSTANTS
    Artifacts,   \* the artifact hashes; a hash determines its final path
    Sharded,     \* the cache-tier artifacts, the others are repo-tier
    Builders,    \* the cascades of builds
    Collectors,  \* the cascades of garbage collections
    Stores,      \* the open Stores, each in a process of its own
    StoreOf,     \* the Store each cascade runs on
    None,        \* no artifact, no file
    Sequential,  \* is a Store opened only when the earlier ones are gone?
    Crashes,     \* may a process die between two steps?
    Faults,      \* may a file system call or the size check fail?
    SlowRename   \* does rename reject an existing destination?

Cascades == Builders \cup Collectors

ASSUME CacheAssumption ==
    /\ Builders \cap Collectors = {}
    /\ Sharded \subseteq Artifacts
    /\ StoreOf \in [Cascades -> Stores]
    /\ None \notin Artifacts \cup Cascades
    /\ {Sequential, Crashes, Faults, SlowRename} \subseteq BOOLEAN
    /\ SlowRename => Sequential

VARIABLES
    pc,         \* where each cascade is
    opened,     \* the Stores that were opened
    mem,        \* the in-memory manifest of each Store
    staged,     \* the artifacts in the staging directory of each cascade
    moved,      \* those a commit has renamed, or a collection has deleted
    target,     \* the manifest a commit is going to write
    at,         \* the artifact whose directory the commit has just created
    dead,       \* the artifacts a collection has still to delete
    shards,     \* the shard directories a collection has still to look at
    fd,         \* the inode a cascade has open as manifest.toon.new
    stagingDirs,\* the cascades whose staging directory exists
    files,      \* the artifacts at their final paths
    dirs,       \* the artifacts whose parent directory exists
    manifest,   \* the inode named manifest.toon
    newManifest,\* the inode named manifest.toon.new
    text,       \* what each inode holds
    marker      \* does .gc-in-progress exist?

cascadeVars == <<pc, staged, moved, target, at, fd, dead, shards>>
storeVars   == <<opened, mem>>
diskVars    == <<stagingDirs, files, dirs, manifest, newManifest, text, marker>>
vars == <<cascadeVars, storeVars, diskVars>>

\* The text of a manifest: truncated to nothing, the entries of one whole
\* serialisation, or bytes of two of them.
Empty    == [kind |-> "empty", entries |-> {}]
Torn     == [kind |-> "torn", entries |-> {}]
Whole(S) == [kind |-> "whole", entries |-> S]
Texts    == {Empty, Torn} \cup {Whole(S) : S \in SUBSET Artifacts}

Committing == {"install", "create", "write", "swap", "publish"}
Collecting == {"delete"}
Running    == {"staging"} \cup Committing \cup Collecting
Ended      == {"done", "aborted", "failed", "crashed"}

\* The values of the variables; a commit moves only what it staged and a
\* collection only what it declared dead, a write has a file open, the two
\* names never share an inode, and a sharded file has its directory.
TypeOK ==
    /\ pc \in [Cascades -> {"idle"} \cup Running \cup Ended]
    /\ opened \subseteq Stores
    /\ mem \in [Stores -> SUBSET Artifacts]
    /\ staged \in [Cascades -> SUBSET Artifacts]
    /\ moved \in [Cascades -> SUBSET Artifacts]
    /\ target \in [Cascades -> SUBSET Artifacts]
    /\ at \in [Cascades -> Artifacts \cup {None}]
    /\ fd \in [Cascades -> Cascades \cup {None}]
    /\ dead \in [Cascades -> SUBSET Artifacts]
    /\ shards \in [Cascades -> SUBSET Artifacts]
    /\ stagingDirs \subseteq Cascades
    /\ files \subseteq Artifacts
    /\ dirs \subseteq Artifacts
    /\ manifest \in Cascades \cup {None}
    /\ newManifest \in Cascades \cup {None}
    /\ text \in [Cascades -> Texts]
    /\ marker \in BOOLEAN
    /\ \A c \in Cascades : moved[c] \subseteq staged[c] \cup dead[c]
    /\ \A c \in Cascades : pc[c] = "write" => fd[c] # None
    /\ manifest # None => manifest # newManifest
    /\ Sharded \cap files \subseteq dirs

Init ==
    /\ pc = [c \in Cascades |-> "idle"]
    /\ opened = {}
    /\ mem = [s \in Stores |-> {}]
    /\ staged = [c \in Cascades |-> {}]
    /\ moved = [c \in Cascades |-> {}]
    /\ target = [c \in Cascades |-> {}]
    /\ at = [c \in Cascades |-> None]
    /\ fd = [c \in Cascades |-> None]
    /\ dead = [c \in Cascades |-> {}]
    /\ shards = [c \in Cascades |-> {}]
    /\ stagingDirs = {}
    /\ files = {}
    /\ dirs = {}
    /\ manifest = None
    /\ newManifest = None
    /\ text = [c \in Cascades |-> Empty]
    /\ marker = FALSE

Goto(c, l) == pc' = [pc EXCEPT ![c] = l]

\* What Manifest::parse makes of manifest.toon: no file is an empty
\* manifest, anything but a whole text is an error.
Readable == manifest # None => text[manifest].kind = "whole"
Listed   == IF manifest # None THEN text[manifest].entries ELSE {}

-----------------------------------------------------------------------------
(* Building: Store::open, begin_cascade and CodegenSession::stage.         *)

Gone(s) == \A c \in Cascades : StoreOf[c] = s => pc[c] \in Ended

\* Store::open reads the manifest; an unreadable one ends every cascade of
\* the Store before it begins.
Open(s) ==
    /\ s \notin opened
    /\ Sequential => \A r \in opened : Gone(r)
    /\ opened' = opened \cup {s}
    /\ mem' = [mem EXCEPT ![s] = Listed]
    /\ pc' = [c \in Cascades |->
                IF StoreOf[c] = s /\ ~Readable THEN "failed" ELSE pc[c]]
    /\ UNCHANGED <<staged, moved, target, at, fd, dead, shards, diskVars>>

\* Store::begin_cascade creates a staging directory of its own.
Begin(c) ==
    /\ pc[c] = "idle" /\ c \in Builders /\ StoreOf[c] \in opened
    /\ Goto(c, "staging")
    /\ stagingDirs' = stagingDirs \cup {c}
    /\ UNCHANGED <<staged, moved, target, at, fd, dead, shards, storeVars, files, dirs,
                   manifest, newManifest, text, marker>>

\* CodegenSession::stage writes one artifact into the staging directory; a
\* hash that is staged already is returned as it is.
Stage(c, h) ==
    /\ pc[c] = "staging" /\ h \notin staged[c]
    /\ staged' = [staged EXCEPT ![c] = @ \cup {h}]
    /\ UNCHANGED <<pc, moved, target, at, fd, dead, shards, storeVars, diskVars>>

\* StagingHandle::abort, and its drop without a commit.
Abort(c) ==
    /\ pc[c] = "staging"
    /\ Goto(c, "aborted")
    /\ stagingDirs' = stagingDirs \ {c}
    /\ UNCHANGED <<staged, moved, target, at, fd, dead, shards, storeVars, files, dirs,
                   manifest, newManifest, text, marker>>

\* Mutant of CommitStart: only the cache-tier entries are merged.
CommitStartOneTier(c) ==
    /\ pc[c] = "staging"
    /\ target' = [target EXCEPT ![c] = mem[StoreOf[c]] \cup (staged[c] \cap Sharded)]
    /\ Goto(c, "install")
    /\ UNCHANGED <<staged, moved, at, fd, dead, shards, storeVars, diskVars>>

\* Mutant of CommitStart: the prior entries are not merged.
CommitStartUnmerged(c) ==
    /\ pc[c] = "staging"
    /\ target' = [target EXCEPT ![c] = staged[c]]
    /\ Goto(c, "install")
    /\ UNCHANGED <<staged, moved, at, fd, dead, shards, storeVars, diskVars>>

\* CodegenSession::commit merges the staged entries into the Store's
\* in-memory manifest.
CommitStart(c) ==
    /\ pc[c] = "staging"
    /\ target' = [target EXCEPT ![c] = mem[StoreOf[c]] \cup staged[c]]
    /\ Goto(c, "install")
    /\ UNCHANGED <<staged, moved, at, fd, dead, shards, storeVars, diskVars>>

-----------------------------------------------------------------------------
(* StagingHandle::commit, one step per file system call.                   *)

\* create_dir_all of the parent of the next artifact.
MakeDir(c, h) ==
    /\ pc[c] = "install" /\ at[c] = None /\ h \in staged[c] \ moved[c]
    /\ dirs' = dirs \cup {h}
    /\ at' = [at EXCEPT ![c] = h]
    /\ UNCHANGED <<pc, staged, moved, target, fd, dead, shards, storeVars, stagingDirs,
                   files, manifest, newManifest, text, marker>>

\* The error path of atomic_rename: remove the destination, then retry.
ClearArtifact(c) ==
    /\ SlowRename
    /\ pc[c] = "install" /\ at[c] \in files
    /\ files' = files \ {at[c]}
    /\ UNCHANGED <<cascadeVars, storeVars, stagingDirs, dirs, manifest,
                   newManifest, text, marker>>

\* The rename of one artifact; it needs the directory to be still there.
Install(c) ==
    /\ pc[c] = "install" /\ at[c] \in dirs
    /\ SlowRename => at[c] \notin files
    /\ files' = files \cup {at[c]}
    /\ moved' = [moved EXCEPT ![c] = @ \cup {at[c]}]
    /\ at' = [at EXCEPT ![c] = None]
    /\ UNCHANGED <<pc, staged, target, fd, dead, shards, storeVars, stagingDirs, dirs,
                   manifest, newManifest, text, marker>>

\* Mutant of InstallEnd: the manifest goes out before the last artifacts.
InstallEndEarly(c) ==
    /\ pc[c] = "install" /\ at[c] = None
    /\ Goto(c, "create")
    /\ UNCHANGED <<staged, moved, target, at, fd, dead, shards, storeVars,
                   diskVars>>

\* The loop over the pending artifacts is over.
InstallEnd(c) ==
    /\ pc[c] = "install" /\ at[c] = None /\ moved[c] = staged[c]
    /\ Goto(c, "create")
    /\ UNCHANGED <<staged, moved, target, at, fd, dead, shards, storeVars, diskVars>>

\* Mutant of CreateNew: manifest.toon itself is opened and truncated.
CreateInPlace(c) ==
    /\ pc[c] = "create"
    /\ LET ino == IF manifest = None THEN c ELSE manifest
       IN  /\ manifest' = ino
           /\ fd' = [fd EXCEPT ![c] = ino]
           /\ text' = [text EXCEPT ![ino] = Empty]
    /\ Goto(c, "write")
    /\ UNCHANGED <<staged, moved, target, at, dead, shards, storeVars,
                   stagingDirs, files, dirs, newManifest, marker>>

\* fs::write opens manifest.toon.new, creating or truncating it.
CreateNew(c) ==
    /\ pc[c] = "create"
    /\ LET ino == IF newManifest = None THEN c ELSE newManifest
       IN  /\ newManifest' = ino
           /\ fd' = [fd EXCEPT ![c] = ino]
           /\ text' = [text EXCEPT ![ino] = Empty]
    /\ Goto(c, "write")
    /\ UNCHANGED <<staged, moved, target, at, dead, shards, storeVars, stagingDirs, files,
                   dirs, manifest, marker>>

\* fs::write writes from offset 0 of the inode it opened.  When another
\* cascade has written there since, a longer old text shows behind the new
\* one.
WriteNew(c) ==
    /\ pc[c] = "write"
    /\ \E after \in {Whole(target[c]), Torn} :
          /\ after = Torn => text[fd[c]] # Empty
          /\ text' = [text EXCEPT ![fd[c]] = after]
    /\ Goto(c, "swap")
    /\ UNCHANGED <<staged, moved, target, at, fd, dead, shards, storeVars, stagingDirs,
                   files, dirs, manifest, newManifest, marker>>

ClearManifest(c) ==
    /\ SlowRename
    /\ pc[c] = "swap" /\ manifest # None
    /\ manifest' = None
    /\ UNCHANGED <<cascadeVars, storeVars, stagingDirs, files, dirs,
                   newManifest, text, marker>>

\* Mutant of Swap: a hard link instead of a rename, .new keeps the inode.
SwapLink(c) ==
    /\ pc[c] = "swap" /\ newManifest # None
    /\ SlowRename => manifest = None
    /\ manifest' = newManifest
    /\ Goto(c, "publish")
    /\ UNCHANGED <<staged, moved, target, at, fd, dead, shards, storeVars,
                   stagingDirs, files, dirs, newManifest, text, marker>>

\* The rename of manifest.toon.new over manifest.toon.
Swap(c) ==
    /\ pc[c] = "swap" /\ newManifest # None
    /\ SlowRename => manifest = None
    /\ manifest' = newManifest
    /\ newManifest' = None
    /\ Goto(c, "publish")
    /\ UNCHANGED <<staged, moved, target, at, fd, dead, shards, storeVars, stagingDirs,
                   files, dirs, text, marker>>

\* Replace the in-memory manifest and remove the staging directory.
Publish(c) ==
    /\ pc[c] = "publish"
    /\ mem' = [mem EXCEPT ![StoreOf[c]] = target[c]]
    /\ stagingDirs' = stagingDirs \ {c}
    /\ Goto(c, "done")
    /\ UNCHANGED <<staged, moved, target, at, fd, dead, shards, opened, files, dirs,
                   manifest, newManifest, text, marker>>

\* A call of the commit fails: the rename of an artifact whose directory is
\* gone, the rename of a manifest.toon.new that is gone, or, with Faults,
\* any call.  The handle is dropped, which removes the staging directory.
CommitFails(c) ==
    /\ \/ pc[c] = "install" /\ at[c] # None /\ at[c] \notin dirs
       \/ pc[c] = "swap" /\ newManifest = None
       \/ Faults /\ pc[c] \in Committing \ {"publish"}
    /\ Goto(c, "failed")
    /\ stagingDirs' = stagingDirs \ {c}
    /\ UNCHANGED <<staged, moved, target, at, fd, dead, shards, storeVars, files, dirs,
                   manifest, newManifest, text, marker>>

-----------------------------------------------------------------------------
(* Gc::run, and the manifest update its caller owes.                       *)

InTier(t) == IF t = "Cache" THEN Sharded ELSE Artifacts \ Sharded

\* The caller says what is unreachable; the marker file is written.  Only a
\* collection of the cache tier has shards to look at.
GcMark(c, t, garbage) ==
    /\ pc[c] = "idle" /\ c \in Collectors /\ StoreOf[c] \in opened
    /\ garbage \subseteq mem[StoreOf[c]] \cap InTier(t)
    /\ marker' = TRUE
    /\ dead' = [dead EXCEPT ![c] = garbage]
    /\ shards' = [shards EXCEPT ![c] = IF t = "Cache" THEN Sharded ELSE {}]
    /\ target' = [target EXCEPT ![c] = mem[StoreOf[c]] \ garbage]
    /\ Goto(c, "delete")
    /\ UNCHANGED <<staged, moved, at, fd, storeVars, stagingDirs, files, dirs,
                   manifest, newManifest, text>>

\* remove_file of one dead artifact; a file that is not there is skipped.
GcDelete(c, h) ==
    /\ pc[c] = "delete" /\ h \in dead[c] \ moved[c]
    /\ files' = files \ {h}
    /\ moved' = [moved EXCEPT ![c] = @ \cup {h}]
    /\ UNCHANGED <<pc, staged, target, at, fd, dead, shards, storeVars,
                   stagingDirs, dirs, manifest, newManifest, text, marker>>

\* One turn of the loop of remove_empty_shards, after the last deletion: the
\* shard is removed if it is empty.
GcPrune(c, h) ==
    /\ pc[c] = "delete" /\ moved[c] = dead[c] /\ h \in shards[c]
    /\ shards' = [shards EXCEPT ![c] = @ \ {h}]
    /\ dirs' = IF h \in files THEN dirs ELSE dirs \ {h}
    /\ UNCHANGED <<pc, staged, moved, target, at, fd, dead, storeVars,
                   stagingDirs, files, manifest, newManifest, text, marker>>

\* Mutant of GcUnmark: the caller takes the collection for finished.
GcUnmarkOnly(c) ==
    /\ pc[c] = "delete" /\ moved[c] = dead[c] /\ shards[c] = {}
    /\ marker' = FALSE
    /\ Goto(c, "done")
    /\ UNCHANGED <<staged, moved, target, at, fd, dead, shards, storeVars, stagingDirs,
                   files, dirs, manifest, newManifest, text>>

\* The marker is removed and run returns.  What follows is a contract, not
\* code: run "is expected to" be followed by a manifest update through the
\* staging flow, and nothing in the repository calls run yet.  The caller
\* modelled here keeps it: it commits the shorter manifest through a cascade
\* that stages nothing.
GcUnmark(c) ==
    /\ pc[c] = "delete" /\ moved[c] = dead[c] /\ shards[c] = {}
    /\ marker' = FALSE
    /\ stagingDirs' = stagingDirs \cup {c}
    /\ Goto(c, "create")
    /\ UNCHANGED <<staged, moved, target, at, fd, dead, shards, storeVars, files,
                   dirs, manifest, newManifest, text>>

\* A call of Gc::run fails: it returns at once and leaves the marker.
GcFails(c) ==
    /\ Faults /\ pc[c] \in Collecting
    /\ Goto(c, "failed")
    /\ UNCHANGED <<staged, moved, target, at, fd, dead, shards, storeVars,
                   diskVars>>

-----------------------------------------------------------------------------
\* The process of a Store dies: its cascades stop where they are.
Crash(s) ==
    /\ Crashes
    /\ \E c \in Cascades : StoreOf[c] = s /\ pc[c] \in Running
    /\ pc' = [c \in Cascades |->
                IF StoreOf[c] = s /\ pc[c] \notin Ended THEN "crashed"
                                                        ELSE pc[c]]
    /\ UNCHANGED <<staged, moved, target, at, fd, dead, shards, storeVars, diskVars>>

Commit(c) ==
    \/ CommitStart(c)
    \/ \E h \in Artifacts : MakeDir(c, h)
    \/ ClearArtifact(c) \/ Install(c) \/ InstallEnd(c)
    \/ CreateNew(c) \/ WriteNew(c) \/ ClearManifest(c) \/ Swap(c)
    \/ Publish(c) \/ CommitFails(c)

Collect(c) ==
    \/ \E t \in {"Repo", "Cache"}, garbage \in SUBSET Artifacts :
          GcMark(c, t, garbage)
    \/ \E h \in Artifacts : GcDelete(c, h)
    \/ \E h \in Artifacts : GcPrune(c, h)
    \/ GcUnmark(c) \/ GcFails(c)

Next ==
    \/ \E s \in Stores : Open(s) \/ Crash(s)
    \/ \E c \in Cascades :
          \/ Begin(c) \/ Abort(c) \/ Commit(c) \/ Collect(c)
          \/ \E h \in Artifacts : Stage(c, h)

Spec == Init /\ [][Next]_vars
-----------------------------------------------------------------------------
(* Properties.                                                             *)

Dead == UNION {dead[d] : d \in Collectors}

\* What the manifest lists is there to be read, unless a collection declared
\* it dead: an artifact is renamed to its final path before a manifest with
\* its entry can reach the disk or a Store's memory, wherever another
\* cascade, a failure or a crash comes in between.  Store::read then never
\* finds an entry without a file.
ManifestSound ==
    /\ Listed \subseteq files \cup Dead
    /\ \A s \in opened : mem[s] \subseteq files \cup Dead

\* manifest.toon is absent or holds one whole serialisation, so the next
\* Store::open succeeds.
ManifestReadable == Readable

\* An entry without a file is the trace of an unfinished command, also where a
\* rename first removes its destination: a commit stopped while it was
\* replacing that artifact, or a collection that has deleted the file and has
\* not committed its manifest.  A command that succeeds leaves none behind.
LossHasCause ==
    \A h \in Listed \ files :
        \/ \E c \in Builders : at[c] = h /\ pc[c] \in {"install", "failed", "crashed"}
        \/ \E c \in Collectors : h \in moved[c] /\ pc[c] # "done"

\* Once CodegenSession::commit has returned Ok, its artifacts stay listed
\* and installed until a collection declares them dead: no later manifest
\* that can be read has lost them.
SuccessIsDurable ==
    \A c \in Builders : pc[c] = "done" /\ Readable =>
        staged[c] \subseteq (Listed \cap files) \cup Dead

\* How far a cascade is for the readers of the catalog: the rename of the
\* manifest ends it.
Progress ==
    [c \in Cascades |->
        CASE pc[c] \in {"idle", "staging"} -> "open"
          [] pc[c] \in Committing \ {"publish"} -> "committing"
          [] OTHER -> "ended"]

Catalog == INSTANCE ArtifactCatalog
    WITH installed <- files, listed <- Listed, cascade <- staged, progress <- Progress

\* Builds that follow one another, whatever crashes and failures end them,
\* are a catalog that gains the entries of a whole cascade, all of them
\* together and only when all its files are installed, or none of them, and
\* that never loses an entry.
ImplementsCatalog == Catalog!Spec
=============================================================================
