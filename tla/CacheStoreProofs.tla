-------------------------- MODULE CacheStoreProofs --------------------------
(***************************************************************************)
(* Theorems about CacheStore, for any artifacts, cascades and Stores: its  *)
(* state is well-typed, and where rename replaces an existing destination  *)
(* no manifest lists an artifact that is not there.  For commands that     *)
(* follow one another: the manifest can be read, an entry without a file   *)
(* has a cause, what was committed stays, and the cache is a catalog.      *)
(***************************************************************************)
EXTENDS CacheStore, TLAPS

-----------------------------------------------------------------------------
(* Types.                                                                  *)

Written == {"write", "swap", "publish"} \cup Ended

\* What TypeOK needs to be inductive: a cascade that has not begun has
\* nothing, the artifact being installed is one of its own, and an inode has
\* a name only after the cascade it is named after has opened it.
CascadeInv ==
    /\ \A c \in Cascades : pc[c] = "idle" =>
          staged[c] = {} /\ moved[c] = {} /\ dead[c] = {}
    /\ \A c \in Cascades : at[c] # None => at[c] \in staged[c]
    /\ \A c \in Cascades : manifest = c \/ newManifest = c => pc[c] \in Written

TypeInv == TypeOK /\ CascadeInv

\* The texts a manifest can hold, and what they list.
LEMMA TextTypes ==
    /\ Empty \in Texts /\ Torn \in Texts
    /\ \A S \in SUBSET Artifacts : Whole(S) \in Texts
    /\ \A x \in Texts : x.entries \subseteq Artifacts
    /\ Empty.entries = {} /\ Torn.entries = {}
    /\ \A S : Whole(S).entries = S
<1>1. Empty \in Texts /\ Torn \in Texts
  BY DEF Texts
<1>2. \A S \in SUBSET Artifacts : Whole(S) \in Texts
  BY DEF Texts
<1>3. Empty.entries = {} /\ Torn.entries = {} /\ \A S : Whole(S).entries = S
  BY DEF Empty, Torn, Whole
<1>4. ASSUME NEW x \in Texts PROVE x.entries \subseteq Artifacts
  <2>1. x = Empty \/ x = Torn \/ \E S \in SUBSET Artifacts : x = Whole(S)
    BY DEF Texts
  <2> QED
    BY <1>3, <2>1
<1> QED
  BY <1>1, <1>2, <1>3, <1>4

Labels == {"idle"} \cup Running \cup Ended

\* The initial state is well typed.
LEMMA InitTypes == Init => TypeInv
<1> SUFFICES ASSUME Init PROVE TypeInv
  OBVIOUS
<1>1. CascadeInv
  BY CacheAssumption DEF Init, CascadeInv
<1>2. text \in [Cascades -> Texts]
  BY TextTypes DEF Init
<1>3. TypeOK
  BY <1>2 DEF Init, TypeOK
<1> QED
  BY <1>1, <1>3 DEF TypeInv

\* What the manifest lists are artifacts.
LEMMA ListedType == TypeOK => Listed \subseteq Artifacts
BY TextTypes DEF TypeOK, Listed

\* Moving one cascade to another label.
LEMMA GotoFacts ==
    ASSUME TypeOK, NEW c \in Cascades, NEW l \in Labels, Goto(c, l)
    PROVE  /\ pc' \in [Cascades -> Labels]
           /\ pc'[c] = l
           /\ \A d \in Cascades : d # c => pc'[d] = pc[d]
BY DEF Goto, TypeOK, Labels

\* Where the labels of a cascade belong.
LEMMA LabelFacts ==
    /\ {"staging", "install", "create", "delete", "failed", "done",
        "aborted", "crashed"} \cup Written \subseteq Labels
    /\ {"idle", "staging", "install", "create", "delete"}
          \cap Written = {}
    /\ {"failed", "done", "aborted", "crashed"} \subseteq Written
BY DEF Labels, Written, Running, Committing, Collecting, Ended

-----------------------------------------------------------------------------
(* Every step keeps the types.                                             *)

\* Opening the store keeps the types.
LEMMA OpenType ==
    ASSUME TypeInv, NEW s \in Stores, Open(s)
    PROVE  TypeInv'
<1>1. TypeOK /\ CascadeInv
  BY DEF TypeInv
<1>2. \A c \in Cascades : pc'[c] \in {pc[c], "failed"}
  BY DEF Open
<1>3. pc' \in [Cascades -> Labels]
  BY <1>1, <1>2, LabelFacts DEF Open, TypeOK, Labels
<1>4. mem' \in [Stores -> SUBSET Artifacts]
  BY <1>1, ListedType DEF Open, TypeOK
<1>5. TypeOK'
  BY <1>1, <1>2, <1>3, <1>4 DEF Open, TypeOK, Labels, diskVars
<1>6. CascadeInv'
  BY <1>1, <1>2, LabelFacts DEF Open, CascadeInv, diskVars
<1> QED
  BY <1>5, <1>6 DEF TypeInv

\* A crash keeps the types.
LEMMA CrashType ==
    ASSUME TypeInv, NEW s \in Stores, Crash(s)
    PROVE  TypeInv'
<1>1. TypeOK /\ CascadeInv
  BY DEF TypeInv
<1>2. \A c \in Cascades : pc'[c] \in {pc[c], "crashed"}
  BY DEF Crash
<1>3. pc' \in [Cascades -> Labels]
  BY <1>1, <1>2, LabelFacts DEF Crash, TypeOK, Labels
<1>5. TypeOK'
  BY <1>1, <1>2, <1>3 DEF Crash, TypeOK, Labels, storeVars, diskVars
<1>6. CascadeInv'
  BY <1>1, <1>2, LabelFacts DEF Crash, CascadeInv, diskVars
<1> QED
  BY <1>5, <1>6 DEF TypeInv

\* The steps of one cascade c to the label l, which leave the inodes alone.
LEMMA PlainType ==
    ASSUME TypeInv, NEW c \in Cascades, NEW l \in Labels, Goto(c, l),
           l # "idle", l # "write", pc[c] \in Written => l \in Written,
           UNCHANGED <<staged, moved, at, fd, opened, files, dirs, manifest,
                       newManifest, text>>,
           dead' = dead \/ (moved[c] = {} /\ \E S \in SUBSET Artifacts :
                              dead' = [dead EXCEPT ![c] = S]),
           target' \in [Cascades -> SUBSET Artifacts],
           mem' \in [Stores -> SUBSET Artifacts],
           shards' \in [Cascades -> SUBSET Artifacts],
           stagingDirs' \subseteq Cascades, marker' \in BOOLEAN
    PROVE  TypeInv'
<1>1. TypeOK /\ CascadeInv
  BY DEF TypeInv
<1>2. /\ pc' \in [Cascades -> Labels]
      /\ pc'[c] = l
      /\ \A d \in Cascades : d # c => pc'[d] = pc[d]
  BY <1>1, GotoFacts
<1>4. /\ dead' \in [Cascades -> SUBSET Artifacts]
      /\ \A d \in Cascades : d # c => dead'[d] = dead[d]
      /\ dead'[c] = dead[c] \/ moved[c] = {}
  BY <1>1 DEF TypeOK
<1>5. TypeOK'
  BY <1>1, <1>2, <1>4 DEF TypeOK, Labels
<1>6. CascadeInv'
  BY <1>1, <1>2, <1>4 DEF CascadeInv
<1> QED
  BY <1>5, <1>6 DEF TypeInv

\* The steps that begin, end or abandon a session keep the types.
LEMMA BuildType ==
    ASSUME TypeInv, NEW c \in Cascades,
           Begin(c) \/ Abort(c) \/ CommitStart(c) \/ InstallEnd(c)
             \/ Publish(c) \/ CommitFails(c)
    PROVE  TypeInv'
<1>0. TypeOK
  BY DEF TypeInv
<1> USE LabelFacts
<1>1. CASE Begin(c)
  BY <1>0, <1>1, PlainType DEF Begin, TypeOK, storeVars
<1>2. CASE Abort(c)
  BY <1>0, <1>2, PlainType DEF Abort, TypeOK, storeVars
<1>3. CASE CommitStart(c)
  <2>1. mem[StoreOf[c]] \subseteq Artifacts /\ staged[c] \subseteq Artifacts
    BY <1>0, CacheAssumption DEF TypeOK
  <2>2. target' \in [Cascades -> SUBSET Artifacts]
    BY <1>0, <1>3, <2>1 DEF CommitStart, TypeOK
  <2> QED
    BY <1>0, <1>3, <2>2, PlainType DEF CommitStart, TypeOK, storeVars, diskVars
<1>4. CASE InstallEnd(c)
  BY <1>0, <1>4, PlainType DEF InstallEnd, TypeOK, storeVars, diskVars
<1>5. CASE Publish(c)
  <2>1. mem' \in [Stores -> SUBSET Artifacts]
    BY <1>0, <1>5 DEF Publish, TypeOK
  <2>2. "done" \in Labels /\ "done" \in Written
    OBVIOUS
  <2> QED
    BY <1>0, <1>5, <2>1, <2>2, PlainType DEF Publish, TypeOK
<1>6. CASE CommitFails(c)
  <2>1. "failed" \in Labels /\ "failed" \in Written
    OBVIOUS
  <2> QED
    BY <1>0, <1>6, <2>1, PlainType DEF CommitFails, TypeOK, storeVars
<1> QED
  BY <1>1, <1>2, <1>3, <1>4, <1>5, <1>6

\* The steps that write artifact files keep the types.
LEMMA FileType ==
    ASSUME TypeInv, NEW c \in Cascades,
           \/ \E h \in Artifacts : Stage(c, h) \/ MakeDir(c, h)
           \/ ClearArtifact(c) \/ Install(c)
    PROVE  TypeInv'
<1>0. TypeOK /\ CascadeInv
  BY DEF TypeInv
<1>1. ASSUME NEW h \in Artifacts, Stage(c, h)
      PROVE  TypeInv'
  <2>1. /\ staged' \in [Cascades -> SUBSET Artifacts]
        /\ \A d \in Cascades : staged[d] \subseteq staged'[d]
        /\ \A d \in Cascades : d # c => staged'[d] = staged[d]
    BY <1>0, <1>1 DEF Stage, TypeOK
  <2>2. TypeOK'
    BY <1>0, <1>1, <2>1 DEF Stage, TypeOK, storeVars, diskVars
  <2>3. CascadeInv'
    BY <1>0, <1>1, <2>1 DEF Stage, CascadeInv, diskVars
  <2> QED
    BY <2>2, <2>3 DEF TypeInv
<1>2. ASSUME NEW h \in Artifacts, MakeDir(c, h)
      PROVE  TypeInv'
  <2>1. TypeOK'
    BY <1>0, <1>2 DEF MakeDir, TypeOK, storeVars
  <2>2. CascadeInv'
    BY <1>0, <1>2 DEF MakeDir, CascadeInv, TypeOK
  <2> QED
    BY <2>1, <2>2 DEF TypeInv
<1>3. ASSUME ClearArtifact(c)
      PROVE  TypeInv'
  <2>1. TypeOK'
    BY <1>0, <1>3 DEF ClearArtifact, TypeOK, cascadeVars, storeVars
  <2>2. CascadeInv'
    BY <1>0, <1>3 DEF ClearArtifact, CascadeInv, cascadeVars
  <2> QED
    BY <2>1, <2>2 DEF TypeInv
<1>4. ASSUME Install(c)
      PROVE  TypeInv'
  <2>1. at[c] \in Artifacts /\ at[c] \in staged[c] /\ at[c] \in dirs
    BY <1>0, <1>4, CacheAssumption DEF Install, TypeOK, CascadeInv
  <2>2. /\ moved' \in [Cascades -> SUBSET Artifacts]
        /\ moved'[c] = moved[c] \cup {at[c]}
        /\ \A d \in Cascades : d # c => moved'[d] = moved[d]
    BY <1>0, <1>4, <2>1 DEF Install, TypeOK
  <2>3. TypeOK'
    BY <1>0, <1>4, <2>1, <2>2 DEF Install, TypeOK, storeVars
  <2>4. CascadeInv'
    BY <1>0, <1>4, <2>2 DEF Install, CascadeInv, TypeOK
  <2> QED
    BY <2>3, <2>4 DEF TypeInv
<1> QED
  BY <1>1, <1>2, <1>3, <1>4

\* The steps that write the manifest keep the types.
LEMMA ManifestType ==
    ASSUME TypeInv, NEW c \in Cascades,
           CreateNew(c) \/ WriteNew(c) \/ ClearManifest(c) \/ Swap(c)
    PROVE  TypeInv'
<1>0. TypeOK /\ CascadeInv
  BY DEF TypeInv
<1> USE LabelFacts, CacheAssumption
<1>1. ASSUME CreateNew(c)
      PROVE  TypeInv'
  <2> DEFINE ino == IF newManifest = None THEN c ELSE newManifest
  <2>1. ino \in Cascades /\ ino # None
    BY <1>0 DEF TypeOK
  <2>2. manifest # ino
    BY <1>0, <1>1 DEF TypeOK, CascadeInv, CreateNew
  <2>3. /\ newManifest' = ino
        /\ fd' = [fd EXCEPT ![c] = ino]
        /\ text' = [text EXCEPT ![ino] = Empty]
    BY <1>1 DEF CreateNew
  <2> HIDE DEF ino
  <2>4. text' \in [Cascades -> Texts] /\ fd' \in [Cascades -> Cascades \cup {None}]
    BY <1>0, <2>1, <2>3, TextTypes DEF TypeOK
  <2>5. "write" \in Labels /\ "write" \in Written
    BY DEF Written
  <2>6. /\ pc' \in [Cascades -> Labels] /\ pc'[c] = "write"
        /\ \A d \in Cascades : d # c => pc'[d] = pc[d]
    BY <1>0, <1>1, <2>5, GotoFacts DEF CreateNew
  <2>7. \A d \in Cascades : pc'[d] = "write" => fd'[d] # None
    BY <1>0, <2>1, <2>3, <2>6 DEF TypeOK
  <2>8. TypeOK'
    BY <1>0, <1>1, <2>1, <2>2, <2>3, <2>4, <2>6, <2>7
       DEF CreateNew, TypeOK, Labels, storeVars
  <2>9. ino = c \/ pc[ino] \in Written
    BY <1>0, <2>1 DEF CascadeInv, ino
  <2>10. \A d \in Cascades : pc[d] \in Written => pc'[d] \in Written
    BY <2>5, <2>6
  <2>11. CascadeInv'
    <3>1. \A d \in Cascades : manifest' = d \/ newManifest' = d => pc'[d] \in Written
      BY <1>0, <1>1, <2>3, <2>5, <2>6, <2>9, <2>10 DEF CreateNew, CascadeInv
    <3> QED
      BY <1>0, <1>1, <2>6, <3>1 DEF CreateNew, CascadeInv
  <2> QED
    BY <2>8, <2>11 DEF TypeInv
<1>2. ASSUME WriteNew(c)
      PROVE  TypeInv'
  <2>1. fd[c] \in Cascades /\ target[c] \subseteq Artifacts
    BY <1>0, <1>2 DEF WriteNew, TypeOK
  <2>2. text' \in [Cascades -> Texts]
    BY <1>0, <1>2, <2>1, TextTypes DEF WriteNew, TypeOK
  <2>3. "swap" \in Labels /\ "swap" \in Written
    BY DEF Written
  <2>4. /\ pc' \in [Cascades -> Labels] /\ pc'[c] = "swap"
        /\ \A d \in Cascades : d # c => pc'[d] = pc[d]
    BY <1>0, <1>2, <2>3, GotoFacts DEF WriteNew
  <2>5. TypeOK'
    BY <1>0, <1>2, <2>2, <2>4 DEF WriteNew, TypeOK, Labels, storeVars
  <2>6. CascadeInv'
    BY <1>0, <1>2, <2>3, <2>4 DEF WriteNew, CascadeInv
  <2> QED
    BY <2>5, <2>6 DEF TypeInv
<1>3. ASSUME ClearManifest(c)
      PROVE  TypeInv'
  <2>1. TypeOK'
    BY <1>0, <1>3 DEF ClearManifest, TypeOK, cascadeVars, storeVars
  <2>2. CascadeInv'
    BY <1>0, <1>3 DEF ClearManifest, CascadeInv, cascadeVars
  <2> QED
    BY <2>1, <2>2 DEF TypeInv
<1>4. ASSUME Swap(c)
      PROVE  TypeInv'
  <2>1. "publish" \in Labels /\ "publish" \in Written
    BY DEF Written
  <2>2. /\ pc' \in [Cascades -> Labels] /\ pc'[c] = "publish"
        /\ \A d \in Cascades : d # c => pc'[d] = pc[d]
    BY <1>0, <1>4, <2>1, GotoFacts DEF Swap
  <2>3. TypeOK'
    BY <1>0, <1>4, <2>2 DEF Swap, TypeOK, Labels, storeVars
  <2>4. CascadeInv'
    BY <1>0, <1>4, <2>1, <2>2 DEF Swap, CascadeInv
  <2> QED
    BY <2>3, <2>4 DEF TypeInv
<1> QED
  BY <1>1, <1>2, <1>3, <1>4

\* The steps of the collector keep the types.
LEMMA CollectType ==
    ASSUME TypeInv, NEW c \in Cascades, Collect(c)
    PROVE  TypeInv'
<1>0. TypeOK /\ CascadeInv
  BY DEF TypeInv
<1> USE LabelFacts
<1>1. ASSUME NEW t \in {"Repo", "Cache"}, NEW garbage \in SUBSET Artifacts,
             GcMark(c, t, garbage)
      PROVE  TypeInv'
  <2>1. moved[c] = {}
    BY <1>0, <1>1 DEF GcMark, CascadeInv
  <2>2. target' \in [Cascades -> SUBSET Artifacts]
    <3>1. mem[StoreOf[c]] \subseteq Artifacts
      BY <1>0, CacheAssumption DEF TypeOK
    <3> QED
      BY <1>0, <1>1, <3>1 DEF GcMark, TypeOK
  <2>3. shards' \in [Cascades -> SUBSET Artifacts]
    BY <1>0, <1>1, CacheAssumption DEF GcMark, TypeOK
  <2> QED
    BY <1>0, <1>1, <2>1, <2>2, <2>3, PlainType DEF GcMark, TypeOK, storeVars
<1>2. ASSUME NEW h \in Artifacts, GcDelete(c, h)
      PROVE  TypeInv'
  <2>1. /\ moved' \in [Cascades -> SUBSET Artifacts]
        /\ moved'[c] = moved[c] \cup {h} /\ h \in dead[c]
        /\ \A d \in Cascades : d # c => moved'[d] = moved[d]
    BY <1>0, <1>2 DEF GcDelete, TypeOK
  <2>2. TypeOK'
    BY <1>0, <1>2, <2>1 DEF GcDelete, TypeOK, storeVars
  <2>3. CascadeInv'
    BY <1>0, <1>2, <2>1 DEF GcDelete, CascadeInv
  <2> QED
    BY <2>2, <2>3 DEF TypeInv
<1>3. ASSUME NEW h \in Artifacts, GcPrune(c, h)
      PROVE  TypeInv'
  <2>1. dirs' \subseteq dirs /\ dirs \cap files \subseteq dirs'
    BY <1>3 DEF GcPrune
  <2>2. shards' \in [Cascades -> SUBSET Artifacts]
    BY <1>0, <1>3 DEF GcPrune, TypeOK
  <2>3. TypeOK'
    BY <1>0, <1>3, <2>1, <2>2 DEF GcPrune, TypeOK, storeVars
  <2>4. CascadeInv'
    BY <1>0, <1>3 DEF GcPrune, CascadeInv
  <2> QED
    BY <2>3, <2>4 DEF TypeInv
<1>4. CASE GcUnmark(c)
  BY <1>0, <1>4, PlainType DEF GcUnmark, TypeOK, storeVars
<1>5. CASE GcFails(c)
  <2>1. "failed" \in Labels /\ "failed" \in Written
    OBVIOUS
  <2> QED
    BY <1>0, <1>5, <2>1, PlainType DEF GcFails, TypeOK, storeVars, diskVars
<1> QED
  BY <1>1, <1>2, <1>3, <1>4, <1>5 DEF Collect

\* Every step keeps the types.
LEMMA TypeStep == TypeInv /\ [Next]_vars => TypeInv'
<1> SUFFICES ASSUME TypeInv, [Next]_vars PROVE TypeInv'
  OBVIOUS
<1>1. CASE UNCHANGED vars
  BY <1>1 DEF TypeInv, TypeOK, CascadeInv, vars, cascadeVars, storeVars, diskVars
<1> QED
  BY <1>1, OpenType, CrashType, BuildType, FileType, ManifestType, CollectType
     DEF Next, Commit

\* Type correctness of the cache: among others, manifest.toon and
\* manifest.toon.new never name one file, a commit renames only what it
\* staged, and a cache-tier file always has its shard directory.
THEOREM CacheTypeCorrect == Spec => []TypeOK
<1>1. TypeInv => TypeOK
  BY DEF TypeInv
<1> QED
  BY InitTypes, TypeStep, <1>1, PTL DEF Spec

-----------------------------------------------------------------------------
(* Manifests list what is there.                                           *)

\* What can be read or was declared dead.
Kept == files \cup Dead

\* Every manifest, on disk under any name, in memory or about to be written,
\* lists kept artifacts, and those its own cascade is about to install; the
\* latter are installed by the time the manifest is written.
KeptInv ==
    /\ \A c \in Cascades : text[c].entries \subseteq Kept
    /\ \A s \in Stores : mem[s] \subseteq Kept
    /\ \A c \in Cascades : target[c] \subseteq Kept \cup staged[c]
    /\ \A c \in Builders : moved[c] \subseteq Kept
    /\ \A c \in Cascades : pc[c] \in {"create", "write", "swap", "publish"} =>
          staged[c] \subseteq Kept
    /\ \A c \in Collectors : staged[c] = {}
    /\ \A c \in Builders : pc[c] \notin Collecting
    /\ \A c \in Collectors : pc[c] \notin {"staging", "install"}

SoundInv == TypeInv /\ KeptInv

\* The initial state satisfies the inductive invariant.
LEMMA InitSound == Init => SoundInv
<1> SUFFICES ASSUME Init PROVE SoundInv
  OBVIOUS
<1>1. TypeInv
  BY InitTypes
<1>2. KeptInv
  BY TextTypes DEF Init, KeptInv, Cascades, Collecting
<1> QED
  BY <1>1, <1>2 DEF SoundInv

\* A cascade is a builder or a collector, and has a store.
LEMMA KindFacts ==
    /\ Builders \cap Collectors = {}
    /\ \A c \in Cascades : c \in Builders \/ c \in Collectors
    /\ Builders \subseteq Cascades /\ Collectors \subseteq Cascades
    /\ \A c \in Cascades : StoreOf[c] \in Stores
BY CacheAssumption DEF Cascades

\* A step of cascade c that leaves the manifests alone.
LEMMA QuietKept ==
    ASSUME SoundInv, NEW c \in Cascades, Kept \subseteq Kept',
           UNCHANGED <<text, mem, target, staged, moved>>,
           \A d \in Cascades : d # c => pc'[d] = pc[d],
           pc'[c] \in {"create", "write", "swap", "publish"} =>
              staged[c] \subseteq Kept,
           c \in Builders => pc'[c] \notin Collecting,
           c \in Collectors => pc'[c] \notin {"staging", "install"}
    PROVE  KeptInv'
BY KindFacts DEF SoundInv, KeptInv

\* Every step keeps the manifests to kept artifacts, where renames are atomic.
LEMMA KeptStep ==
    ASSUME SoundInv, ~SlowRename, [Next]_vars
    PROVE  KeptInv'
<1>0. TypeOK /\ CascadeInv /\ KeptInv
  BY DEF SoundInv, TypeInv
<1> USE KindFacts, LabelFacts
<1>1. ASSUME UNCHANGED <<files, dead>>
      PROVE  Kept' = Kept
  BY <1>1 DEF Kept, Dead
<1>2. ASSUME NEW s \in Stores, Open(s)
      PROVE  KeptInv'
  <2>1. Listed \subseteq Kept
    BY <1>0 DEF Listed, TypeOK, KeptInv
  <2>2. /\ Kept' = Kept /\ UNCHANGED <<text, target, staged, moved>>
        /\ \A c \in Cascades : pc'[c] \in {pc[c], "failed"}
        /\ \A r \in Stores : mem'[r] \in {mem[r], Listed}
    BY <1>0, <1>1, <1>2 DEF Open, TypeOK, diskVars
  <2> QED
    BY <1>0, <2>1, <2>2 DEF KeptInv, Collecting
<1>3. ASSUME NEW s \in Stores, Crash(s)
      PROVE  KeptInv'
  <2>1. /\ Kept' = Kept /\ UNCHANGED <<text, mem, target, staged, moved>>
        /\ \A c \in Cascades : pc'[c] \in {pc[c], "crashed"}
    BY <1>1, <1>3 DEF Crash, storeVars, diskVars
  <2> QED
    BY <1>0, <2>1 DEF KeptInv, Collecting
<1>4. ASSUME NEW c \in Cascades, NEW h \in Artifacts, Stage(c, h)
      PROVE  KeptInv'
  <2>1. /\ Kept' = Kept /\ UNCHANGED <<pc, text, mem, target, moved>>
        /\ pc[c] = "staging" /\ staged[c] \subseteq staged'[c]
        /\ \A d \in Cascades : d # c => staged'[d] = staged[d]
    BY <1>0, <1>1, <1>4 DEF Stage, TypeOK, storeVars, diskVars
  <2> QED
    BY <1>0, <2>1 DEF KeptInv
<1>5. ASSUME NEW c \in Cascades, Begin(c) \/ Abort(c) \/ CommitFails(c) \/ GcFails(c)
      PROVE  KeptInv'
  <2>1. /\ Kept' = Kept /\ UNCHANGED <<text, mem, target, staged, moved>>
        /\ pc'[c] \in {"staging", "aborted", "failed"}
        /\ pc'[c] = "staging" => c \in Builders
        /\ \A d \in Cascades : d # c => pc'[d] = pc[d]
    BY <1>0, <1>1, <1>5 DEF Begin, Abort, CommitFails, GcFails, Goto, TypeOK,
                            storeVars, diskVars
  <2> QED
    BY <2>1, QuietKept DEF Collecting
<1>6. ASSUME NEW c \in Cascades, CommitStart(c)
      PROVE  KeptInv'
  <2>1. /\ Kept' = Kept /\ UNCHANGED <<text, mem, staged, moved>>
        /\ pc[c] = "staging" /\ pc'[c] = "install"
        /\ \A d \in Cascades : d # c => pc'[d] = pc[d] /\ target'[d] = target[d]
        /\ target'[c] = mem[StoreOf[c]] \cup staged[c]
    BY <1>0, <1>1, <1>6 DEF CommitStart, Goto, TypeOK, storeVars, diskVars
  <2> QED
    BY <1>0, <2>1 DEF KeptInv, Collecting
<1>7. ASSUME NEW c \in Cascades, NEW h \in Artifacts, MakeDir(c, h)
      PROVE  KeptInv'
  <2>1. Kept' = Kept /\ UNCHANGED <<pc, text, mem, target, staged, moved>>
    BY <1>1, <1>7 DEF MakeDir, storeVars
  <2> QED
    BY <1>0, <2>1 DEF KeptInv
<1>8. ASSUME NEW c \in Cascades, Install(c)
      PROVE  KeptInv'
  <2>1. /\ Kept' = Kept \cup {at[c]}
        /\ UNCHANGED <<pc, text, mem, target, staged>>
    BY <1>8 DEF Install, Kept, Dead, storeVars
  <2>2. /\ moved'[c] = moved[c] \cup {at[c]}
        /\ \A d \in Cascades : d # c => moved'[d] = moved[d]
    BY <1>0, <1>8 DEF Install, TypeOK
  <2> QED
    BY <1>0, <2>1, <2>2 DEF KeptInv
<1>9. ASSUME NEW c \in Cascades, InstallEnd(c)
      PROVE  KeptInv'
  <2>1. /\ Kept' = Kept /\ UNCHANGED <<text, mem, target, staged, moved>>
        /\ pc[c] = "install" /\ pc'[c] = "create" /\ moved[c] = staged[c]
        /\ \A d \in Cascades : d # c => pc'[d] = pc[d]
    BY <1>0, <1>1, <1>9 DEF InstallEnd, Goto, TypeOK, storeVars, diskVars
  <2>2. staged[c] \subseteq Kept
    BY <1>0, <2>1 DEF KeptInv
  <2> QED
    BY <2>1, <2>2, QuietKept DEF Collecting
<1>10. ASSUME NEW c \in Cascades, CreateNew(c) \/ WriteNew(c)
       PROVE  KeptInv'
  <2>1. /\ Kept' = Kept /\ UNCHANGED <<mem, target, staged, moved>>
        /\ pc[c] \in {"create", "write"} /\ pc'[c] \in {"write", "swap"}
        /\ \A d \in Cascades : d # c => pc'[d] = pc[d]
    BY <1>0, <1>1, <1>10 DEF CreateNew, WriteNew, Goto, TypeOK, storeVars
  <2>2. target[c] \subseteq Kept
    BY <1>0, <2>1 DEF KeptInv
  <2>3. \A d \in Cascades : text'[d] \in {text[d], Empty, Torn, Whole(target[c])}
    BY <1>0, <1>10 DEF CreateNew, WriteNew, TypeOK
  <2>4. \A d \in Cascades : text'[d].entries \subseteq Kept
    BY <1>0, <2>2, <2>3, TextTypes DEF KeptInv
  <2> QED
    BY <1>0, <2>1, <2>4 DEF KeptInv, Collecting
<1>11. ASSUME NEW c \in Cascades, Swap(c)
       PROVE  KeptInv'
  <2>1. /\ Kept' = Kept /\ UNCHANGED <<text, mem, target, staged, moved>>
        /\ pc[c] = "swap" /\ pc'[c] = "publish"
        /\ \A d \in Cascades : d # c => pc'[d] = pc[d]
    BY <1>0, <1>1, <1>11 DEF Swap, Goto, TypeOK, storeVars
  <2> QED
    BY <1>0, <2>1, QuietKept DEF KeptInv, Collecting
<1>12. ASSUME NEW c \in Cascades, Publish(c)
       PROVE  KeptInv'
  <2>1. /\ Kept' = Kept /\ UNCHANGED <<text, target, staged, moved>>
        /\ pc[c] = "publish" /\ pc'[c] = "done"
        /\ \A d \in Cascades : d # c => pc'[d] = pc[d]
        /\ \A s \in Stores : mem'[s] \in {mem[s], target[c]}
    BY <1>0, <1>1, <1>12 DEF Publish, Goto, TypeOK
  <2>2. target[c] \subseteq Kept
    BY <1>0, <2>1 DEF KeptInv
  <2> QED
    BY <1>0, <2>1, <2>2 DEF KeptInv, Collecting
<1>13. ASSUME NEW c \in Cascades, NEW t \in {"Repo", "Cache"},
              NEW garbage \in SUBSET Artifacts, GcMark(c, t, garbage)
       PROVE  KeptInv'
  <2>1. /\ dead[c] = {} /\ c \in Collectors
        /\ \A d \in Cascades : d # c => dead'[d] = dead[d]
        /\ files' = files
    BY <1>0, <1>13 DEF GcMark, CascadeInv, TypeOK
  <2>2. Kept \subseteq Kept'
    BY <2>1 DEF Kept, Dead
  <2>3. /\ UNCHANGED <<text, mem, staged, moved>> /\ pc'[c] = "delete"
        /\ \A d \in Cascades : d # c => pc'[d] = pc[d] /\ target'[d] = target[d]
        /\ target'[c] \subseteq mem[StoreOf[c]]
    BY <1>0, <1>13 DEF GcMark, Goto, TypeOK, storeVars
  <2> QED
    BY <1>0, <2>1, <2>2, <2>3 DEF KeptInv, Collecting
<1>14. ASSUME NEW c \in Cascades, NEW h \in Artifacts, GcDelete(c, h)
       PROVE  KeptInv'
  <2>1. c \in Collectors /\ h \in dead[c] /\ UNCHANGED <<pc, text, mem, target, staged>>
    BY <1>0, <1>14 DEF GcDelete, KeptInv, Collecting, storeVars
  <2>2. Kept' = Kept
    BY <1>14, <2>1 DEF GcDelete, Kept, Dead
  <2>3. \A d \in Cascades : d # c => moved'[d] = moved[d]
    BY <1>0, <1>14 DEF GcDelete, TypeOK
  <2> QED
    BY <1>0, <2>1, <2>2, <2>3 DEF KeptInv
<1>15. ASSUME NEW c \in Cascades, GcUnmark(c) \/ \E h \in Artifacts : GcPrune(c, h)
       PROVE  KeptInv'
  <2>1. /\ Kept' = Kept /\ UNCHANGED <<text, mem, target, staged, moved>>
        /\ pc[c] \in Collecting /\ pc'[c] \in {"delete", "create"}
        /\ \A d \in Cascades : d # c => pc'[d] = pc[d]
    BY <1>0, <1>1, <1>15 DEF GcPrune, GcUnmark, Goto, TypeOK, Collecting, storeVars
  <2>2. c \in Collectors /\ staged[c] = {}
    BY <1>0, <2>1 DEF KeptInv
  <2> QED
    BY <2>1, <2>2, QuietKept
<1>16. CASE UNCHANGED vars
  <2>1. Kept' = Kept /\ UNCHANGED <<pc, text, mem, target, staged, moved>>
    BY <1>1, <1>16 DEF vars, cascadeVars, storeVars, diskVars
  <2> QED
    BY <1>0, <2>1 DEF KeptInv
<1>17. ASSUME NEW c \in Cascades, Commit(c)
       PROVE  KeptInv'
  BY <1>5, <1>6, <1>7, <1>8, <1>9, <1>10, <1>11, <1>12, <1>17
     DEF Commit, ClearArtifact, ClearManifest
<1>18. ASSUME NEW c \in Cascades, Collect(c)
       PROVE  KeptInv'
  BY <1>5, <1>13, <1>14, <1>15, <1>18 DEF Collect
<1> QED
  BY <1>2, <1>3, <1>4, <1>5, <1>16, <1>17, <1>18 DEF Next

\* Where rename replaces an existing destination, every entry of the
\* manifest on disk and of a Store's manifest in memory has its file, unless
\* a collection declared it dead, at every point of any number of concurrent
\* builds, collections, failures and crashes.
THEOREM CacheManifestSound == ~SlowRename => (Spec => []ManifestSound)
<1> SUFFICES ASSUME ~SlowRename PROVE Spec => []ManifestSound
  OBVIOUS
<1>1. SoundInv /\ [Next]_vars => SoundInv'
  BY TypeStep, KeptStep DEF SoundInv
<1>2. SoundInv => ManifestSound
  BY DEF SoundInv, TypeInv, TypeOK, KeptInv, ManifestSound, Listed, Kept
<1> QED
  BY InitSound, <1>1, <1>2, PTL DEF Spec
-----------------------------------------------------------------------------
(* Commands that follow one another.                                       *)

\* Every cascade is the command of a process of its own, and a process opens
\* its Store when the earlier ones have ended.
OneAtATime ==
    /\ Sequential
    /\ \A c, d \in Cascades : StoreOf[c] = StoreOf[d] => c = d

\* The command that is running, or that may begin.
Live(c) == StoreOf[c] \in opened /\ pc[c] \notin Ended

\* Why an entry may have no file: see LossHasCause.
Caused(h) ==
    \/ \E c \in Builders : at[c] = h /\ pc[c] \in {"install", "failed", "crashed"}
    \/ \E c \in Collectors : h \in moved[c] /\ pc[c] # "done"

\* What the live command knows of the disk.  It has the manifest in memory, up
\* to its own rename; it writes its target to a file nobody else has open; a
\* build has installed what it has moved; and what is missing has a cause.
Solo(c) ==
    /\ pc[c] = "write" => newManifest = fd[c] /\ text[fd[c]] = Empty
    /\ pc[c] = "swap" => newManifest # None /\ text[newManifest] = Whole(target[c])
    /\ pc[c] = "publish" => manifest # None /\ text[manifest] = Whole(target[c])
    /\ pc[c] # "publish" /\ (pc[c] = "swap" => ~SlowRename) => mem[StoreOf[c]] = Listed
    /\ c \in Builders /\ pc[c] \in Committing => target[c] = mem[StoreOf[c]] \cup staged[c]
    /\ c \in Collectors /\ pc[c] # "idle" => target[c] = mem[StoreOf[c]] \ dead[c]
    /\ c \in Builders => moved[c] \subseteq files
    /\ c \in Builders /\ pc[c] \in Committing \ {"install"} => moved[c] = staged[c]
    /\ pc[c] # "install" => at[c] = None
    /\ at[c] \notin moved[c]
    /\ \A h \in mem[StoreOf[c]] \ files : Caused(h)

\* Builds do not collect, collections neither stage nor install.
KindInv ==
    /\ \A c \in Builders : pc[c] \notin Collecting
    /\ \A c \in Collectors : /\ pc[c] \notin {"staging", "install"}
                             /\ staged[c] = {}
                             /\ moved[c] \subseteq dead[c]

AloneInv ==
    /\ \A c, d \in Cascades : Live(c) /\ Live(d) => c = d
    /\ \A c \in Cascades : pc[c] \in Running => StoreOf[c] \in opened
    /\ \A c \in Cascades : Live(c) => Solo(c)
    /\ KindInv
    /\ Readable
    /\ LossHasCause

\* A step of the live command concerns nobody else.
LEMMA SoloFrame ==
    ASSUME AloneInv, NEW c \in Cascades, Live(c), opened' = opened,
           \A d \in Cascades : d # c => pc'[d] = pc[d],
           Live(c)' => Solo(c)', KindInv', Readable', LossHasCause'
    PROVE  AloneInv'
<1>1. \A d \in Cascades : Live(d)' => d = c
  BY DEF AloneInv, Live
<1>2. StoreOf[c] \in opened
  BY DEF Live
<1> QED
  BY <1>1, <1>2 DEF AloneInv

\* The initial state.
LEMMA InitAlone == Init => AloneInv
<1> SUFFICES ASSUME Init PROVE AloneInv
  OBVIOUS
<1> USE DEF Init
<1>1. \A c \in Cascades : ~Live(c) /\ pc[c] = "idle"
  BY DEF Live
<1>2. KindInv
  BY KindFacts DEF KindInv, Collecting
<1>3. Readable /\ LossHasCause
  BY DEF Readable, LossHasCause, Listed
<1> QED
  BY <1>1, <1>2, <1>3 DEF AloneInv, Running, Committing, Collecting

\* Opening a Store when the earlier processes have ended.
LEMMA OpenAlone ==
    ASSUME OneAtATime, TypeInv, AloneInv, NEW s \in Stores, Open(s)
    PROVE  AloneInv'
<1>0. TypeOK /\ CascadeInv /\ AloneInv /\ Readable
  BY DEF TypeInv, AloneInv
<1>1. /\ UNCHANGED <<staged, moved, target, at, fd, dead, files, manifest, newManifest, text>>
      /\ UNCHANGED pc /\ opened' = opened \cup {s} /\ s \notin opened
      /\ mem' = [mem EXCEPT ![s] = Listed]
  <2>1. pc' = pc
    BY <1>0 DEF Open, TypeOK
  <2> QED
    BY <2>1 DEF Open, diskVars
<1>2. /\ Listed' = Listed /\ (Readable <=> Readable') /\ (LossHasCause <=> LossHasCause')
      /\ \A h : Caused(h) <=> Caused(h)'
  BY <1>1 DEF Listed, Readable, LossHasCause, Caused
<1>3. KindInv'
  BY <1>0, <1>1 DEF AloneInv, KindInv
<1>4. ASSUME NEW c \in Cascades, Live(c)'
      PROVE  StoreOf[c] = s /\ pc[c] = "idle"
  <2>1. StoreOf[c] = s
    BY <1>1, <1>4 DEF Open, OneAtATime, Gone, Live
  <2> QED
    BY <1>0, <1>1, <1>4, <2>1 DEF AloneInv, TypeOK, Live
<1>5. ASSUME NEW c \in Cascades, Live(c)'
      PROVE  Solo(c)'
  <2>1. StoreOf[c] = s /\ pc[c] = "idle" /\ mem'[s] = Listed
    BY <1>0, <1>1, <1>4, <1>5 DEF TypeOK
  <2>2. staged[c] = {} /\ moved[c] = {} /\ at[c] = None
    BY <1>0, <2>1 DEF CascadeInv
  <2>3. \A h \in Listed \ files : Caused(h)
    BY <1>0 DEF AloneInv, LossHasCause, Caused
  <2> QED
    BY <1>1, <1>2, <2>1, <2>2, <2>3 DEF Solo, Committing
<1>6. \A c, d \in Cascades : Live(c)' /\ Live(d)' => c = d
  BY <1>4 DEF OneAtATime
<1> QED
  BY <1>0, <1>1, <1>2, <1>3, <1>5, <1>6 DEF AloneInv

\* A crash ends the live command.
LEMMA CrashAlone ==
    ASSUME OneAtATime, TypeInv, AloneInv, NEW s \in Stores, Crash(s)
    PROVE  AloneInv'
<1>0. TypeOK /\ CascadeInv
  BY DEF TypeInv
<1>1. PICK c \in Cascades : StoreOf[c] = s /\ pc[c] \in Running
  BY DEF Crash
<1>2. Live(c)
  BY <1>1 DEF AloneInv, Live, Running, Ended, Committing, Collecting
<1>3. /\ UNCHANGED <<staged, moved, target, at, fd, dead, files, manifest, newManifest,
                     text, opened>>
      /\ pc'[c] = "crashed" /\ \A d \in Cascades : d # c => pc'[d] = pc[d]
  BY <1>0, <1>1, <1>2 DEF Crash, OneAtATime, Live, storeVars, diskVars
<1>4. ~Live(c)'
  BY <1>3 DEF Live, Ended
<1>5. KindInv'
  BY <1>3, KindFacts DEF AloneInv, KindInv, Collecting
<1>6. Readable' /\ Listed' = Listed
  BY <1>3 DEF AloneInv, Readable, Listed
<1>7. LossHasCause'
  <2>1. ASSUME NEW h, Caused(h) PROVE Caused(h)'
    <3>1. CASE \E d \in Builders : at[d] = h /\ pc[d] \in {"install", "failed", "crashed"}
      BY <1>3, <3>1, KindFacts DEF Caused
    <3>2. CASE \E d \in Collectors : h \in moved[d] /\ pc[d] # "done"
      BY <1>3, <3>2, KindFacts DEF Caused
    <3> QED
      BY <2>1, <3>1, <3>2 DEF Caused
  <2> QED
    BY <1>3, <1>6, <2>1 DEF AloneInv, LossHasCause, Caused
<1> QED
  BY <1>2, <1>3, <1>4, <1>5, <1>6, <1>7, SoloFrame

\* A running command is the live one.
LEMMA RunningLive ==
    ASSUME AloneInv, NEW c \in Cascades, pc[c] \in Running
    PROVE  Live(c) /\ Solo(c)
BY DEF AloneInv, Live, Running, Ended, Committing, Collecting

\* What explains a missing file goes on explaining it: the live command does
\* not leave the artifact it is replacing, and a collection does not succeed.
LEMMA CauseKept ==
    ASSUME NEW c \in Cascades, Live(c),
           \A d \in Cascades : d # c => pc'[d] = pc[d] /\ at'[d] = at[d],
           \A d \in Cascades : moved[d] \subseteq moved'[d],
           c \in Collectors => pc'[c] # "done",
           \/ at[c] = None
           \/ at'[c] = at[c] /\ pc'[c] \in {"install", "failed"},
           NEW h \in Artifacts, Caused(h)
    PROVE  Caused(h)'
<1>1. CASE \E d \in Builders : at[d] = h /\ pc[d] \in {"install", "failed", "crashed"}
  <2>1. PICK d \in Builders : at[d] = h /\ pc[d] \in {"install", "failed", "crashed"}
    BY <1>1
  <2>2. h # None
    BY CacheAssumption
  <2> QED
    BY <2>1, <2>2, KindFacts DEF Caused
<1>2. CASE \E d \in Collectors : h \in moved[d] /\ pc[d] # "done"
  <2>1. PICK d \in Collectors : h \in moved[d] /\ pc[d] # "done"
    BY <1>2
  <2> QED
    BY <2>1, KindFacts DEF Caused
<1> QED
  BY <1>1, <1>2 DEF Caused

\* A step that touches neither the artifacts nor the manifests.
LEMMA PlainAlone ==
    ASSUME TypeInv, AloneInv, NEW c \in Cascades, Live(c), NEW l \in Labels, Goto(c, l),
           UNCHANGED <<opened, mem, files, manifest, newManifest, text, moved, at>>,
           \A d \in Cascades : d # c => UNCHANGED <<staged[d], dead[d]>>,
           l = "done" => c \notin Collectors,
           \/ at[c] = None
           \/ l \in {"install", "failed"},
           c \in Builders => l \notin Collecting,
           c \in Collectors => /\ l \notin {"staging", "install"}
                               /\ staged'[c] = {}
                               /\ moved[c] \subseteq dead'[c],
           l \in Ended
             \/ ((\A h \in mem[StoreOf[c]] \ files : Caused(h)') => Solo(c)')
    PROVE  AloneInv'
<1>0. TypeOK /\ CascadeInv
  BY DEF TypeInv
<1>1. pc'[c] = l /\ \A d \in Cascades : d # c => pc'[d] = pc[d]
  BY <1>0, GotoFacts
<1>2. KindInv'
  BY <1>1, KindFacts DEF AloneInv, KindInv
<1>3. Readable' /\ Listed' = Listed /\ Listed \subseteq Artifacts
  BY <1>0, ListedType DEF AloneInv, Readable, Listed
<1>4. \A h \in Artifacts : Caused(h) => Caused(h)'
  BY <1>1, CauseKept
<1>5. LossHasCause'
  <2>1. \A h \in Listed \ files : Caused(h)
    BY DEF AloneInv, LossHasCause, Caused
  <2> QED
    BY <1>3, <1>4, <2>1 DEF LossHasCause, Caused
<1>6. ASSUME Live(c)' PROVE Solo(c)'
  <2>1. l \notin Ended
    BY <1>1, <1>6 DEF Live
  <2>2. \A h \in mem[StoreOf[c]] \ files : Caused(h)
    BY DEF AloneInv, Solo
  <2>3. mem[StoreOf[c]] \subseteq Artifacts
    BY <1>0, KindFacts DEF TypeOK
  <2> QED
    BY <1>4, <2>1, <2>2, <2>3
<1> QED
  BY <1>1, <1>2, <1>3, <1>5, <1>6, SoloFrame

\* The steps that begin, end or abandon a session.
LEMMA SessionAlone ==
    ASSUME TypeInv, AloneInv, NEW c \in Cascades,
           Begin(c) \/ Abort(c) \/ CommitStart(c) \/ InstallEnd(c) \/ CommitFails(c)
    PROVE  AloneInv'
<1>0. TypeOK /\ CascadeInv
  BY DEF TypeInv
<1> USE LabelFacts, KindFacts
<1>1. CASE Begin(c)
  <2>1. Live(c) /\ pc[c] = "idle"
    BY <1>1 DEF Begin, Live, Ended
  <2>2. Solo(c)
    BY <2>1 DEF AloneInv
  <2>3. pc'[c] = "staging"
    BY <1>0, <1>1 DEF Begin, Goto, TypeOK
  <2>4. Listed' = Listed
    BY <1>1 DEF Begin, Listed
  <2>5. (\A h \in mem[StoreOf[c]] \ files : Caused(h)') => Solo(c)'
    BY <1>1, <2>1, <2>2, <2>3, <2>4 DEF Begin, Solo, Committing, storeVars
  <2> QED
    BY <1>0, <1>1, <2>1, <2>2, <2>5, PlainAlone DEF Begin, Solo, storeVars, Collecting, CascadeInv
<1>2. CASE Abort(c)
  <2>1. Live(c) /\ Solo(c) /\ pc[c] = "staging"
    BY <1>2, RunningLive DEF Abort, Running
  <2> QED
    BY <1>2, <2>1, PlainAlone DEF Abort, AloneInv, KindInv, Solo, Collecting, Ended, storeVars
<1>3. CASE CommitStart(c)
  <2>1. Live(c) /\ Solo(c) /\ pc[c] = "staging" /\ c \in Builders
    BY <1>3, RunningLive DEF CommitStart, Running, AloneInv, KindInv
  <2>3. /\ pc'[c] = "install" /\ target'[c] = mem[StoreOf[c]] \cup staged[c]
        /\ UNCHANGED <<staged, moved, at, fd, dead, mem, files, manifest, newManifest, text>>
    BY <1>0, <1>3 DEF CommitStart, Goto, TypeOK, storeVars, diskVars
  <2>4. Listed' = Listed
    BY <2>3 DEF Listed
  <2>5. (\A h \in mem[StoreOf[c]] \ files : Caused(h)') => Solo(c)'
    BY <2>1, <2>3, <2>4 DEF Solo
  <2> QED
    BY <1>3, <2>1, <2>5, PlainAlone DEF CommitStart, Collecting, Solo, storeVars, diskVars
<1>4. CASE InstallEnd(c)
  <2>1. Live(c) /\ Solo(c) /\ pc[c] = "install" /\ c \in Builders
    BY <1>4, RunningLive DEF InstallEnd, Running, Committing, AloneInv, KindInv
  <2>3. /\ pc'[c] = "create" /\ at[c] = None /\ moved[c] = staged[c]
        /\ UNCHANGED <<staged, moved, target, at, fd, dead, mem, files, manifest, newManifest, text>>
    BY <1>0, <1>4 DEF InstallEnd, Goto, TypeOK, storeVars, diskVars
  <2>4. Listed' = Listed
    BY <2>3 DEF Listed
  <2>5. (\A h \in mem[StoreOf[c]] \ files : Caused(h)') => Solo(c)'
    BY <2>1, <2>3, <2>4 DEF Solo, Committing
  <2> QED
    BY <1>4, <2>1, <2>3, <2>5, PlainAlone DEF InstallEnd, Collecting, storeVars, diskVars
<1>5. CASE CommitFails(c)
  <2>1. Live(c)
    BY <1>5, RunningLive DEF CommitFails, Running, Committing
  <2>2. "failed" \in Labels /\ "failed" \in Ended
    BY DEF Ended
  <2> QED
    BY <1>5, <2>1, <2>2, PlainAlone DEF CommitFails, AloneInv, KindInv, Collecting, storeVars
<1> QED
  BY <1>1, <1>2, <1>3, <1>4, <1>5

\* The steps of a collection, but for the deletions.
LEMMA CollectAlone ==
    ASSUME TypeInv, AloneInv, NEW c \in Cascades,
           \/ \E t \in {"Repo", "Cache"}, garbage \in SUBSET Artifacts : GcMark(c, t, garbage)
           \/ \E h \in Artifacts : GcPrune(c, h)
           \/ GcUnmark(c) \/ GcFails(c)
    PROVE  AloneInv'
<1>0. TypeOK /\ CascadeInv
  BY DEF TypeInv
<1> USE LabelFacts, KindFacts
<1>1. ASSUME NEW t \in {"Repo", "Cache"}, NEW garbage \in SUBSET Artifacts,
             GcMark(c, t, garbage)
      PROVE  AloneInv'
  <2>1. Live(c) /\ pc[c] = "idle" /\ c \in Collectors
    BY <1>1 DEF GcMark, Live, Ended
  <2>2. Solo(c) /\ staged[c] = {} /\ moved[c] = {}
    BY <1>0, <2>1 DEF AloneInv, CascadeInv
  <2>3. /\ pc'[c] = "delete" /\ target'[c] = mem[StoreOf[c]] \ garbage /\ dead'[c] = garbage
        /\ \A d \in Cascades : d # c => dead'[d] = dead[d]
        /\ UNCHANGED <<staged, moved, at, fd, mem, files, manifest, newManifest, text>>
    BY <1>0, <1>1 DEF GcMark, Goto, TypeOK, storeVars
  <2>4. Listed' = Listed
    BY <2>3 DEF Listed
  <2>5. (\A h \in mem[StoreOf[c]] \ files : Caused(h)') => Solo(c)'
    BY <2>1, <2>2, <2>3, <2>4 DEF Solo, Committing
  <2> QED
    BY <1>1, <2>1, <2>2, <2>3, <2>5, PlainAlone DEF GcMark, Solo, Collecting, storeVars
<1>2. ASSUME NEW d \in Artifacts, GcPrune(c, d)
      PROVE  AloneInv'
  <2>1. Live(c) /\ Solo(c) /\ pc[c] = "delete" /\ c \in Collectors
    BY <1>2, RunningLive DEF GcPrune, Running, Collecting, AloneInv, KindInv
  <2>3. /\ pc'[c] = "delete"
        /\ UNCHANGED <<pc, staged, moved, target, at, fd, dead, mem, files, manifest, newManifest, text>>
    BY <1>0, <1>2 DEF GcPrune, Goto, TypeOK, storeVars
  <2>4. Listed' = Listed
    BY <2>3 DEF Listed
  <2>5. (\A h \in mem[StoreOf[c]] \ files : Caused(h)') => Solo(c)'
    BY <2>1, <2>3, <2>4 DEF Solo, Committing
  <2>6. staged'[c] = {} /\ moved[c] \subseteq dead'[c]
    BY <2>1, <2>3 DEF AloneInv, KindInv
  <2>7. Goto(c, "delete")
    BY <1>0, <2>1, <2>3 DEF Goto, TypeOK
  <2> QED
    BY <1>2, <2>1, <2>3, <2>5, <2>6, <2>7, PlainAlone DEF GcPrune, Solo, storeVars
<1>3. CASE GcUnmark(c)
  <2>1. Live(c) /\ Solo(c) /\ pc[c] = "delete" /\ c \in Collectors
    BY <1>3, RunningLive DEF GcUnmark, Running, Collecting, AloneInv, KindInv
  <2>3. /\ pc'[c] = "create"
        /\ UNCHANGED <<staged, moved, target, at, fd, dead, mem, files, manifest, newManifest, text>>
    BY <1>0, <1>3 DEF GcUnmark, Goto, TypeOK, storeVars
  <2>4. Listed' = Listed
    BY <2>3 DEF Listed
  <2>5. (\A h \in mem[StoreOf[c]] \ files : Caused(h)') => Solo(c)'
    BY <2>1, <2>3, <2>4 DEF Solo
  <2>6. staged'[c] = {} /\ moved[c] \subseteq dead'[c]
    BY <2>1, <2>3 DEF AloneInv, KindInv
  <2> QED
    BY <1>3, <2>1, <2>3, <2>5, <2>6, PlainAlone DEF GcUnmark, Solo, storeVars
<1>4. CASE GcFails(c)
  <2>1. Live(c) /\ Solo(c) /\ c \in Collectors
    BY <1>4, RunningLive DEF GcFails, Running, AloneInv, KindInv
  <2>2. "failed" \in Labels /\ "failed" \in Ended
    BY DEF Ended
  <2>6. staged'[c] = {} /\ moved[c] \subseteq dead'[c]
    BY <1>4, <2>1 DEF GcFails, AloneInv, KindInv
  <2> QED
    BY <1>4, <2>1, <2>2, <2>6, PlainAlone DEF GcFails, storeVars, diskVars
<1> QED
  BY <1>1, <1>2, <1>3, <1>4

\* The steps on artifact files.
LEMMA FilesAlone ==
    ASSUME TypeInv, AloneInv, NEW c \in Cascades,
           \/ \E h \in Artifacts : Stage(c, h) \/ MakeDir(c, h) \/ GcDelete(c, h)
           \/ ClearArtifact(c) \/ Install(c)
    PROVE  AloneInv'
<1>0. TypeOK /\ CascadeInv /\ Readable /\ KindInv /\ LossHasCause
  BY DEF TypeInv, AloneInv
<1> USE LabelFacts, KindFacts
<1>a. Live(c) /\ Solo(c) /\ pc[c] \in {"staging", "install", "delete"} /\ pc' = pc
  BY RunningLive DEF Stage, MakeDir, GcDelete, ClearArtifact, Install, Running, Committing,
                     Collecting, cascadeVars
<1>b. /\ UNCHANGED <<opened, mem, manifest, newManifest, text, target, fd, dead>>
  BY DEF Stage, MakeDir, GcDelete, ClearArtifact, Install, storeVars, diskVars, cascadeVars
<1>c. Listed' = Listed /\ Readable' /\ Listed \subseteq Artifacts
  BY <1>0, <1>b, ListedType DEF Listed, Readable
<1>d. /\ \A h \in Listed \ files : Caused(h)
      /\ mem[StoreOf[c]] \subseteq Artifacts
      /\ \A h \in mem[StoreOf[c]] \ files : Caused(h)
  BY <1>0, <1>a DEF LossHasCause, Caused, Solo, TypeOK
<1>1. ASSUME NEW h \in Artifacts, Stage(c, h)
      PROVE  AloneInv'
  <2>1. /\ UNCHANGED <<moved, at, files>> /\ pc[c] = "staging" /\ c \in Builders
        /\ \A d \in Cascades : d # c => staged'[d] = staged[d]
    BY <1>0, <1>1 DEF Stage, TypeOK, diskVars, KindInv
  <2>2. \A g \in Artifacts : Caused(g) => Caused(g)'
    BY <1>a, <2>1 DEF Caused
  <2>3. KindInv'
    BY <1>0, <1>a, <1>b, <2>1 DEF KindInv
  <2>4. LossHasCause'
    BY <1>c, <1>d, <2>1, <2>2 DEF LossHasCause, Caused
  <2>5. Solo(c)'
    BY <1>a, <1>b, <1>c, <1>d, <2>1, <2>2 DEF Solo, Committing
  <2> QED
    BY <1>a, <1>b, <1>c, <2>3, <2>4, <2>5, SoloFrame
<1>2. ASSUME NEW h \in Artifacts, MakeDir(c, h)
      PROVE  AloneInv'
  <2>1. /\ UNCHANGED <<moved, staged, files>> /\ pc[c] = "install" /\ c \in Builders
        /\ at[c] = None /\ at'[c] = h /\ h \notin moved[c]
        /\ \A d \in Cascades : d # c => at'[d] = at[d]
    BY <1>0, <1>2 DEF MakeDir, TypeOK, KindInv
  <2>2. \A g \in Artifacts : Caused(g) => Caused(g)'
    BY <1>a, <2>1, CauseKept
  <2>3. KindInv'
    BY <1>0, <1>a, <1>b, <2>1 DEF KindInv
  <2>4. LossHasCause'
    BY <1>c, <1>d, <2>1, <2>2 DEF LossHasCause, Caused
  <2>5. Solo(c)'
    BY <1>a, <1>b, <1>c, <1>d, <2>1, <2>2 DEF Solo, Committing
  <2> QED
    BY <1>a, <1>b, <1>c, <2>3, <2>4, <2>5, SoloFrame
<1>3. ASSUME NEW h \in Artifacts, GcDelete(c, h)
      PROVE  AloneInv'
  <2>1. /\ UNCHANGED <<at, staged>> /\ pc[c] = "delete" /\ c \in Collectors
        /\ files' = files \ {h} /\ moved'[c] = moved[c] \cup {h} /\ h \in dead[c]
        /\ \A d \in Cascades : d # c => moved'[d] = moved[d]
    BY <1>0, <1>3 DEF GcDelete, TypeOK, KindInv, Collecting
  <2>2. \A g \in Artifacts : Caused(g) => Caused(g)'
    BY <1>a, <2>1 DEF Caused
  <2>3. Caused(h)'
    BY <1>a, <2>1 DEF Caused
  <2>4. KindInv'
    BY <1>0, <1>a, <1>b, <2>1 DEF KindInv
  <2>5. LossHasCause'
    BY <1>c, <1>d, <2>1, <2>2, <2>3 DEF LossHasCause, Caused
  <2>6. Solo(c)'
    <3>1. at[c] = None
      BY <1>a, <2>1 DEF Solo
    <3>2. None \notin moved'[c]
      BY <1>0, <2>1, CacheAssumption DEF TypeOK
    <3> QED
      BY <1>a, <1>b, <1>c, <1>d, <2>1, <2>2, <2>3, <3>1, <3>2 DEF Solo, Committing
  <2> QED
    BY <1>a, <1>b, <1>c, <2>4, <2>5, <2>6, SoloFrame
<1>4. ASSUME ClearArtifact(c)
      PROVE  AloneInv'
  <2>1. /\ UNCHANGED <<at, staged, moved>> /\ pc[c] = "install" /\ c \in Builders
        /\ files' = files \ {at[c]} /\ at[c] \in Artifacts
    BY <1>0, <1>4 DEF ClearArtifact, TypeOK, KindInv, cascadeVars
  <2>2. \A g \in Artifacts : Caused(g) => Caused(g)'
    BY <1>a, <2>1 DEF Caused
  <2>3. Caused(at[c])'
    BY <1>a, <2>1 DEF Caused
  <2>4. KindInv'
    BY <1>0, <1>a, <1>b, <2>1 DEF KindInv
  <2>5. LossHasCause'
    BY <1>c, <1>d, <2>1, <2>2, <2>3 DEF LossHasCause, Caused
  <2>6. Solo(c)'
    BY <1>a, <1>b, <1>c, <1>d, <2>1, <2>2, <2>3 DEF Solo, Committing
  <2> QED
    BY <1>a, <1>b, <1>c, <2>4, <2>5, <2>6, SoloFrame
<1>5. ASSUME Install(c)
      PROVE  AloneInv'
  <2>1. /\ UNCHANGED staged /\ pc[c] = "install" /\ c \in Builders
        /\ files' = files \cup {at[c]} /\ at'[c] = None
        /\ moved'[c] = moved[c] \cup {at[c]} /\ at[c] \in Artifacts
        /\ \A d \in Cascades : d # c => moved'[d] = moved[d] /\ at'[d] = at[d]
    BY <1>0, <1>5 DEF Install, TypeOK, KindInv
  <2>2. ASSUME NEW g \in Artifacts, g # at[c], Caused(g)
        PROVE  Caused(g)'
    <3>1. CASE \E d \in Builders : at[d] = g /\ pc[d] \in {"install", "failed", "crashed"}
      BY <1>a, <2>1, <2>2, <3>1 DEF Caused
    <3>2. CASE \E d \in Collectors : g \in moved[d] /\ pc[d] # "done"
      BY <1>a, <2>1, <2>2, <3>2 DEF Caused
    <3> QED
      BY <2>2, <3>1, <3>2 DEF Caused
  <2>4. KindInv'
    BY <1>0, <1>a, <1>b, <2>1 DEF KindInv
  <2>5. LossHasCause'
    BY <1>c, <1>d, <2>1, <2>2 DEF LossHasCause, Caused
  <2>6. Solo(c)'
    <3>1. at'[c] \notin moved'[c]
      BY <1>0, <2>1, CacheAssumption DEF TypeOK
    <3> QED
      BY <1>a, <1>b, <1>c, <1>d, <2>1, <2>2, <3>1 DEF Solo, Committing
  <2> QED
    BY <1>a, <1>b, <1>c, <2>4, <2>5, <2>6, SoloFrame
<1> QED
  BY <1>1, <1>2, <1>3, <1>4, <1>5

\* The steps on the manifest.
LEMMA ManifestAlone ==
    ASSUME TypeInv, AloneInv, NEW c \in Cascades,
           CreateNew(c) \/ WriteNew(c) \/ ClearManifest(c) \/ Swap(c) \/ Publish(c)
    PROVE  AloneInv'
<1>0. TypeOK /\ CascadeInv /\ Readable /\ KindInv /\ LossHasCause
  BY DEF TypeInv, AloneInv
<1> USE LabelFacts, KindFacts
<1>a. Live(c) /\ Solo(c) /\ pc[c] \in {"create", "write", "swap", "publish"}
  BY RunningLive DEF CreateNew, WriteNew, ClearManifest, Swap, Publish, Running, Committing
<1>b. /\ UNCHANGED <<opened, staged, moved, target, at, dead, files>>
      /\ pc'[c] \in {"write", "swap", "publish", "done"}
      /\ \A d \in Cascades : d # c => pc'[d] = pc[d]
  BY <1>0, <1>a DEF CreateNew, WriteNew, ClearManifest, Swap, Publish, Goto, TypeOK, storeVars,
                    cascadeVars
<1>c. at[c] = None /\ (c \in Builders => moved[c] = staged[c] /\ moved[c] \subseteq files)
  BY <1>a DEF Solo, Committing
<1>d. /\ \A h \in Listed \ files : Caused(h)
      /\ mem[StoreOf[c]] \subseteq Artifacts /\ Listed \subseteq Artifacts
      /\ \A h \in mem[StoreOf[c]] \ files : Caused(h)
  BY <1>0, <1>a, ListedType DEF LossHasCause, Caused, Solo, TypeOK
<1>e. KindInv'
  BY <1>0, <1>b DEF KindInv, Collecting
<1>f. ASSUME pc'[c] # "done", NEW h \in Artifacts, Caused(h)
      PROVE  Caused(h)'
  BY <1>a, <1>b, <1>c, <1>f, CauseKept
<1>1. ASSUME CreateNew(c)
      PROVE  AloneInv'
  <2> DEFINE ino == IF newManifest = None THEN c ELSE newManifest
  <2>1. ino \in Cascades /\ ino # None /\ manifest # ino
    BY <1>0, <1>1, CacheAssumption DEF TypeOK, CascadeInv, CreateNew
  <2>2. newManifest' = ino /\ fd' = [fd EXCEPT ![c] = ino] /\ text' = [text EXCEPT ![ino] = Empty]
    BY <1>1 DEF CreateNew
  <2> HIDE DEF ino
  <2>3. fd'[c] = ino /\ text'[ino] = Empty /\ pc[c] = "create" /\ pc'[c] = "write"
        /\ UNCHANGED <<mem, manifest>>
    BY <1>0, <1>1, <2>1, <2>2 DEF CreateNew, TypeOK, Goto, storeVars
  <2>4. manifest # None => text'[manifest] = text[manifest]
    BY <1>0, <2>1, <2>2 DEF TypeOK
  <2>5. Listed' = Listed /\ Readable'
    BY <1>0, <2>3, <2>4 DEF Listed, Readable
  <2>6. LossHasCause'
    BY <1>b, <1>d, <1>f, <2>3, <2>5 DEF LossHasCause, Caused
  <2>7. Solo(c)'
    BY <1>a, <1>b, <1>d, <1>f, <2>2, <2>3, <2>5 DEF Solo, Committing
  <2> QED
    BY <1>a, <1>b, <1>e, <2>5, <2>6, <2>7, SoloFrame
<1>2. ASSUME WriteNew(c)
      PROVE  AloneInv'
  <2>1. /\ newManifest = fd[c] /\ text[fd[c]] = Empty /\ fd[c] \in Cascades /\ manifest # fd[c]
        /\ pc[c] = "write" /\ pc'[c] = "swap" /\ UNCHANGED <<mem, manifest, newManifest, fd>>
    BY <1>0, <1>2, <1>a DEF WriteNew, TypeOK, Goto, storeVars, Solo
  <2>2. text' = [text EXCEPT ![fd[c]] = Whole(target[c])]
    BY <1>2, <2>1 DEF WriteNew
  <2>3. text'[newManifest] = Whole(target[c]) /\ newManifest # None
    BY <1>0, <2>1, <2>2, CacheAssumption DEF TypeOK
  <2>4. manifest # None => text'[manifest] = text[manifest]
    BY <1>0, <2>1, <2>2 DEF TypeOK
  <2>5. Listed' = Listed /\ Readable'
    BY <1>0, <2>1, <2>4 DEF Listed, Readable
  <2>6. LossHasCause'
    BY <1>b, <1>d, <1>f, <2>1, <2>5 DEF LossHasCause, Caused
  <2>7. Solo(c)'
    BY <1>a, <1>b, <1>d, <1>f, <2>1, <2>3, <2>5 DEF Solo, Committing
  <2> QED
    BY <1>a, <1>b, <1>e, <2>5, <2>6, <2>7, SoloFrame
<1>3. ASSUME ClearManifest(c)
      PROVE  AloneInv'
  <2>1. /\ UNCHANGED <<pc, mem, newManifest, text, fd>> /\ manifest' = None
        /\ pc[c] = "swap" /\ SlowRename
    BY <1>3 DEF ClearManifest, cascadeVars, storeVars
  <2>2. Listed' = {} /\ Readable'
    BY <2>1 DEF Listed, Readable
  <2>3. LossHasCause'
    BY <2>2 DEF LossHasCause
  <2>4. Solo(c)'
    BY <1>a, <1>b, <1>d, <1>f, <2>1 DEF Solo, Committing
  <2> QED
    BY <1>a, <1>b, <1>e, <2>2, <2>3, <2>4, SoloFrame
<1>4. ASSUME Swap(c)
      PROVE  AloneInv'
  <2>1. /\ UNCHANGED <<mem, text, fd>> /\ manifest' = newManifest /\ newManifest # None
        /\ pc[c] = "swap" /\ pc'[c] = "publish" /\ text[newManifest] = Whole(target[c])
    BY <1>0, <1>4, <1>a DEF Swap, storeVars, Goto, TypeOK, Solo
  <2>2. Listed' = target[c] /\ Readable'
    BY <2>1, TextTypes DEF Listed, Readable, Whole
  <2>3. \A h \in target[c] \ files : h \in mem[StoreOf[c]]
    BY <1>a, <1>c, <2>1 DEF Solo, Committing
  <2>4. LossHasCause'
    BY <1>b, <1>d, <1>f, <2>1, <2>2, <2>3 DEF LossHasCause, Caused
  <2>5. Solo(c)'
    BY <1>a, <1>b, <1>d, <1>f, <2>1, <2>2 DEF Solo, Committing
  <2> QED
    BY <1>a, <1>b, <1>e, <2>2, <2>4, <2>5, SoloFrame
<1>5. ASSUME Publish(c)
      PROVE  AloneInv'
  <2>1. /\ pc[c] = "publish" /\ pc'[c] = "done" /\ UNCHANGED <<manifest, newManifest, text>>
    BY <1>0, <1>5 DEF Publish, Goto, TypeOK
  <2>2. Listed' = Listed /\ Readable' /\ Listed = target[c]
    BY <1>0, <1>a, <2>1, TextTypes DEF Listed, Readable, Solo
  <2>3. ~Live(c)'
    BY <2>1 DEF Live, Ended
  <2>4. c \in Collectors => target[c] \cap moved[c] = {}
    BY <1>0, <1>a, <2>1 DEF Solo, KindInv
  <2>5. ASSUME NEW h \in Listed \ files
        PROVE  Caused(h)'
    <3>1. Caused(h) /\ h \in Artifacts
      BY <1>d
    <3>2. CASE \E d \in Builders : at[d] = h /\ pc[d] \in {"install", "failed", "crashed"}
      BY <1>b, <2>1, <3>2 DEF Caused
    <3>3. CASE \E d \in Collectors : h \in moved[d] /\ pc[d] # "done"
      BY <1>b, <2>2, <2>4, <3>3 DEF Caused
    <3> QED
      BY <3>1, <3>2, <3>3 DEF Caused
  <2>6. LossHasCause'
    BY <1>b, <2>2, <2>5 DEF LossHasCause, Caused
  <2> QED
    BY <1>a, <1>b, <1>e, <2>2, <2>3, <2>6, SoloFrame
<1> QED
  BY <1>1, <1>2, <1>3, <1>4, <1>5

\* Every step keeps the invariant of commands that follow one another.
LEMMA AloneStep ==
    ASSUME OneAtATime, TypeInv, AloneInv, [Next]_vars
    PROVE  AloneInv'
<1>1. CASE UNCHANGED vars
  <2>1. UNCHANGED <<opened, pc, staged, moved, target, at, fd, dead, files, manifest,
                    newManifest, text, mem>>
    BY <1>1 DEF vars, cascadeVars, storeVars, diskVars
  <2>2. KindInv' /\ Readable' /\ LossHasCause' /\ Listed' = Listed
    BY <2>1 DEF AloneInv, KindInv, Readable, LossHasCause, Listed
  <2>3. \A c \in Cascades : (Live(c) <=> Live(c)') /\ (Solo(c) => Solo(c)')
    BY <2>1, <2>2 DEF Live, Solo, Caused
  <2> QED
    BY <2>1, <2>2, <2>3 DEF AloneInv
<1>2. ASSUME NEW c \in Cascades, Commit(c)
      PROVE  AloneInv'
  BY <1>2, SessionAlone, FilesAlone, ManifestAlone DEF Commit
<1>3. ASSUME NEW c \in Cascades, Collect(c)
      PROVE  AloneInv'
  BY <1>3, CollectAlone, FilesAlone DEF Collect
<1> QED
  BY <1>1, <1>2, <1>3, OpenAlone, CrashAlone, SessionAlone, FilesAlone DEF Next

\* When commands follow one another, each in its own process, the manifest is
\* never torn or half-written, wherever a command crashed or failed and even
\* where a rename first removes its destination: the next open succeeds.
THEOREM CacheReadable == OneAtATime => (Spec => []ManifestReadable)
<1> SUFFICES ASSUME OneAtATime PROVE Spec => []ManifestReadable
  OBVIOUS
<1>1. TypeInv /\ AloneInv /\ [Next]_vars => (TypeInv /\ AloneInv)'
  BY TypeStep, AloneStep
<1>2. AloneInv => ManifestReadable
  BY DEF AloneInv, ManifestReadable
<1> QED
  BY InitTypes, InitAlone, <1>1, <1>2, PTL DEF Spec

\* Under the same assumption an entry that has lost its file is always the
\* trace of a command that did not finish.
THEOREM CacheLossHasCause == OneAtATime => (Spec => []LossHasCause)
<1> SUFFICES ASSUME OneAtATime PROVE Spec => []LossHasCause
  OBVIOUS
<1>1. TypeInv /\ AloneInv /\ [Next]_vars => (TypeInv /\ AloneInv)'
  BY TypeStep, AloneStep
<1>2. AloneInv => LossHasCause
  BY DEF AloneInv
<1> QED
  BY InitTypes, InitAlone, <1>1, <1>2, PTL DEF Spec

-----------------------------------------------------------------------------
(* What was committed stays, and the cache is a catalog.                   *)

\* The artifacts of a build that succeeded are kept, and listed unless dead.
DurableInv ==
    \A c \in Builders : pc[c] = "done" =>
        staged[c] \subseteq Kept /\ staged[c] \subseteq Listed \cup Dead

SequentialInv == SoundInv /\ AloneInv /\ DurableInv

\* Where rename replaces its destination, the manifest of the next command
\* lists all that was listed and not declared dead, in one step: the rename.
LEMMA ListedGrows ==
    ASSUME OneAtATime, ~SlowRename, SoundInv, AloneInv, [Next]_vars
    PROVE  \/ Listed' = Listed
           \/ \E c \in Cascades : /\ Swap(c)
                                  /\ Listed' = target[c]
                                  /\ Listed \subseteq target[c] \cup Dead
                                  /\ target[c] \subseteq Kept
<1>0. TypeOK /\ CascadeInv /\ KeptInv
  BY DEF SoundInv, TypeInv
<1>1. ASSUME UNCHANGED <<manifest, text>>
      PROVE  Listed' = Listed
  BY <1>1 DEF Listed
<1>2. ASSUME NEW c \in Cascades, CreateNew(c)
      PROVE  Listed' = Listed
  <2>1. (IF newManifest = None THEN c ELSE newManifest) # manifest
    BY <1>0, <1>2, LabelFacts, CacheAssumption DEF TypeOK, CascadeInv, CreateNew
  <2>2. manifest # None => manifest \in Cascades
    BY <1>0 DEF TypeOK
  <2>3. manifest' = manifest /\ (manifest # None => text'[manifest] = text[manifest])
    BY <1>0, <1>2, <2>1, <2>2 DEF CreateNew, TypeOK
  <2> QED
    BY <2>3 DEF Listed
<1>3. ASSUME NEW c \in Cascades, WriteNew(c)
      PROVE  Listed' = Listed
  <2>1. Solo(c) /\ pc[c] = "write"
    BY <1>3, RunningLive DEF WriteNew, Running, Committing
  <2>2. fd[c] \in Cascades /\ fd[c] # manifest
    BY <1>0, <2>1 DEF TypeOK, Solo
  <2>3. manifest' = manifest /\ (manifest # None => text'[manifest] = text[manifest])
    BY <1>0, <1>3, <2>2 DEF WriteNew, TypeOK
  <2> QED
    BY <2>3 DEF Listed
<1>4. ASSUME NEW c \in Cascades, Swap(c)
      PROVE  /\ Listed' = target[c]
             /\ Listed \subseteq target[c] \cup Dead
             /\ target[c] \subseteq Kept
  <2>1. Solo(c) /\ pc[c] = "swap"
    BY <1>4, RunningLive DEF Swap, Running, Committing
  <2>2. Listed' = target[c]
    BY <1>4, <2>1, TextTypes DEF Swap, Solo, Listed
  <2>3. mem[StoreOf[c]] = Listed
    BY <2>1 DEF Solo
  <2>4. Listed \subseteq target[c] \cup Dead
    BY <2>1, <2>3, KindFacts DEF Solo, Committing, Dead
  <2>5. target[c] \subseteq Kept
    BY <1>0, <2>1 DEF KeptInv
  <2> QED
    BY <2>2, <2>4, <2>5
<1>5. ASSUME NEW c \in Cascades, Commit(c), ~CreateNew(c), ~WriteNew(c), ~Swap(c)
      PROVE  UNCHANGED <<manifest, text>>
  BY <1>5 DEF Commit, CommitStart, MakeDir, ClearArtifact, Install, InstallEnd, ClearManifest,
              Publish, CommitFails, diskVars
<1>6. ASSUME NEW c \in Cascades, Collect(c)
      PROVE  UNCHANGED <<manifest, text>>
  BY <1>6 DEF Collect, GcMark, GcDelete, GcPrune, GcUnmark, GcFails, diskVars
<1>7. CASE UNCHANGED vars
  BY <1>1, <1>7 DEF vars, diskVars
<1>8. ASSUME NEW s \in Stores, Open(s) \/ Crash(s)
      PROVE  UNCHANGED <<manifest, text>>
  BY <1>8 DEF Open, Crash, diskVars
<1>9. ASSUME NEW c \in Cascades, Begin(c) \/ Abort(c) \/ \E h \in Artifacts : Stage(c, h)
      PROVE  UNCHANGED <<manifest, text>>
  BY <1>9 DEF Begin, Abort, Stage, diskVars
<1> QED
  BY <1>1, <1>2, <1>3, <1>4, <1>5, <1>6, <1>7, <1>8, <1>9 DEF Next

\* What is kept and what was declared dead only grows, an ended build's
\* artifacts are settled, and a build ends well by publishing.
LEMMA KeptGrows ==
    ASSUME ~SlowRename, SoundInv, [Next]_vars
    PROVE  /\ Kept \subseteq Kept' /\ Dead \subseteq Dead'
           /\ \A c \in Builders : pc'[c] = "done" =>
                 /\ staged'[c] = staged[c]
                 /\ pc[c] = "done" \/ Publish(c)
<1>0. TypeOK /\ CascadeInv /\ KeptInv
  BY DEF SoundInv, TypeInv
<1> USE KindFacts
<1>a. ASSUME UNCHANGED <<files, dead>>
      PROVE  Kept' = Kept /\ Dead' = Dead
  BY <1>a DEF Kept, Dead
<1>1. CASE UNCHANGED vars
  BY <1>1, <1>a DEF vars, cascadeVars, diskVars
<1>2. ASSUME NEW s \in Stores, Open(s) \/ Crash(s)
      PROVE  /\ UNCHANGED <<files, dead, staged>>
             /\ \A c \in Cascades : pc'[c] = "done" => pc[c] = "done"
  BY <1>2 DEF Open, Crash, diskVars
<1>3. ASSUME NEW c \in Cascades, NEW h \in Artifacts, Stage(c, h)
      PROVE  /\ UNCHANGED <<files, dead, pc>>
             /\ \A d \in Cascades : pc[d] = "done" => staged'[d] = staged[d]
  BY <1>0, <1>3 DEF Stage, diskVars, TypeOK
<1>4. ASSUME NEW c \in Cascades, NEW h \in Artifacts, GcDelete(c, h)
      PROVE  Kept' = Kept /\ Dead' = Dead /\ UNCHANGED <<pc, staged>>
  <2>1. c \in Collectors /\ h \in dead[c]
    BY <1>0, <1>4 DEF GcDelete, KeptInv, Collecting
  <2> QED
    BY <1>4, <2>1 DEF GcDelete, Kept, Dead
<1>5. ASSUME NEW c \in Cascades, NEW t \in {"Repo", "Cache"}, NEW garbage \in SUBSET Artifacts,
             GcMark(c, t, garbage)
      PROVE  /\ Kept \subseteq Kept' /\ Dead \subseteq Dead' /\ UNCHANGED staged
             /\ \A d \in Cascades : pc'[d] = "done" => pc[d] = "done"
  <2>1. dead[c] = {} /\ files' = files /\ \A d \in Cascades : d # c => dead'[d] = dead[d]
    BY <1>0, <1>5 DEF GcMark, CascadeInv, TypeOK
  <2>2. \A d \in Cascades : pc'[d] = "done" => pc[d] = "done"
    BY <1>0, <1>5 DEF GcMark, Goto, TypeOK
  <2> QED
    BY <1>5, <2>1, <2>2 DEF GcMark, Kept, Dead
<1>6. ASSUME NEW c \in Cascades, Install(c)
      PROVE  Kept \subseteq Kept' /\ Dead' = Dead /\ UNCHANGED <<pc, staged>>
  BY <1>6 DEF Install, Kept, Dead
<1>7. ASSUME NEW c \in Cascades,
             \/ Begin(c) \/ Abort(c) \/ CommitStart(c) \/ InstallEnd(c) \/ CreateNew(c)
             \/ WriteNew(c) \/ Swap(c) \/ CommitFails(c)
             \/ GcUnmark(c) \/ GcFails(c) \/ \E h \in Artifacts : GcPrune(c, h)
      PROVE  /\ UNCHANGED <<files, dead, staged>>
             /\ \A d \in Cascades : pc'[d] = "done" => pc[d] = "done"
  BY <1>0, <1>7 DEF Begin, Abort, CommitStart, InstallEnd, CreateNew, WriteNew, Swap, CommitFails,
                    GcPrune, GcUnmark, GcFails, Goto, TypeOK, diskVars
<1>8. ASSUME NEW c \in Cascades, NEW h \in Artifacts, MakeDir(c, h)
      PROVE  UNCHANGED <<files, dead, staged, pc>>
  BY <1>8 DEF MakeDir
<1>9. ASSUME NEW c \in Cascades, Publish(c)
      PROVE  /\ UNCHANGED <<files, dead, staged>>
             /\ \A d \in Cascades : pc'[d] = "done" => pc[d] = "done" \/ d = c
  BY <1>0, <1>9 DEF Publish, Goto, TypeOK
<1>10. ~(\E c \in Cascades : ClearArtifact(c) \/ ClearManifest(c))
  BY DEF ClearArtifact, ClearManifest
<1> QED
  BY <1>a, <1>1, <1>2, <1>3, <1>4, <1>5, <1>6, <1>7, <1>8, <1>9, <1>10 DEF Next, Commit, Collect

\* Every step keeps what was committed.
LEMMA DurableStep ==
    ASSUME OneAtATime, ~SlowRename, SequentialInv, [Next]_vars
    PROVE  DurableInv'
<1>0. SoundInv /\ AloneInv /\ DurableInv /\ TypeOK /\ KeptInv
  BY DEF SequentialInv, SoundInv, TypeInv
<1>1. Listed \subseteq Listed' \cup Dead'
  BY <1>0, ListedGrows, KeptGrows
<1> SUFFICES ASSUME NEW c \in Builders, pc'[c] = "done"
             PROVE  staged'[c] \subseteq Kept' /\ staged'[c] \subseteq Listed' \cup Dead'
  BY DEF DurableInv
<1>2. Kept \subseteq Kept' /\ Dead \subseteq Dead' /\ staged'[c] = staged[c]
  BY <1>0, KeptGrows
<1>3. CASE pc[c] = "done"
  BY <1>0, <1>1, <1>2, <1>3 DEF DurableInv
<1>4. CASE Publish(c)
  <2>1. Solo(c) /\ pc[c] = "publish"
    BY <1>0, <1>4, RunningLive, KindFacts DEF Publish, Running, Committing
  <2>2. Listed = target[c] /\ staged[c] \subseteq target[c]
    BY <2>1, TextTypes DEF Solo, Committing, Listed
  <2>3. staged[c] \subseteq Kept
    BY <1>0, <2>1, KindFacts DEF KeptInv
  <2> QED
    BY <1>1, <1>2, <2>2, <2>3
<1> QED
  BY <1>0, <1>3, <1>4, KeptGrows

\* The sequential invariant is inductive.
LEMMA SequentialStep ==
    ASSUME OneAtATime, ~SlowRename
    PROVE  SequentialInv /\ [Next]_vars => SequentialInv'
BY TypeStep, KeptStep, AloneStep, DurableStep DEF SequentialInv, SoundInv

\* The initial state satisfies it.
LEMMA InitSequential == Init => SequentialInv
<1> SUFFICES ASSUME Init PROVE SequentialInv
  OBVIOUS
<1>1. DurableInv
  BY KindFacts DEF Init, DurableInv
<1> QED
  BY <1>1, InitSound, InitAlone DEF SequentialInv

\* Commands that follow one another lose nothing: once a commit has returned
\* Ok its artifacts stay listed and installed until a collection declares
\* them dead, whatever crashes and failures end the commands in between.
THEOREM CacheDurable == OneAtATime /\ ~SlowRename => (Spec => []SuccessIsDurable)
<1> SUFFICES ASSUME OneAtATime, ~SlowRename PROVE Spec => []SuccessIsDurable
  OBVIOUS
<1>1. SequentialInv => SuccessIsDurable
  BY DEF SequentialInv, DurableInv, SuccessIsDurable, Kept
<1> QED
  BY InitSequential, SequentialStep, <1>1, PTL DEF Spec

\* The catalog's progress of the cascades after a step that moves one of them.
LEMMA ProgressFacts ==
    ASSUME TypeOK, NEW c \in Cascades, NEW l \in Labels, Goto(c, l)
    PROVE  /\ \A d \in Cascades : d # c => Progress'[d] = Progress[d]
           /\ l \in {"idle", "staging"} => Progress'[c] = "open"
           /\ l \in Committing \ {"publish"} => Progress'[c] = "committing"
           /\ l \in {"publish"} \cup Ended => Progress'[c] = "ended"
<1>1. /\ pc'[c] = l
      /\ \A d \in Cascades : d # c => pc'[d] = pc[d]
  BY GotoFacts
<1> QED
  BY <1>1 DEF Progress, Committing, Ended

\* A step that leaves the files and the manifest alone and moves one cascade
\* to a label of the same progress, or gives it up, is a step of the catalog.
LEMMA MovedOnly ==
    ASSUME TypeOK, NEW c \in Cascades, NEW l \in Labels, Goto(c, l),
           UNCHANGED <<files, Listed, staged>>,
           \/ l \in {"idle", "staging"} /\ Progress[c] = "open"
           \/ l \in Committing \ {"publish"} /\ Progress[c] \in {"open", "committing"}
           \/ l \in {"publish"} \cup Ended
    PROVE  [Catalog!CatalogNext]_(Catalog!catalogVars)
<1>0. Progress' = [d \in Cascades |-> Progress'[d]] /\ Progress = [d \in Cascades |-> Progress[d]]
  BY DEF Progress
<1>1. CASE l \in {"publish"} \cup Ended
  <2>1. Progress' = [d \in Cascades |-> IF d \in {c} THEN "ended" ELSE Progress[d]]
    BY <1>0, <1>1, ProgressFacts
  <2>2. Catalog!GiveUp({c})
    BY <2>1 DEF Catalog!GiveUp
  <2> QED
    BY <2>2 DEF Catalog!CatalogNext
<1>2. CASE l \in Committing \ {"publish"} /\ Progress[c] = "open"
  <2>1. Progress' = [Progress EXCEPT ![c] = "committing"]
    BY <1>0, <1>2, ProgressFacts
  <2>2. Catalog!Commit(c)
    BY <1>2, <2>1 DEF Catalog!Commit
  <2> QED
    BY <2>2 DEF Catalog!CatalogNext
<1>3. CASE \/ l \in {"idle", "staging"} /\ Progress[c] = "open"
           \/ l \in Committing \ {"publish"} /\ Progress[c] = "committing"
  <2>1. Progress' = Progress
    BY <1>0, <1>3, ProgressFacts
  <2> QED
    BY <2>1 DEF Catalog!catalogVars
<1> QED
  BY <1>1, <1>2, <1>3

\* Without collections, commands that follow one another implement the
\* catalog: whatever crashes and failures end them, the entries of a cascade
\* are listed all together, when all its files are installed, or not at all,
\* and no entry ever goes away.
THEOREM CacheImplementsCatalog ==
    OneAtATime /\ ~SlowRename /\ Collectors = {} => (Spec => ImplementsCatalog)
<1> SUFFICES ASSUME OneAtATime, ~SlowRename, Collectors = {} PROVE Spec => ImplementsCatalog
  OBVIOUS
<1>1. Init => Catalog!CatalogInit
  <2> SUFFICES ASSUME Init PROVE Catalog!CatalogInit
    OBVIOUS
  <2>1. \A c \in Cascades : pc[c] = "idle"
    BY DEF Init
  <2>2. Progress = [c \in Cascades |-> "open"]
    <3>1. \A c \in Cascades : Progress[c] = "open"
      BY <2>1 DEF Progress, Committing
    <3>2. Progress = [c \in Cascades |-> Progress[c]]
      BY DEF Progress
    <3> QED
      BY <3>1, <3>2
  <2>3. files = {} /\ Listed = {} /\ staged = [c \in Cascades |-> {}]
    BY DEF Init, Listed
  <2> QED
    BY <2>2, <2>3 DEF Catalog!CatalogInit
<1>2. ASSUME SequentialInv, [Next]_vars
      PROVE  [Catalog!CatalogNext]_(Catalog!catalogVars)
  <2>0. SoundInv /\ AloneInv /\ TypeOK /\ KeptInv
    BY <1>2 DEF SequentialInv, SoundInv, TypeInv
  <2>1. /\ \A l \in {"idle", "staging"} : \A c \in Cascades : pc[c] = l => Progress[c] = "open"
        /\ \A c \in Cascades : pc[c] \in Committing \ {"publish"} => Progress[c] = "committing"
        /\ {"staging", "install", "create", "write", "swap", "publish", "done", "failed",
            "aborted"} \subseteq Labels
    BY DEF Progress, Committing, Labels, Running, Ended
  <2>2. CASE UNCHANGED vars
    BY <2>2 DEF vars, cascadeVars, diskVars, Catalog!catalogVars, Listed, Progress
  <2>3. ASSUME NEW c \in Cascades, Collect(c) PROVE FALSE
    BY <2>0, <2>3, KindFacts
       DEF Collect, GcMark, GcDelete, GcPrune, GcUnmark, GcFails, Collecting, KeptInv
  <2>4. ASSUME NEW s \in Stores, Open(s) \/ Crash(s)
        PROVE  [Catalog!CatalogNext]_(Catalog!catalogVars)
    <3>1. UNCHANGED <<files, Listed, staged>>
      BY <2>4 DEF Open, Crash, diskVars, Listed
    <3>2. \A c \in Cascades : pc'[c] \in {pc[c]} \cup {"failed", "crashed"}
      BY <2>4 DEF Open, Crash
    <3> DEFINE S == {c \in Cascades : pc'[c] \in {"failed", "crashed"}}
    <3>3. Progress' = [c \in Cascades |-> IF c \in S THEN "ended" ELSE Progress[c]]
      BY <3>2 DEF Progress, Committing
    <3>4. Catalog!GiveUp(S) /\ S \in SUBSET Cascades
      BY <3>1, <3>3 DEF Catalog!GiveUp
    <3> QED
      BY <3>4 DEF Catalog!CatalogNext
  <2>5. ASSUME NEW c \in Cascades, NEW h \in Artifacts, Stage(c, h)
        PROVE  Catalog!Gather(c, h)
    BY <2>1, <2>5 DEF Stage, Catalog!Gather, diskVars, Listed, Progress
  <2>6. ASSUME NEW c \in Cascades, NEW h \in Artifacts, MakeDir(c, h)
        PROVE  UNCHANGED <<files, Listed, staged, Progress>>
    BY <2>6 DEF MakeDir, Listed, Progress
  <2>7. ASSUME NEW c \in Cascades, Install(c)
        PROVE  Catalog!Install(c, at[c]) /\ at[c] \in Artifacts
    <3>1. pc[c] = "install" /\ at[c] \in dirs /\ at[c] \in Artifacts
      BY <2>0, <2>7 DEF Install, TypeOK
    <3>2. at[c] \in staged[c]
      BY <1>2, <3>1, CacheAssumption DEF SequentialInv, SoundInv, TypeInv, CascadeInv
    <3>3. UNCHANGED <<Listed, staged, Progress>> /\ files' = files \cup {at[c]}
      BY <2>7 DEF Install, Listed, Progress
    <3> QED
      BY <2>1, <3>1, <3>2, <3>3 DEF Catalog!Install, Committing
  <2>8. ASSUME NEW c \in Cascades, Swap(c)
        PROVE  Catalog!Publish(c)
    <3>1. Live(c) /\ Solo(c) /\ pc[c] = "swap" /\ c \in Builders
      BY <2>0, <2>8, RunningLive, KindFacts DEF Swap, Running, Committing, AloneInv
    <3>2. /\ mem[StoreOf[c]] = Listed
          /\ target[c] = mem[StoreOf[c]] \cup staged[c]
          /\ staged[c] \subseteq files
          /\ newManifest # None /\ text[newManifest] = Whole(target[c])
      BY <3>1 DEF Solo, Committing
    <3>3. Listed' = target[c]
      BY <2>8, <3>2, TextTypes DEF Swap, Listed
    <3>4. Progress' = [Progress EXCEPT ![c] = "ended"]
      <4>1. /\ Progress = [d \in Cascades |-> Progress[d]]
            /\ Progress' = [d \in Cascades |-> Progress'[d]]
        BY DEF Progress
      <4>2. Goto(c, "publish")
        BY <2>8 DEF Swap
      <4>3. /\ Progress'[c] = "ended"
            /\ \A d \in Cascades : d # c => Progress'[d] = Progress[d]
        BY <2>0, <2>1, <4>2, ProgressFacts
      <4> QED
        BY <4>1, <4>3
    <3> QED
      BY <2>1, <2>8, <3>1, <3>2, <3>3, <3>4 DEF Catalog!Publish, Swap, Committing
  <2>9. ASSUME NEW c \in Cascades,
               \/ Begin(c) \/ Abort(c) \/ CommitStart(c) \/ InstallEnd(c) \/ CreateNew(c)
               \/ WriteNew(c) \/ Publish(c) \/ CommitFails(c)
        PROVE  [Catalog!CatalogNext]_(Catalog!catalogVars)
    <3>1. UNCHANGED <<files, staged>>
      BY <2>9 DEF Begin, Abort, CommitStart, InstallEnd, CreateNew, WriteNew, Publish,
                  CommitFails, diskVars
    <3>2. Listed' = Listed
      <4>1. ASSUME NEW d \in Cascades, Swap(d) PROVE FALSE
        BY <2>9, <4>1, CacheAssumption
           DEF Begin, Abort, CommitStart, InstallEnd, CreateNew, WriteNew, Publish, CommitFails,
               diskVars, Swap
      <4> QED
        BY <1>2, <2>0, <4>1, ListedGrows
    <3> QED
      BY <2>0, <2>1, <2>9, <3>1, <3>2, MovedOnly
         DEF Begin, Abort, CommitStart, InstallEnd, CreateNew, WriteNew, Publish,
             CommitFails, Committing, Ended
  <2>10. ~(\E c \in Cascades : ClearArtifact(c) \/ ClearManifest(c))
    BY DEF ClearArtifact, ClearManifest
  <2> QED
    BY <1>2, <2>2, <2>3, <2>4, <2>5, <2>6, <2>7, <2>8, <2>9, <2>10
       DEF Next, Commit, Catalog!CatalogNext, Catalog!catalogVars
<1> QED
  BY InitSequential, SequentialStep, <1>1, <1>2, PTL DEF Spec, ImplementsCatalog, Catalog!Spec

=============================================================================
