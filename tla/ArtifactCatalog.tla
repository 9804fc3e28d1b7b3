--------------------------- MODULE ArtifactCatalog ---------------------------
(***************************************************************************)
(* What the cache promises its readers: a catalog in which the entries of  *)
(* a cascade appear all together or not at all, only after the files they  *)
(* stand for, and for good.                                                *)
(***************************************************************************)
CONSTANTS Artifacts, Cascades

VARIABLES installed,  \* the artifacts whose file can be read
          listed,     \* the artifacts in the catalog
          cascade,    \* the artifacts each cascade has gathered
          progress    \* "open", "committing" or "ended", of each cascade

catalogVars == <<installed, listed, cascade, progress>>

CatalogInit ==
    /\ installed = {} /\ listed = {}
    /\ cascade = [c \in Cascades |-> {}]
    /\ progress = [c \in Cascades |-> "open"]

Gather(c, h) ==
    /\ progress[c] = "open"
    /\ cascade' = [cascade EXCEPT ![c] = @ \cup {h}]
    /\ UNCHANGED <<installed, listed, progress>>

\* From here on the cascade is fixed.
Commit(c) ==
    /\ progress[c] = "open"
    /\ progress' = [progress EXCEPT ![c] = "committing"]
    /\ UNCHANGED <<installed, listed, cascade>>

Install(c, h) ==
    /\ progress[c] = "committing" /\ h \in cascade[c]
    /\ installed' = installed \cup {h}
    /\ UNCHANGED <<listed, cascade, progress>>

\* The whole cascade is listed, once all of it is installed.
Publish(c) ==
    /\ progress[c] = "committing" /\ cascade[c] \subseteq installed
    /\ listed' = listed \cup cascade[c]
    /\ progress' = [progress EXCEPT ![c] = "ended"]
    /\ UNCHANGED <<installed, cascade>>

\* Cascades end and nothing of them is listed from now on.
GiveUp(S) ==
    /\ progress' = [c \in Cascades |-> IF c \in S THEN "ended" ELSE progress[c]]
    /\ UNCHANGED <<installed, listed, cascade>>

CatalogNext ==
    \/ \E c \in Cascades :
          \/ Commit(c) \/ Publish(c)
          \/ \E h \in Artifacts : Gather(c, h) \/ Install(c, h)
    \/ \E S \in SUBSET Cascades : GiveUp(S)

Spec == CatalogInit /\ [][CatalogNext]_catalogVars
=============================================================================
