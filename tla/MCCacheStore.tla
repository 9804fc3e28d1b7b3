---------------------------- MODULE MCCacheStore ----------------------------
(* Instances of CacheStore for TLC: who runs on which Store.               *)
EXTENDS CacheStore, TLC

CONSTANTS b1, b2, b3, k1, s1, s2, s3, x, y

\* Every cascade is the command of one process.
OwnStores == (b1 :> s1) @@ (b2 :> s2) @@ (b3 :> s3)

\* Two threads of one process share a Store, a collection has its own.
SharedStore == (b1 :> s1) @@ (b2 :> s1) @@ (k1 :> s2)

\* Two builds and a collection.
WithCollector == (b1 :> s1) @@ (b2 :> s2) @@ (k1 :> s3)
=============================================================================
