--------------------------- MODULE MCSingletonLock ---------------------------
(* Launches of daemond and enough inodes for each to create its own. *)
EXTENDS SingletonLock, TLC

Symmetry == Permutations(Instances) \cup Permutations(Inodes)
=============================================================================
