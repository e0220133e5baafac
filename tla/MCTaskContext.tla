---------------------------- MODULE MCTaskContext ----------------------------
(* Two tasks, the second spawned by the first, two keys.                   *)
EXTENDS TaskContext
CONSTANTS t1, t2, k1, k2
Symmetric == Permutations(Keys)
=============================================================================
