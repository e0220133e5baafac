--------------------------- MODULE MCConfiguration ---------------------------
(* Three threads and the three limits that depend on each other, with one  *)
(* value too small, as values of another type are.                         *)
EXTENDS Configuration, TLC
CONSTANTS t1, t2, t3, manifest, file, total
MCMinimum == [f \in Fields |-> 1]
MCAtMost == {<<manifest, file>>, <<file, total>>}
MCDefault == [f \in Fields |-> IF f = manifest THEN 1 ELSE 2]
MCSymmetry == Permutations(Threads)
=============================================================================
