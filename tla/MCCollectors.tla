----------------------------- MODULE MCCollectors -----------------------------
(* Two collectors, named x and y; the name of the second may fail to be    *)
(* read, which makes it z, so that it may be registered more than once; a  *)
(* capturing thread and one that only registers and unregisters.  A        *)
(* collector returns the key k, or the name of the first.                  *)
EXTENDS Collectors, TLC
CONSTANTS t1, t2, c1, c2, x, y, z, k
MCNameOf == (c1 :> x) @@ (c2 :> y)
MCResults == {{<<k, 1>>}, {<<x, 1>>}}
=============================================================================
