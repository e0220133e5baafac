---------------------------- MODULE MCCaptureFlow ----------------------------
(* Two tasks, the first nesting layers two deep, the second one deep; two  *)
(* exceptions raised in all.                                               *)
EXTENDS CaptureFlow, TLC
CONSTANTS t1, t2
MCMaxDepth == (t1 :> 2) @@ (t2 :> 1)
=============================================================================
