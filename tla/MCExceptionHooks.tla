--------------------------- MODULE MCExceptionHooks ---------------------------
(* The interpreter's two hooks and one loop, one exception after another,  *)
(* and a program that changes hooks three times: enough to take a hook,    *)
(* put it back later and change something in between.                      *)
EXTENDS ExceptionHooks
=============================================================================
