--------------------------- MODULE MCDirectorySave ---------------------------
(* Two saves of one record, a save of another beyond a limit; one load.    *)
EXTENDS DirectorySave, TLC
CONSTANTS s1, s2, s3, n1, n2
MCNameOf == (s1 :> n1) @@ (s2 :> n1) @@ (s3 :> n2)
=============================================================================
