---------------------------- MODULE MCArchiveSave ----------------------------
(* Two saves of one record (one file name) and a save of another whose     *)
(* package breaks a limit of the reader; one load.                         *)
EXTENDS ArchiveSave, TLC
CONSTANTS s1, s2, s3, n1, n2
MCNameOf == (s1 :> n1) @@ (s2 :> n1) @@ (s3 :> n2)
=============================================================================
