---------------------------- MODULE PackageStore ----------------------------
(***************************************************************************)
(* What a directory of TraceSeed packages promises, whatever the steps a   *)
(* save takes: a name shows either nothing or the whole package of one     *)
(* save; a package appears in one step and a name is never emptied; a save *)
(* that answers "stored" has put its package there, and one that fails has *)
(* damaged nothing (the README's "atomic writes").  A save may fail after  *)
(* its package has appeared: that much the code does not promise.          *)
(***************************************************************************)
CONSTANTS
    Saves,      \* the calls of Storage.save, in whatever thread or process
    Names,      \* the names of packages in the output directory
    NameOf,     \* the name each save gives its package
    NoSave      \* "no package here"

VARIABLES
    shown,      \* shown[n]: the save whose package a reader of n is given
    published,  \* the saves whose package has appeared
    answer      \* answer[s]: what the caller of save s has been told

vars == <<shown, published, answer>>

Init ==
    /\ shown = [n \in Names |-> NoSave]
    /\ published = {}
    /\ answer = [s \in Saves |-> "pending"]

(* The package of s appears, whole, in place of what its name showed. *)
Publish(s) ==
    /\ answer[s] = "pending"
    /\ s \notin published
    /\ shown' = [shown EXCEPT ![NameOf[s]] = s]
    /\ published' = published \cup {s}
    /\ UNCHANGED answer

(* Only a save whose package has appeared may answer "stored". *)
AnswerStored(s) ==
    /\ answer[s] = "pending"
    /\ s \in published
    /\ answer' = [answer EXCEPT ![s] = "stored"]
    /\ UNCHANGED <<shown, published>>

AnswerFailed(s) ==
    /\ answer[s] = "pending"
    /\ answer' = [answer EXCEPT ![s] = "failed"]
    /\ UNCHANGED <<shown, published>>

Next == \E s \in Saves : Publish(s) \/ AnswerStored(s) \/ AnswerFailed(s)

Spec == Init /\ [][Next]_vars
=============================================================================
