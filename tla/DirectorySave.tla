----------------------------- MODULE DirectorySave -----------------------------
(***************************************************************************)
(* DirectoryStorage.save and DirectoryStorage.verify on one output         *)
(* directory.  A package is a directory, filled under a temporary name and *)
(* renamed; rename refuses a target that is a directory with files in it,  *)
(* so that, unlike an archive, a package is never replaced.  That is what  *)
(* its reader rests on: it opens every file by its path.                   *)
(*                                                                         *)
(* As in ArchiveSave each call may raise OSError, a KeyboardInterrupt may  *)
(* arrive and the process may be killed at any step, and a save names the  *)
(* directory it makes.                                                     *)
(***************************************************************************)
EXTENDS Integers

CONSTANTS
    Saves,      \* calls of DirectoryStorage.save
    Loads,      \* calls of DirectoryStorage.verify
    Names,      \* names of packages in the output directory
    NameOf,     \* the name of each save (a record saved twice has one name)
    NFiles,     \* files of a package, manifest.json included
    Oversized,  \* saves whose package exceeds a limit that load_files enforces
    NoSave      \* no package

ASSUME DirectoryAssumption ==
    /\ NameOf \in [Saves -> Names]
    /\ NFiles \in Nat \ {0}
    /\ Oversized \subseteq Saves
    /\ NoSave \notin Saves

VARIABLES
    pc,         \* pc[s]: the next step of save s
    temp,       \* temp[s]: what has become of s's temporary directory
    written,    \* written[s]: how many files s has written into it
    at,         \* at[n]: the save whose directory is named n
    outcome,    \* outcome[s]: how save s ends
    load        \* load[l]: a call of verify

saveVars == <<pc, temp, written, at, outcome>>
vars == <<pc, temp, written, at, outcome, load>>

BeforeTry == {"mkdir", "mkdtemp", "chmod"}
InTry == {"build", "write", "replace"}
Running == BeforeTry \cup InTry \cup {"cleanup"}

NewLoad == [step |-> "idle", name |-> NoSave, listed |-> 0, read |-> 0, got |-> {},
            result |-> "none"]

Init ==
    /\ pc = [s \in Saves |-> "mkdir"]
    /\ temp = [s \in Saves |-> "none"]
    /\ written = [s \in Saves |-> 0]
    /\ at = [n \in Names |-> NoSave]
    /\ outcome = [s \in Saves |-> "pending"]
    /\ load = [l \in Loads |-> NewLoad]

-----------------------------------------------------------------------------
(* save.                                                                   *)

Goto(s, step) == pc' = [pc EXCEPT ![s] = step]
End(s, step, how) == Goto(s, step) /\ outcome' = [outcome EXCEPT ![s] = how]

(* What is raised before the try leaves at once, after it through finally. *)
Leave(s, how) == End(s, "cleanup", how)
Stop(s, how) == End(s, "end", how)

Mkdir(s) ==
    /\ pc[s] = "mkdir"
    /\ \/ Goto(s, "mkdtemp") /\ UNCHANGED outcome
       \/ Stop(s, "storage_error")
    /\ UNCHANGED <<temp, written, at, load>>

(* No except clause turns an OSError of mkdtemp or of its chmod into a     *)
(* StorageError, and no finally clause removes the directory.              *)
MakeTemp(s) ==
    /\ pc[s] = "mkdtemp"
    /\ \/ Goto(s, "chmod") /\ temp' = [temp EXCEPT ![s] = "there"] /\ UNCHANGED outcome
       \/ Stop(s, "error") /\ UNCHANGED temp
    /\ UNCHANGED <<written, at, load>>

ChmodTemp(s) ==
    /\ pc[s] = "chmod"
    /\ \/ Goto(s, "build") /\ UNCHANGED outcome
       \/ Stop(s, "error")
    /\ UNCHANGED <<temp, written, at, load>>

(* Encoding the record may raise anything but OSError.                     *)
BuildFiles(s) ==
    /\ pc[s] = "build"
    /\ \/ Goto(s, "write") /\ UNCHANGED outcome
       \/ Leave(s, "error")
    /\ UNCHANGED <<temp, written, at, load>>

(* Variant: a file that cannot be written is skipped.                      *)
WriteFileLeniently(s) ==
    /\ pc[s] = "write"
    /\ \/ /\ written[s] < NFiles
          /\ written' = [written EXCEPT ![s] = @ + 1]
          /\ UNCHANGED <<pc, outcome>>
       \/ Goto(s, "replace") /\ UNCHANGED <<written, outcome>>
    /\ UNCHANGED <<temp, at, load>>

(* mkdir of the parent, write_bytes and chmod of one file.                 *)
WriteFile(s) ==
    /\ pc[s] = "write"
    /\ \/ /\ written[s] < NFiles
          /\ written' = [written EXCEPT ![s] = @ + 1]
          /\ UNCHANGED <<pc, outcome>>
       \/ written[s] = NFiles /\ Goto(s, "replace") /\ UNCHANGED <<written, outcome>>
       \/ Leave(s, "storage_error") /\ UNCHANGED written
    /\ UNCHANGED <<temp, at, load>>

(* Variant: what has the name is removed first.                            *)
ReplaceForced(s) ==
    /\ pc[s] = "replace"
    /\ at' = [at EXCEPT ![NameOf[s]] = s]
    /\ temp' = [temp EXCEPT ![s] = "moved"]
    /\ Leave(s, "stored")
    /\ UNCHANGED <<written, load>>

(* Variant: the package that has the name already will do.                 *)
ReplaceOnce(s) ==
    /\ pc[s] = "replace"
    /\ IF at[NameOf[s]] = NoSave
       THEN /\ at' = [at EXCEPT ![NameOf[s]] = s]
            /\ temp' = [temp EXCEPT ![s] = "moved"]
       ELSE UNCHANGED <<at, temp>>
    /\ Leave(s, "stored")
    /\ UNCHANGED <<written, load>>

Replace(s) ==
    /\ pc[s] = "replace"
    /\ \/ /\ at[NameOf[s]] = NoSave
          /\ at' = [at EXCEPT ![NameOf[s]] = s]
          /\ temp' = [temp EXCEPT ![s] = "moved"]
          /\ Leave(s, "stored")
       \/ Leave(s, "storage_error") /\ UNCHANGED <<temp, at>>
    /\ UNCHANGED <<written, load>>

(* Variant: the directory is kept when it is empty.                        *)
CleanupFilled(s) ==
    /\ pc[s] = "cleanup"
    /\ Goto(s, "end")
    /\ IF temp[s] = "there" /\ written[s] > 0
       THEN \E left \in {"removed", "stuck"} : temp' = [temp EXCEPT ![s] = left]
       ELSE UNCHANGED temp
    /\ UNCHANGED <<written, at, outcome, load>>

(* rmtree removes the directory or, errors ignored, leaves some of it.     *)
Cleanup(s) ==
    /\ pc[s] = "cleanup"
    /\ Goto(s, "end")
    /\ IF temp[s] = "there"
       THEN \E left \in {"removed", "stuck"} : temp' = [temp EXCEPT ![s] = left]
       ELSE UNCHANGED temp
    /\ UNCHANGED <<written, at, outcome, load>>

(* In the finally block temporary.exists() raises an OSError, which takes  *)
(* the place of what save was about to return or raise.                    *)
CheckFails(s) ==
    /\ pc[s] = "cleanup"
    /\ Stop(s, "check_error")
    /\ UNCHANGED <<temp, written, at, load>>

(* KeyboardInterrupt; in the midst of rmtree it leaves the rest there.     *)
Interrupt(s) ==
    /\ \/ pc[s] \in BeforeTry \cup {"cleanup"} /\ Stop(s, "interrupted")
       \/ pc[s] \in InTry /\ Leave(s, "interrupted")
    /\ UNCHANGED <<temp, written, at, load>>

(* The process is killed.                                                  *)
Crash(s) == pc[s] \in Running /\ Goto(s, "dead") /\ UNCHANGED <<temp, written, at, outcome, load>>

SaveStep(s) ==
    \/ Mkdir(s) \/ MakeTemp(s) \/ ChmodTemp(s) \/ BuildFiles(s) \/ WriteFile(s) \/ Replace(s)
    \/ Cleanup(s) \/ CheckFails(s) \/ Interrupt(s) \/ Crash(s)

-----------------------------------------------------------------------------
(* load_files and verify_files.                                            *)

Finish(l, how) == load' = [load EXCEPT ![l].step = "done", ![l].result = how]

(* lstat and scandir of the directory that has the name now.               *)
Scan(l, n) ==
    /\ load[l].step = "idle"
    /\ load' = IF at[n] = NoSave
               THEN [load EXCEPT ![l].step = "done", ![l].result = "unreadable"]
               ELSE [load EXCEPT ![l].step = "read", ![l].name = n, ![l].listed = written[at[n]]]
    /\ UNCHANGED saveVars

(* One file, through its path: its size against the limits, then its bytes. *)
(* A package beyond a limit is rejected at one of its files.                *)
ReadFile(l) ==
    /\ load[l].step = "read"
    /\ load[l].read < load[l].listed
    /\ LET s == at[load[l].name] IN
       \/ /\ s # NoSave
          /\ s \in Oversized => load[l].read + 1 < load[l].listed
          /\ load' = [load EXCEPT ![l].read = @ + 1, ![l].got = @ \cup {s}]
       \/ s \in Oversized /\ Finish(l, "rejected")
       \/ Finish(l, "unreadable")
    /\ UNCHANGED saveVars

(* The files are those the manifest declares, all of them, of one package. *)
VerifyFiles(l) ==
    /\ load[l].step = "read"
    /\ load[l].read = load[l].listed
    /\ LET agrees == load[l].listed = NFiles /\ \E s \in Saves : load[l].got = {s}
       IN Finish(l, IF agrees THEN "accepted" ELSE "rejected")
    /\ UNCHANGED saveVars

LoadStep(l) == (\E n \in Names : Scan(l, n)) \/ ReadFile(l) \/ VerifyFiles(l)

Next == (\E s \in Saves : SaveStep(s)) \/ (\E l \in Loads : LoadStep(l))

Spec == Init /\ [][Next]_vars

-----------------------------------------------------------------------------
(* Properties.                                                             *)

LoadRecord ==
    [step : {"idle", "read", "done"}, name : Names \cup {NoSave}, listed : 0..NFiles,
     read : 0..NFiles, got : SUBSET Saves,
     result : {"none", "unreadable", "rejected", "accepted"}]

(* Every variable has its type. *)
TypeOK ==
    /\ pc \in [Saves -> Running \cup {"end", "dead"}]
    /\ temp \in [Saves -> {"none", "there", "moved", "removed", "stuck"}]
    /\ written \in [Saves -> 0..NFiles]
    /\ at \in [Names -> Saves \cup {NoSave}]
    /\ outcome \in [Saves -> {"pending", "stored", "storage_error", "error", "check_error",
                           "interrupted"}]
    /\ load \in [Loads -> LoadRecord]

(* Of the saves of one record at most one answers "stored", and what is    *)
(* under its location is its own package, whole, from then on.             *)
StoredIsOwn ==
    \A s \in Saves : outcome[s] = "stored" => at[NameOf[s]] = s /\ written[s] = NFiles

(* A save that has returned or raised leaves its temporary directory only  *)
(* if it was interrupted, if rmtree could not remove it or the check for   *)
(* it failed, or if its chmod failed before the try.                       *)
TempAccountedFor ==
    \A s \in Saves : pc[s] = "end" /\ temp[s] = "there" =>
        \/ outcome[s] \in {"interrupted", "check_error"}
        \/ outcome[s] = "error" /\ written[s] = 0

(* A package that has appeared keeps its name and its files for good.      *)
PublishedForever ==
    [][/\ \A n \in Names : at[n] # NoSave => at'[n] = at[n]
       /\ \A s \in Saves : temp[s] = "moved" => temp'[s] = "moved" /\ written'[s] = written[s]
      ]_vars

(* A load that opens file after file by path still reads one package, the  *)
(* whole of it, and rejects none but those beyond its limits.              *)
LoadsAreWhole ==
    \A l \in Loads :
        /\ load[l].result = "accepted" =>
              \E s \in Saves : load[l].got = {s} /\ NameOf[s] = load[l].name /\ written[s] = NFiles
        /\ load[l].result = "rejected" => at[load[l].name] \in Oversized

(* The directory storage keeps the promises of PackageStore as well.       *)
Answer(s) ==
    IF pc[s] # "end" THEN "pending"
    ELSE IF outcome[s] = "stored" THEN "stored" ELSE "failed"

Store == INSTANCE PackageStore WITH
    shown <- at,
    published <- {s \in Saves : temp[s] = "moved"},
    answer <- [s \in Saves |-> Answer(s)]

ImplementsStore == Store!Spec
=============================================================================
