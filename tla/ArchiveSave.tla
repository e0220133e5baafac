----------------------------- MODULE ArchiveSave -----------------------------
(***************************************************************************)
(* ArchiveStorage.save and ArchiveStorage.verify on one output directory   *)
(* shared by any number of threads and processes.  A save writes a ZIP     *)
(* file under a temporary name and links it to its target with one         *)
(* os.replace; every call it makes to the file system may raise OSError, a *)
(* KeyboardInterrupt may arrive at any step, and its process may be killed *)
(* at any step.  A load opens the target once and reads it member by       *)
(* member while other saves replace it.                                    *)
(*                                                                         *)
(* A save makes at most one temporary file, and mkstemp never hands the    *)
(* same file to two saves, so a save names the inode it writes.            *)
(***************************************************************************)
EXTENDS Integers

CONSTANTS
    Saves,      \* calls of ArchiveStorage.save
    Loads,      \* calls of ArchiveStorage.verify
    Names,      \* file names in the output directory
    NameOf,     \* the file name of each save (a record saved twice has one name)
    NMembers,   \* ZIP members of a package, manifest.json included
    Oversized,  \* saves whose package exceeds a limit that load_files enforces
    NoSave      \* no file

ASSUME ArchiveAssumption ==
    /\ NameOf \in [Saves -> Names]
    /\ Names # {}
    /\ NMembers \in Nat \ {0}
    /\ Oversized \subseteq Saves
    /\ NoSave \notin Saves

VARIABLES
    pc,         \* pc[s]: the next step of save s
    temp,       \* temp[s]: the directory entry of s's temporary file
    known,      \* known[s]: the local variable `temporary` is set
    body,       \* body[s]: members written, and whether the ZIP directory is
    at,         \* at[n]: the save whose file the name n links to
    outcome,    \* outcome[s]: how save s ends
    load        \* load[l]: a call of verify

saveVars == <<pc, temp, known, body, at, outcome>>
vars == <<pc, temp, known, body, at, outcome, load>>

BeforeTry == {"mkdir", "build"}
InTry == {"mkstemp", "close", "chmod", "write", "replace", "chmodTarget"}
Running == BeforeTry \cup InTry \cup {"cleanup"}
Outcomes == {"pending", "stored", "storage_error", "error", "check_error", "interrupted"}

NewLoad == [step |-> "idle", name |-> CHOOSE n \in Names : TRUE, file |-> NoSave,
            listed |-> 0, read |-> 0, got |-> {}, result |-> "none"]

Init ==
    /\ pc = [s \in Saves |-> "mkdir"]
    /\ temp = [s \in Saves |-> "none"]
    /\ known = [s \in Saves |-> FALSE]
    /\ body = [s \in Saves |-> [written |-> 0, sealed |-> FALSE]]
    /\ at = [n \in Names |-> NoSave]
    /\ outcome = [s \in Saves |-> "pending"]
    /\ load = [l \in Loads |-> NewLoad]

-----------------------------------------------------------------------------
(* Control flow of a save.                                                 *)

Goto(s, step) == pc' = [pc EXCEPT ![s] = step]

(* An exception or a return inside the try: the finally block comes next.  *)
Leave(s, how) ==
    /\ Goto(s, "cleanup")
    /\ outcome' = [outcome EXCEPT ![s] = how]

(* An exception before the try: nothing is left to clean.                  *)
Stop(s, how) ==
    /\ Goto(s, "end")
    /\ outcome' = [outcome EXCEPT ![s] = how]

Mkdir(s) ==
    /\ pc[s] = "mkdir"
    /\ \/ Goto(s, "build") /\ UNCHANGED outcome
       \/ Stop(s, "storage_error")
    /\ UNCHANGED <<temp, known, body, at, load>>

(* Encoding the record, its hashes and the manifest raises no OSError but  *)
(* may raise anything else, which save lets through as it is.              *)
BuildFiles(s) ==
    /\ pc[s] = "build"
    /\ \/ Goto(s, "mkstemp") /\ UNCHANGED outcome
       \/ Stop(s, "error")
    /\ UNCHANGED <<temp, known, body, at, load>>

MakeTemp(s) ==
    /\ pc[s] = "mkstemp"
    /\ \/ Goto(s, "close") /\ temp' = [temp EXCEPT ![s] = "linked"] /\ UNCHANGED outcome
       \/ Leave(s, "storage_error") /\ UNCHANGED temp
    /\ UNCHANGED <<known, body, at, load>>

(* `temporary` is assigned only after os.close has returned.               *)
CloseDescriptor(s) ==
    /\ pc[s] = "close"
    /\ \/ Goto(s, "chmod") /\ known' = [known EXCEPT ![s] = TRUE] /\ UNCHANGED outcome
       \/ Leave(s, "storage_error") /\ UNCHANGED known
    /\ UNCHANGED <<temp, body, at, load>>

ChmodTemp(s) ==
    /\ pc[s] = "chmod"
    /\ \/ Goto(s, "write") /\ UNCHANGED outcome
       \/ Leave(s, "storage_error")
    /\ UNCHANGED <<temp, known, body, at, load>>

(* Variant: a member is written again after the last one.                  *)
WriteMemberAgain(s) ==
    /\ pc[s] = "write"
    /\ body' = [body EXCEPT ![s].written = @ + 1]
    /\ UNCHANGED <<pc, temp, known, at, outcome, load>>

WriteMember(s) ==
    /\ pc[s] = "write"
    /\ body[s].written < NMembers
    /\ body' = [body EXCEPT ![s].written = @ + 1]
    /\ UNCHANGED <<pc, temp, known, at, outcome, load>>

(* Variant: os.replace is called inside the with block.                    *)
SealTooLate(s) ==
    /\ pc[s] = "write"
    /\ body[s].written = NMembers
    /\ Goto(s, "replace")
    /\ UNCHANGED <<temp, known, body, at, outcome, load>>

(* The end of the with block writes the ZIP directory.                     *)
Seal(s) ==
    /\ pc[s] = "write"
    /\ body[s].written = NMembers
    /\ body' = [body EXCEPT ![s].sealed = TRUE]
    /\ Goto(s, "replace")
    /\ UNCHANGED <<temp, known, at, outcome, load>>

(* Opening, writing or closing the ZIP raises; leaving the with block      *)
(* writes a directory of the members so far, or fails at that too.         *)
WriteFails(s) ==
    /\ pc[s] = "write"
    /\ Leave(s, "storage_error")
    /\ \E sealed \in BOOLEAN : body' = [body EXCEPT ![s].sealed = sealed]
    /\ UNCHANGED <<temp, known, at, load>>

(* Variant: an OSError of os.replace is suppressed.                        *)
ReplaceSuppressed(s) ==
    /\ pc[s] = "replace"
    /\ Goto(s, "chmodTarget")
    /\ \/ at' = [at EXCEPT ![NameOf[s]] = s] /\ temp' = [temp EXCEPT ![s] = "moved"]
       \/ UNCHANGED <<at, temp>>
    /\ UNCHANGED <<known, body, outcome, load>>

(* Variant: the file name does not tell records apart.                     *)
ReplaceAnyName(s) ==
    /\ pc[s] = "replace"
    /\ Goto(s, "chmodTarget")
    /\ \E n \in Names : at' = [at EXCEPT ![n] = s]
    /\ temp' = [temp EXCEPT ![s] = "moved"]
    /\ UNCHANGED <<known, body, outcome, load>>

Replace(s) ==
    /\ pc[s] = "replace"
    /\ \/ /\ Goto(s, "chmodTarget")
          /\ at' = [at EXCEPT ![NameOf[s]] = s]
          /\ temp' = [temp EXCEPT ![s] = "moved"]
          /\ UNCHANGED outcome
       \/ Leave(s, "storage_error") /\ UNCHANGED <<temp, at>>
    /\ UNCHANGED <<known, body, load>>

(* The target is already in place when this chmod raises.                  *)
ChmodTarget(s) ==
    /\ pc[s] = "chmodTarget"
    /\ Leave(s, "stored") \/ Leave(s, "storage_error")
    /\ UNCHANGED <<temp, known, body, at, load>>

(* Variant: no finally block.                                              *)
CleanupForgets(s) ==
    /\ pc[s] = "cleanup"
    /\ Goto(s, "end")
    /\ UNCHANGED <<temp, known, body, at, outcome, load>>

(* Variant: a failing save removes its target as well.                     *)
CleanupTarget(s) ==
    /\ pc[s] = "cleanup"
    /\ Goto(s, "end")
    /\ at' = IF outcome[s] = "storage_error" THEN [at EXCEPT ![NameOf[s]] = NoSave] ELSE at
    /\ UNCHANGED <<temp, known, body, outcome, load>>

(* finally: unlink the temporary name if it is known and still there; an   *)
(* OSError is suppressed.                                                  *)
Cleanup(s) ==
    /\ pc[s] = "cleanup"
    /\ Goto(s, "end")
    /\ IF known[s] /\ temp[s] = "linked"
       THEN \E entry \in {"unlinked", "stuck"} : temp' = [temp EXCEPT ![s] = entry]
       ELSE UNCHANGED temp
    /\ UNCHANGED <<known, body, at, outcome, load>>

(* In the finally block, before the unlink and outside of what suppresses  *)
(* its errors, temporary.exists() raises an OSError, which takes the place *)
(* of what save was about to return or raise.                              *)
CheckFails(s) ==
    /\ pc[s] = "cleanup"
    /\ known[s]
    /\ Stop(s, "check_error")
    /\ UNCHANGED <<temp, known, body, at, load>>

(* KeyboardInterrupt: no except clause catches it, the finally block runs, *)
(* and inside the finally block nothing stops it.                          *)
Interrupt(s) ==
    /\ \/ pc[s] \in BeforeTry \cup {"cleanup"} /\ Stop(s, "interrupted")
       \/ pc[s] \in InTry /\ Leave(s, "interrupted")
    /\ UNCHANGED <<temp, known, body, at, load>>

(* The process is killed: no finally block runs and no caller is told.     *)
Crash(s) ==
    /\ pc[s] \in Running
    /\ Goto(s, "dead")
    /\ UNCHANGED <<temp, known, body, at, outcome, load>>

SaveStep(s) ==
    \/ Mkdir(s) \/ BuildFiles(s) \/ MakeTemp(s) \/ CloseDescriptor(s) \/ ChmodTemp(s)
    \/ WriteMember(s) \/ Seal(s) \/ WriteFails(s) \/ Replace(s) \/ ChmodTarget(s)
    \/ Cleanup(s) \/ CheckFails(s) \/ Interrupt(s) \/ Crash(s)

-----------------------------------------------------------------------------
(* load_files and verify_files.                                            *)

Finish(l, how) == load' = [load EXCEPT ![l].step = "done", ![l].result = how]

OpenFile(l, n) ==
    /\ load[l].step = "idle"
    /\ load' = IF at[n] = NoSave
               THEN [load EXCEPT ![l].name = n, ![l].step = "done", ![l].result = "missing"]
               ELSE [load EXCEPT ![l].name = n, ![l].step = "list", ![l].file = at[n]]
    /\ UNCHANGED saveVars

(* A ZIP without its directory is BadZipFile; every limit is checked on    *)
(* the directory before any content is read.                               *)
ListMembers(l) ==
    /\ load[l].step = "list"
    /\ LET zip == body[load[l].file] IN
       IF zip.sealed /\ load[l].file \notin Oversized
       THEN load' = [load EXCEPT ![l].step = "read", ![l].listed = zip.written]
       ELSE Finish(l, "rejected")
    /\ UNCHANGED saveVars

(* Variant: each member is read through the path again.                    *)
ReadMemberByPath(l) ==
    /\ load[l].step = "read"
    /\ load[l].read < load[l].listed
    /\ load' = [load EXCEPT ![l].read = @ + 1, ![l].got = @ \cup {at[load[l].name]}]
    /\ UNCHANGED saveVars

(* Every member comes from the file that was opened.                       *)
ReadMember(l) ==
    /\ load[l].step = "read"
    /\ load[l].read < load[l].listed
    /\ load' = [load EXCEPT ![l].read = @ + 1, ![l].got = @ \cup {load[l].file}]
    /\ UNCHANGED saveVars

(* verify_files: the members are those the manifest declares, and every    *)
(* hash in the manifest matches.                                           *)
VerifyFiles(l) ==
    /\ load[l].step = "read"
    /\ load[l].read = load[l].listed
    /\ LET agrees == load[l].listed = NMembers /\ \E s \in Saves : load[l].got = {s}
       IN Finish(l, IF agrees THEN "accepted" ELSE "rejected")
    /\ UNCHANGED saveVars

(* An OSError while the file is opened or read.                            *)
LoadFails(l) ==
    /\ load[l].step \in {"list", "read"}
    /\ Finish(l, "unreadable")
    /\ UNCHANGED saveVars

LoadStep(l) ==
    \/ \E n \in Names : OpenFile(l, n)
    \/ ListMembers(l) \/ ReadMember(l) \/ VerifyFiles(l) \/ LoadFails(l)

Next == (\E s \in Saves : SaveStep(s)) \/ (\E l \in Loads : LoadStep(l))

Spec == Init /\ [][Next]_vars

-----------------------------------------------------------------------------
(* Properties.                                                             *)

LoadRecord ==
    [step : {"idle", "list", "read", "done"}, name : Names, file : Saves \cup {NoSave},
     listed : 0..NMembers, read : 0..NMembers, got : SUBSET Saves,
     result : {"none", "missing", "rejected", "unreadable", "accepted"}]

(* Every variable has its type. *)
TypeOK ==
    /\ pc \in [Saves -> Running \cup {"end", "dead"}]
    /\ temp \in [Saves -> {"none", "linked", "moved", "unlinked", "stuck"}]
    /\ known \in [Saves -> BOOLEAN]
    /\ body \in [Saves -> [written : 0..NMembers, sealed : BOOLEAN]]
    /\ at \in [Names -> Saves \cup {NoSave}]
    /\ outcome \in [Saves -> Outcomes]
    /\ load \in [Loads -> LoadRecord]

Complete(s) == body[s].written = NMembers /\ body[s].sealed

(* A package name never links to a half-written file, at whatever step a   *)
(* save failed, was interrupted or was killed (README, "atomic writes").   *)
PublishedComplete ==
    \A n \in Names : at[n] # NoSave =>
        NameOf[at[n]] = n /\ temp[at[n]] = "moved" /\ Complete(at[n])

(* When save has returned a StoredFailure, a whole package is found under  *)
(* its location from then on, its own or a later save's of the same name.  *)
StoredIsThere ==
    \A s \in Saves : pc[s] \in {"cleanup", "end"} /\ outcome[s] = "stored" =>
        at[NameOf[s]] # NoSave /\ Complete(at[NameOf[s]])

(* A save that has returned or raised leaves a temporary file only if an   *)
(* interrupt cut it short, os.close failed before `temporary` was assigned *)
(* or the check for the file or its unlink failed; a stored one never does. *)
TempAccountedFor ==
    \A s \in Saves : pc[s] = "end" /\ temp[s] \in {"linked", "stuck"} =>
        /\ outcome[s] # "stored"
        /\ temp[s] = "linked" => outcome[s] \in {"interrupted", "check_error"} \/ ~known[s]

(* A load that races any number of saves yields members of one package     *)
(* only, the whole of it, and rejects none but those beyond its limits.    *)
LoadsAreWhole ==
    \A l \in Loads :
        /\ load[l].got \subseteq {load[l].file}
        /\ load[l].result = "accepted" =>
              NameOf[load[l].file] = load[l].name /\ Complete(load[l].file)
        /\ load[l].result = "rejected" => load[l].file \in Oversized

(* No step empties a name or alters a file that has been published: a      *)
(* failing save never damages an earlier package of the same name.         *)
PublishedStays ==
    [][/\ \A n \in Names : at[n] # NoSave => at'[n] # NoSave
       /\ \A s \in Saves : temp[s] = "moved" => temp'[s] = "moved" /\ body'[s] = body[s]
      ]_vars

(* What the store promises, whatever its steps: see PackageStore.          *)
Answer(s) ==
    IF pc[s] # "end" THEN "pending"
    ELSE IF outcome[s] = "stored" THEN "stored" ELSE "failed"

Store == INSTANCE PackageStore WITH
    shown <- at,
    published <- {s \in Saves : temp[s] = "moved"},
    answer <- [s \in Saves |-> Answer(s)]

ImplementsStore == Store!Spec
=============================================================================
