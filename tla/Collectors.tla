------------------------------ MODULE Collectors ------------------------------
(***************************************************************************)
(* CollectorRegistry and its use through register_collector,               *)
(* unregister_collector and CaptureEngine: threads register and unregister *)
(* collectors under one lock while captures run the collectors of a        *)
(* snapshot and merge what they return into the extensions of the record.  *)
(*                                                                         *)
(* A key of the extensions is a pair <<b, 1>> for the string b and <<b, n>>*)
(* for the string "b-n", so that the names a merge makes up and the keys   *)
(* collectors return live in one set, as they do in the code.              *)
(***************************************************************************)
EXTENDS Integers, Sequences, FiniteSets

CONSTANTS
    Threads,
    Capturers,  \* the threads that capture; all may register and unregister
    Collectors, \* collector objects
    Bases,      \* strings: names of collectors and keys they return
    NameOf,     \* the name of each collector
    Unstable,   \* collectors whose name may fail to be read at any time
    Fallback,   \* the name of a collector whose own name cannot be read
    Results,    \* the sets of keys a collector may return
    MaxSuffix,  \* bound on the suffixes a merge makes up
    MaxRegistered, \* bound on the collectors registered at a time
    NoThread, NoCollector

Keys == Bases \X (1..MaxSuffix)

ASSUME CollectorsAssumption ==
    /\ Capturers \subseteq Threads
    /\ NameOf \in [Collectors -> Bases]
    /\ Unstable \subseteq Collectors
    /\ Fallback \in Bases
    /\ Results \subseteq SUBSET Keys
    /\ MaxSuffix \in Nat \ {0}
    /\ MaxRegistered \in Nat
    /\ NoThread \notin Threads
    /\ NoCollector \notin Collectors

VARIABLES
    registered, \* _collectors: a sequence, for the order is kept
    lock,       \* the thread that holds _registry_lock
    phase,      \* phase[t]: where thread t is
    subject,    \* subject[t]: the collector t registers, or the name it unregisters
    retained,   \* retained[t]: what t's unregister keeps
    snapshot,   \* snapshot[t]: the collectors t's capture is to run
    ran,        \* ran[t]: how many of them it is through with
    successful, \* successful[t]: names and results, in order, and whose they are
    errors,     \* errors[t]: whose errors there are, and their kinds
    merged,     \* merged[t]: how many results t has merged
    extensions  \* extensions[t]: for each key, whose value it has

registryVars == <<registered, lock, subject, retained>>
captureVars == <<snapshot, ran, successful, errors, merged, extensions>>
vars == <<registered, lock, phase, subject, retained, snapshot, ran, successful, errors,
          merged, extensions>>

Absent == [result |-> 0, whole |-> FALSE]
NoExtensions == [k \in Keys |-> Absent]

Init ==
    /\ registered = <<>>
    /\ lock = NoThread
    /\ phase = [t \in Threads |-> "idle"]
    /\ subject = [t \in Threads |-> NoCollector]
    /\ retained = [t \in Threads |-> <<>>]
    /\ snapshot = [t \in Threads |-> <<>>]
    /\ ran = [t \in Threads |-> 0]
    /\ successful = [t \in Threads |-> <<>>]
    /\ errors = [t \in Threads |-> {}]
    /\ merged = [t \in Threads |-> 0]
    /\ extensions = [t \in Threads |-> NoExtensions]

Goto(t, step) == phase' = [phase EXCEPT ![t] = step]
Members(seq) == {seq[i] : i \in DOMAIN seq}

(* The names read from a list of collectors, when those of some of them    *)
(* fail to be read.                                                        *)
MayFail(list) == {n \in DOMAIN list : list[n] \in Unstable}
ReadName(list, failing, n) == IF n \in failing THEN Fallback ELSE NameOf[list[n]]

-----------------------------------------------------------------------------
(* Registration.                                                           *)

NameIsFree(c) ==
    \E failing \in SUBSET MayFail(registered) :
        \A n \in DOMAIN registered : ReadName(registered, failing, n) # NameOf[c]

(* Variant: register_collector takes no lock.                              *)
RegisterUnlocked(t, c) ==
    /\ phase[t] = "idle"
    /\ Len(registered) < MaxRegistered
    /\ NameIsFree(c)
    /\ subject' = [subject EXCEPT ![t] = c]
    /\ Goto(t, "append")
    /\ UNCHANGED <<registered, lock, retained, captureVars>>

(* Under the lock, a name that cannot be read or is taken raises           *)
(* ValueError: register_collector knows no replace=True, which             *)
(* docs/EXTENDING.md tells to pass.  The name of c and those of the        *)
(* registered collectors are read by calling the program, so that other    *)
(* threads run meanwhile.                                                  *)
RegisterCheck(t, c) ==
    /\ phase[t] = "idle"
    /\ lock = NoThread
    /\ lock' = t
    /\ \/ /\ Len(registered) < MaxRegistered
          /\ NameIsFree(c)
          /\ subject' = [subject EXCEPT ![t] = c]
          /\ Goto(t, "append")
       \/ Goto(t, "refuse") /\ UNCHANGED subject
    /\ UNCHANGED <<registered, retained, captureVars>>

(* Variant: the call waits, with the lock, for the name to come free.      *)
RefuseWaits(t) == phase[t] = "refuse" /\ UNCHANGED vars

(* The ValueError leaves the with statement, which gives the lock back.    *)
RegisterRefuse(t) ==
    /\ phase[t] = "refuse"
    /\ lock' = NoThread
    /\ Goto(t, "idle")
    /\ UNCHANGED <<registered, subject, retained, captureVars>>

RegisterAppend(t) ==
    /\ phase[t] = "append"
    /\ registered' = Append(registered, subject[t])
    /\ lock' = NoThread
    /\ subject' = [subject EXCEPT ![t] = NoCollector]
    /\ Goto(t, "idle")
    /\ UNCHANGED <<retained, captureVars>>

(* What is left of a list of collectors when those of a name are taken out *)
(* of it: the members of the rest, in their order.                         *)
Without(list, failing, name) ==
    LET kept[n \in 0..Len(list)] ==
            IF n = 0 THEN <<>>
            ELSE IF ReadName(list, failing, n) # name THEN Append(kept[n - 1], list[n])
            ELSE kept[n - 1]
    IN  kept[Len(list)]

Retain(t, name) ==
    /\ \E failing \in SUBSET MayFail(registered) :
          retained' = [retained EXCEPT ![t] = Without(registered, failing, name)]
    /\ subject' = [subject EXCEPT ![t] = name]
    /\ Goto(t, "assign")
    /\ UNCHANGED <<registered, captureVars>>

(* Variant: unregister_collector takes no lock.                            *)
UnregisterUnlocked(t, name) == phase[t] = "idle" /\ Retain(t, name) /\ UNCHANGED lock

(* Under the lock, every collector of another name is kept.                *)
UnregisterFilter(t, name) ==
    /\ phase[t] = "idle"
    /\ lock = NoThread
    /\ lock' = t
    /\ Retain(t, name)

UnregisterAssign(t) ==
    /\ phase[t] = "assign"
    /\ registered' = retained[t]
    /\ lock' = NoThread
    /\ retained' = [retained EXCEPT ![t] = <<>>]
    /\ subject' = [subject EXCEPT ![t] = NoCollector]
    /\ Goto(t, "idle")
    /\ UNCHANGED captureVars

-----------------------------------------------------------------------------
(* A capture's run of the collectors.  It takes no lock: the snapshot is a *)
(* tuple of the list as it is.                                             *)

Snapshot(t) ==
    /\ phase[t] = "idle"
    /\ t \in Capturers
    /\ registered # <<>>
    /\ snapshot' = [snapshot EXCEPT ![t] = registered]
    /\ Goto(t, "collect")
    /\ UNCHANGED <<registryVars, ran, successful, errors, merged, extensions>>

Current(t) == ran[t] + 1
Unnamed(t, name) == IF name = NameOf[snapshot[t][Current(t)]] THEN {} ELSE {<<Current(t), "name">>}

(* The current collector returns a dictionary, and is read the name name.  *)
Succeeds(t, name) ==
    /\ \E keys \in Results :
          successful' = [successful EXCEPT ![t] =
             Append(@, [at |-> Current(t), name |-> name, keys |-> keys])]
    /\ errors' = [errors EXCEPT ![t] = @ \cup Unnamed(t, name)]

(* It raises, or returns no dictionary or one with a key that is no string. *)
Fails(t, name) ==
    /\ errors' = [errors EXCEPT ![t] = @ \cup Unnamed(t, name) \cup {<<Current(t), "result">>}]
    /\ UNCHANGED successful

NamesOf(c) == {NameOf[c]} \cup (IF c \in Unstable THEN {Fallback} ELSE {})

(* Variant: the loop is left, and not continued, at an error.              *)
CollectBreaks(t) ==
    /\ phase[t] = "collect"
    /\ ran[t] < Len(snapshot[t])
    /\ \E name \in NamesOf(snapshot[t][Current(t)]) :
          \/ Succeeds(t, name) /\ ran' = [ran EXCEPT ![t] = @ + 1]
          \/ Fails(t, name) /\ ran' = [ran EXCEPT ![t] = Len(snapshot[t])]
    /\ UNCHANGED <<registryVars, phase, snapshot, merged, extensions>>

Collect(t) ==
    /\ phase[t] = "collect"
    /\ ran[t] < Len(snapshot[t])
    /\ ran' = [ran EXCEPT ![t] = @ + 1]
    /\ \E name \in NamesOf(snapshot[t][Current(t)]) : Succeeds(t, name) \/ Fails(t, name)
    /\ UNCHANGED <<registryVars, phase, snapshot, merged, extensions>>

(* All collectors have run: the results are counted and merged in order.   *)
StartMerge(t) ==
    /\ phase[t] = "collect"
    /\ ran[t] = Len(snapshot[t])
    /\ Goto(t, "merge")
    /\ UNCHANGED <<registryVars, captureVars>>

KeyCount(t, k) == Cardinality({i \in DOMAIN successful[t] : k \in successful[t][i].keys})

(* A result shares a key with another.                                     *)
Conflicts(t, i) == \E k \in successful[t][i].keys : KeyCount(t, k) > 1

Free(t, b) == {n \in 1..MaxSuffix : extensions[t][<<b, n>>] = Absent}

(* Variant: the name is used whether or not it is taken.                   *)
TakenName(t, b) == <<b, 1>>

SafeName(t, b) == <<b, CHOOSE n \in Free(t, b) : \A m \in Free(t, b) : n <= m>>

(* A result in conflict goes whole under the collector's name, with a      *)
(* suffix if that is taken; any other adds its keys to the extensions.     *)
MergeOne(t) ==
    /\ phase[t] = "merge"
    /\ merged[t] < Len(successful[t])
    /\ merged' = [merged EXCEPT ![t] = @ + 1]
    /\ LET i == merged[t] + 1
           r == successful[t][i]
       IN IF Conflicts(t, i)
          THEN /\ Free(t, r.name) # {}
               /\ extensions' = [extensions EXCEPT ![t][SafeName(t, r.name)] =
                                    [result |-> i, whole |-> TRUE]]
          ELSE extensions' = [extensions EXCEPT ![t] =
                  [k \in Keys |-> IF k \in r.keys THEN [result |-> i, whole |-> FALSE] ELSE @[k]]]
    /\ UNCHANGED <<registryVars, phase, snapshot, ran, successful, errors>>

FinishMerge(t) ==
    /\ phase[t] = "merge"
    /\ merged[t] = Len(successful[t])
    /\ Goto(t, "done")
    /\ UNCHANGED <<registryVars, captureVars>>

Clear(t) ==
    /\ Goto(t, "idle")
    /\ snapshot' = [snapshot EXCEPT ![t] = <<>>]
    /\ ran' = [ran EXCEPT ![t] = 0]
    /\ successful' = [successful EXCEPT ![t] = <<>>]
    /\ errors' = [errors EXCEPT ![t] = {}]
    /\ merged' = [merged EXCEPT ![t] = 0]
    /\ extensions' = [extensions EXCEPT ![t] = NoExtensions]
    /\ UNCHANGED registryVars

(* The engine has taken the extensions; or an exception that is no         *)
(* Exception left a collector and ended the capture.                       *)
RunReturns(t) == phase[t] = "done" /\ Clear(t)
RunInterrupted(t) == phase[t] = "collect" /\ Clear(t)

Next ==
    \E t \in Threads :
        \/ \E c \in Collectors : RegisterCheck(t, c)
        \/ RegisterAppend(t) \/ RegisterRefuse(t)
        \/ \E name \in {NameOf[c] : c \in Collectors} \cup {Fallback} : UnregisterFilter(t, name)
        \/ UnregisterAssign(t)
        \/ Snapshot(t) \/ Collect(t) \/ StartMerge(t) \/ MergeOne(t) \/ FinishMerge(t)
        \/ RunReturns(t) \/ RunInterrupted(t)

Spec == Init /\ [][Next]_vars

(* The next step of the call thread t is in, whatever the call.            *)
Continue(t) ==
    \/ RegisterAppend(t) \/ RegisterRefuse(t) \/ UnregisterAssign(t)
    \/ Collect(t) \/ StartMerge(t) \/ MergeOne(t) \/ FinishMerge(t) \/ RunReturns(t)

(* A thread that is inside a call is scheduled again and goes on: none of  *)
(* these steps waits for a lock, and the program's collectors return.  It  *)
(* is not said that a thread ever makes a call, nor that a thread that     *)
(* wants the lock gets it: threading.RLock promises no order.              *)
FairSpec == Spec /\ \A t \in Threads : WF_vars(Continue(t))

-----------------------------------------------------------------------------
(* Properties.                                                             *)

Success == [at : Nat, name : Bases, keys : Results]

(* Every variable has its type. *)
TypeOK ==
    /\ registered \in Seq(Collectors)
    /\ lock \in Threads \cup {NoThread}
    /\ phase \in [Threads -> {"idle", "append", "refuse", "assign", "collect", "merge", "done"}]
    /\ subject \in [Threads -> Collectors \cup Bases \cup {NoCollector}]
    /\ retained \in [Threads -> Seq(Collectors)]
    /\ snapshot \in [Threads -> Seq(Collectors)]
    /\ ran \in [Threads -> Nat]
    /\ successful \in [Threads -> Seq(Success)]
    /\ errors \in [Threads -> SUBSET (Nat \X {"name", "result"})]
    /\ merged \in [Threads -> Nat]
    /\ extensions \in [Threads -> [Keys -> [result : Nat, whole : BOOLEAN]]]

(* No two registered collectors have one name, though threads register and *)
(* unregister at the same time, unless the name of the first of the two    *)
(* may fail to be read.                                                    *)
NamesUnique ==
    \A i, j \in DOMAIN registered :
        i < j /\ registered[i] \notin Unstable => NameOf[registered[i]] # NameOf[registered[j]]

(* A registered collector stays until a name it may be read is             *)
(* unregistered: no concurrent call loses a registration, and none takes   *)
(* the place of another of its name, which docs/EXTENDING.md promises of   *)
(* replace=True and the code does not have.                                *)
RegistrationStays ==
    [][\A c \in Members(registered) :
          \/ c \in Members(registered')
          \/ \E t \in Threads : phase[t] = "assign" /\ subject[t] \in NamesOf(c)
      ]_registered

(* When the collectors' results are merged, every collector of the         *)
(* snapshot has left either a result or an error, never both and never     *)
(* neither, whichever of the others failed.                                *)
EachAccountedFor ==
    \A t \in Threads : phase[t] \in {"merge", "done"} =>
        \A n \in DOMAIN snapshot[t] :
            Cardinality({i \in DOMAIN successful[t] : successful[t][i].at = n})
               = IF <<n, "result">> \in errors[t] THEN 0 ELSE 1

Kept(t, i) ==
    \/ \A k \in successful[t][i].keys : extensions[t][k] = [result |-> i, whole |-> FALSE]
    \/ \E k \in Keys : extensions[t][k] = [result |-> i, whole |-> TRUE]

(* Merging loses a result in one case only: it went under its collector's  *)
(* name, and a later collector without a conflict returned that very key.  *)
LostOnlyToItsName ==
    \A t \in Threads : \A i \in 1..merged[t] :
        Kept(t, i) \/ /\ Conflicts(t, i)
                      /\ \E j \in (i + 1)..merged[t] :
                            /\ ~Conflicts(t, j)
                            /\ \E n \in 1..MaxSuffix :
                                  <<successful[t][i].name, n>> \in successful[t][j].keys

(* Nobody is stuck: every call that has begun ends - a refused            *)
(* registration, and a capture that runs collectors while others register  *)
(* more of them, among them - and the lock comes free again and again.     *)
NobodyStuck ==
    /\ []<>(lock = NoThread)
    /\ \A t \in Threads : phase[t] # "idle" ~> phase[t] = "idle"

(* Collectors cannot silently overwrite each other's results.              *)
NothingOverwritten ==
    \A t \in Threads : phase[t] = "done" => \A i \in DOMAIN successful[t] : Kept(t, i)
=============================================================================
