------------------------- MODULE DirectorySave_proofs -------------------------
(***************************************************************************)
(* Proofs about DirectorySave for any saves, loads, names and package      *)
(* size.  What a reader rests on is that a name is given once and for all: *)
(* IInv says that the directory of a save that was renamed is the one its  *)
(* name shows, so that a load that has found a package goes on with it     *)
(* though it opens file after file by path.                                *)
(***************************************************************************)
EXTENDS DirectorySave, TLAPS

(* What a save's program counter says of its temporary directory.          *)
PcTemp(s) ==
    /\ pc[s] \in {"mkdir", "mkdtemp"} => temp[s] = "none"
    /\ pc[s] \in {"chmod", "build", "write", "replace"} => temp[s] = "there"
    /\ pc[s] \in BeforeTry \cup {"build"} => written[s] = 0
    /\ pc[s] = "replace" => written[s] = NFiles

PcOutcome(s) ==
    /\ pc[s] \in BeforeTry \cup InTry => outcome[s] = "pending"
    /\ outcome[s] = "stored" => temp[s] = "moved"

(* What was renamed is whole, and is what its name shows.                  *)
MovedIsWhole(s) == temp[s] = "moved" => written[s] = NFiles

MovedIsShown(s) == temp[s] = "moved" => at[NameOf[s]] = s

AtIsMoved(n) == at[n] # NoSave => NameOf[at[n]] = n /\ temp[at[n]] = "moved"

(* TempAccountedFor, of one save.                                          *)
EndTemp(s) ==
    pc[s] = "end" /\ temp[s] = "there" =>
        \/ outcome[s] \in {"interrupted", "check_error"}
        \/ outcome[s] = "error" /\ written[s] = 0

(* What a load has found is there, and all it has read is from there.      *)
LoadFound(l) ==
    load[l].step = "read" \/ load[l].result \in {"accepted", "rejected"} =>
        load[l].name \in Names /\ at[load[l].name] # NoSave

LoadContent(l) ==
    /\ load[l].step = "idle" => load[l].read = 0 /\ load[l].got = {} /\ load[l].result = "none"
    /\ load[l].step = "read" => load[l].listed = NFiles /\ load[l].result = "none"
    /\ load[l].step = "read" => load[l].got \subseteq {at[load[l].name]}
    /\ load[l].step = "read" /\ load[l].read > 0 => load[l].got = {at[load[l].name]}
    /\ load[l].result = "accepted" => load[l].got = {at[load[l].name]}
    /\ load[l].result = "rejected" => at[load[l].name] \in Oversized

SaveInv == \A s \in Saves : PcTemp(s) /\ PcOutcome(s) /\ MovedIsWhole(s) /\ EndTemp(s)
LoadInv == \A l \in Loads : LoadFound(l) /\ LoadContent(l)

IInv ==
    /\ TypeOK
    /\ SaveInv
    /\ \A s \in Saves : MovedIsShown(s)
    /\ \A n \in Names : AtIsMoved(n)
    /\ LoadInv

-----------------------------------------------------------------------------
(* A step of a save.                                                       *)

LEMMA SaveTypeOK ==
    ASSUME TypeOK, NEW s \in Saves, SaveStep(s)
    PROVE  TypeOK'
<1> USE DirectoryAssumption DEF TypeOK, Goto, End, Leave, Stop, Running, BeforeTry, InTry
<1>1. CASE Mkdir(s) BY <1>1 DEF Mkdir
<1>2. CASE MakeTemp(s) BY <1>2 DEF MakeTemp
<1>3. CASE ChmodTemp(s) BY <1>3 DEF ChmodTemp
<1>4. CASE BuildFiles(s) BY <1>4 DEF BuildFiles
<1>5. CASE WriteFile(s) BY <1>5 DEF WriteFile
<1>6. CASE Replace(s) BY <1>6 DEF Replace
<1>7. CASE Cleanup(s) \/ CheckFails(s) BY <1>7 DEF Cleanup, CheckFails
<1>8. CASE Interrupt(s) BY <1>8 DEF Interrupt
<1>9. CASE Crash(s) BY <1>9 DEF Crash
<1> QED BY <1>1, <1>2, <1>3, <1>4, <1>5, <1>6, <1>7, <1>8, <1>9 DEF SaveStep

(* A step of s touches nothing of another save, and a name only if it      *)
(* shows nothing yet and the directory of s is renamed to it.              *)
LEMMA SaveFrame ==
    ASSUME TypeOK, NEW s \in Saves, SaveStep(s)
    PROVE  /\ \A r \in Saves \ {s} :
                 /\ pc'[r] = pc[r] /\ temp'[r] = temp[r] /\ written'[r] = written[r]
                 /\ outcome'[r] = outcome[r]
           /\ UNCHANGED load
           /\ pc[s] # "end"
           /\ \/ at' = at /\ (temp'[s] = "moved" => temp[s] = "moved")
              \/ /\ at[NameOf[s]] = NoSave /\ at' = [at EXCEPT ![NameOf[s]] = s]
                 /\ pc[s] = "replace" /\ pc'[s] = "cleanup" /\ temp'[s] = "moved"
<1> USE DEF TypeOK, Goto, End, Leave, Stop, Running, BeforeTry, InTry
<1>1. CASE Mkdir(s) \/ ChmodTemp(s) \/ BuildFiles(s) \/ Interrupt(s) \/ Crash(s)
  BY <1>1 DEF Mkdir, ChmodTemp, BuildFiles, Interrupt, Crash
<1>2. CASE MakeTemp(s) \/ WriteFile(s) \/ Cleanup(s) \/ CheckFails(s)
  BY <1>2 DEF MakeTemp, WriteFile, Cleanup, CheckFails
<1>3. CASE Replace(s) BY <1>3 DEF Replace
<1> QED BY <1>1, <1>2, <1>3 DEF SaveStep

(* A step of s keeps what its program counter says of its own directory    *)
(* and outcome, and leaves a directory that was renamed alone.             *)
LEMMA SaveOwn ==
    ASSUME TypeOK, NEW s \in Saves, SaveStep(s),
           PcTemp(s), PcOutcome(s), MovedIsWhole(s), EndTemp(s)
    PROVE  /\ PcTemp(s)' /\ PcOutcome(s)' /\ MovedIsWhole(s)' /\ EndTemp(s)'
           /\ temp[s] = "moved" => temp'[s] = "moved" /\ written'[s] = written[s]
<1> USE DEF TypeOK, Goto, End, Leave, Stop, PcTemp, PcOutcome, MovedIsWhole, EndTemp,
            Running, BeforeTry, InTry
<1>1. CASE Mkdir(s) BY <1>1 DEF Mkdir
<1>2. CASE MakeTemp(s) BY <1>2 DEF MakeTemp
<1>3. CASE ChmodTemp(s) BY <1>3 DEF ChmodTemp
<1>4. CASE BuildFiles(s) BY <1>4 DEF BuildFiles
<1>5. CASE WriteFile(s) BY <1>5 DEF WriteFile
<1>6. CASE Replace(s) BY <1>6 DEF Replace
<1>7. CASE Cleanup(s) \/ CheckFails(s) BY <1>7 DEF Cleanup, CheckFails
<1>8. CASE Interrupt(s) BY <1>8 DEF Interrupt
<1>9. CASE Crash(s) BY <1>9 DEF Crash
<1> QED BY <1>1, <1>2, <1>3, <1>4, <1>5, <1>6, <1>7, <1>8, <1>9 DEF SaveStep

(* A step of s keeps the inductive invariant, and whatever has appeared.   *)
LEMMA SaveKeepsIInv ==
    ASSUME IInv, NEW s \in Saves, SaveStep(s)
    PROVE  /\ IInv'
           /\ \A n \in Names : at[n] # NoSave => at'[n] = at[n]
           /\ \A r \in Saves : temp[r] = "moved" => temp'[r] = "moved" /\ written'[r] = written[r]
<1> USE DirectoryAssumption
<1>1. TypeOK /\ TypeOK'
  BY SaveTypeOK DEF IInv
<1>2. /\ \A r \in Saves \ {s} :
            /\ pc'[r] = pc[r] /\ temp'[r] = temp[r] /\ written'[r] = written[r]
            /\ outcome'[r] = outcome[r]
      /\ load' = load
      /\ \/ at' = at /\ (temp'[s] = "moved" => temp[s] = "moved")
         \/ /\ at[NameOf[s]] = NoSave /\ at' = [at EXCEPT ![NameOf[s]] = s]
            /\ temp'[s] = "moved"
  BY <1>1, SaveFrame
<1>3. /\ PcTemp(s)' /\ PcOutcome(s)' /\ MovedIsWhole(s)' /\ EndTemp(s)'
      /\ temp[s] = "moved" => temp'[s] = "moved" /\ written'[s] = written[s]
  BY SaveOwn DEF IInv, SaveInv
<1>4. SaveInv'
  <2>1. ASSUME NEW r \in Saves \ {s}
        PROVE  PcTemp(r)' /\ PcOutcome(r)' /\ MovedIsWhole(r)' /\ EndTemp(r)'
    BY <1>2, <2>1 DEF IInv, SaveInv, PcTemp, PcOutcome, MovedIsWhole, EndTemp
  <2> QED BY <1>3, <2>1 DEF SaveInv
<1>5. \A r \in Saves : temp[r] = "moved" => temp'[r] = "moved" /\ written'[r] = written[r]
  BY <1>2, <1>3
<1>6. \A n \in Names : at[n] # NoSave => at'[n] = at[n]
  BY <1>1, <1>2 DEF TypeOK
<1>7. \A n \in Names : AtIsMoved(n)'
  BY <1>1, <1>2, <1>5 DEF IInv, TypeOK, AtIsMoved
<1>8. \A r \in Saves : MovedIsShown(r)'
  <2>1. ASSUME NEW r \in Saves, temp'[r] = "moved", temp[r] = "moved" PROVE MovedIsShown(r)'
    BY <1>6, <2>1 DEF IInv, MovedIsShown
  <2>2. ASSUME NEW r \in Saves, temp'[r] = "moved", temp[r] # "moved" PROVE MovedIsShown(r)'
    BY <1>1, <1>2, <2>2 DEF TypeOK, MovedIsShown
  <2> QED BY <2>1, <2>2 DEF MovedIsShown
<1>9. LoadInv'
  <2>1. ASSUME NEW l \in Loads PROVE LoadFound(l)' /\ LoadContent(l)'
    <3>1. LoadFound(l) /\ LoadContent(l)
      BY DEF IInv, LoadInv
    <3>2. load[l].name \in Names /\ at[load[l].name] # NoSave => at'[load[l].name] = at[load[l].name]
      BY <1>6
    <3> QED BY <1>2, <3>1, <3>2 DEF LoadFound, LoadContent
  <2> QED BY <2>1 DEF LoadInv
<1> QED BY <1>1, <1>4, <1>5, <1>6, <1>7, <1>8, <1>9 DEF IInv

-----------------------------------------------------------------------------
(* A step of a load.                                                       *)

(* Ending a load gives it a result and changes nothing else of it. *)
LEMMA FinishTyped ==
    ASSUME load \in [Loads -> LoadRecord], NEW l \in Loads,
           NEW how \in {"accepted", "rejected", "unreadable"}, Finish(l, how)
    PROVE  /\ load' \in [Loads -> LoadRecord]
           /\ load'[l] = [load[l] EXCEPT !.step = "done", !.result = how]
           /\ \A k \in Loads \ {l} : load'[k] = load[k]
<1> DEFINE done == [load[l] EXCEPT !.step = "done", !.result = how]
<1>1. done \in LoadRecord
  BY DEF LoadRecord
<1>2. load' = [load EXCEPT ![l] = done]
  BY DEF Finish
<1> HIDE DEF done
<1>3. load' \in [Loads -> LoadRecord] /\ load'[l] = done /\ \A k \in Loads \ {l} : load'[k] = load[k]
  BY <1>1, <1>2
<1> QED BY <1>3 DEF done

(* A load finds a package under a name or nothing, goes on with the        *)
(* package it has found, and ends. *)
LEMMA LoadKeepsIInv ==
    ASSUME IInv, NEW l \in Loads, LoadStep(l)
    PROVE  IInv' /\ UNCHANGED saveVars
<1> USE DirectoryAssumption
<1>1. /\ load \in [Loads -> LoadRecord] /\ load[l] \in LoadRecord
      /\ LoadFound(l) /\ LoadContent(l)
      /\ at \in [Names -> Saves \cup {NoSave}]
      /\ \A n \in Names : at[n] # NoSave => at[n] \in Saves /\ written[at[n]] = NFiles
  BY DEF IInv, TypeOK, LoadInv, SaveInv, AtIsMoved, MovedIsWhole
<1>2. UNCHANGED saveVars
  BY DEF LoadStep, Scan, ReadFile, VerifyFiles
<1>3. at' = at
  BY <1>2 DEF saveVars
<1> DEFINE Kept == /\ load' \in [Loads -> LoadRecord]
                   /\ \A k \in Loads \ {l} : load'[k] = load[k]
                   /\ LoadFound(l)' /\ LoadContent(l)'
<1>4. ASSUME NEW n \in Names, Scan(l, n) PROVE Kept
  <2>1. load[l].read = 0 /\ load[l].got = {} /\ load[l].result = "none"
    BY <1>1, <1>4 DEF Scan, LoadContent
  <2>2. ASSUME NEW new \in LoadRecord, load' = [load EXCEPT ![l] = new],
               new = [load[l] EXCEPT !.step = "done", !.result = "unreadable"]
        PROVE  Kept
    <3>1. new.step = "done" /\ new.result = "unreadable"
      BY <1>1, <2>2 DEF LoadRecord
    <3> QED BY <1>1, <2>2, <3>1 DEF LoadFound, LoadContent
  <2>3. ASSUME NEW new \in LoadRecord, load' = [load EXCEPT ![l] = new], at[n] # NoSave,
               new = [load[l] EXCEPT !.step = "read", !.name = n, !.listed = NFiles]
        PROVE  Kept
    <3>1. /\ new.step = "read" /\ new.name = n /\ new.listed = NFiles
          /\ new.read = 0 /\ new.got = {} /\ new.result = "none"
      BY <1>1, <2>1, <2>3 DEF LoadRecord
    <3> QED BY <1>1, <1>3, <2>3, <3>1 DEF LoadFound, LoadContent
  <2>4. CASE at[n] = NoSave
    <3>1. load' = [load EXCEPT ![l] = [load[l] EXCEPT !.step = "done", !.result = "unreadable"]]
      BY <1>4, <2>4 DEF Scan
    <3>2. [load[l] EXCEPT !.step = "done", !.result = "unreadable"] \in LoadRecord
      BY <1>1 DEF LoadRecord
    <3> QED BY <2>2, <3>1, <3>2
  <2>5. CASE at[n] # NoSave
    <3>1. load' = [load EXCEPT ![l] = [load[l] EXCEPT !.step = "read", !.name = n, !.listed = NFiles]]
      BY <1>1, <1>4, <2>5 DEF Scan
    <3>2. [load[l] EXCEPT !.step = "read", !.name = n, !.listed = NFiles] \in LoadRecord
      <4>1. NFiles \in 0..NFiles
        OBVIOUS
      <4>2. load[l] \in LoadRecord
        BY <1>1
      <4> QED BY <4>1, <4>2 DEF LoadRecord
    <3> QED BY <2>3, <2>5, <3>1, <3>2
  <2> QED BY <2>4, <2>5
<1>5. ASSUME NEW how \in {"accepted", "rejected", "unreadable"}, Finish(l, how),
             load[l].step = "read",
             how = "accepted" => load[l].got = {at[load[l].name]},
             how = "rejected" => at[load[l].name] \in Oversized
      PROVE  Kept
  <2>1. /\ load'[l].step = "done" /\ load'[l].result = how /\ load'[l].name = load[l].name
        /\ load'[l].got = load[l].got
    <3>1. load'[l] = [load[l] EXCEPT !.step = "done", !.result = how]
      BY <1>1, <1>5, FinishTyped
    <3> QED BY <1>1, <3>1 DEF LoadRecord
  <2>2. LoadFound(l)' /\ LoadContent(l)'
    BY <1>1, <1>3, <1>5, <2>1 DEF LoadFound, LoadContent
  <2> QED BY <1>1, <1>5, <2>2, FinishTyped
<1>6. ASSUME ReadFile(l) PROVE Kept
  <2> DEFINE s == at[load[l].name]
  <2>1. /\ load[l].step = "read" /\ load[l].listed = NFiles /\ load[l].read < NFiles
        /\ s \in Saves /\ load[l].got \subseteq {s} /\ load[l].result = "none"
    BY <1>1, <1>6 DEF ReadFile, LoadFound, LoadContent
  <2>2. ASSUME load' = [load EXCEPT ![l].read = @ + 1, ![l].got = @ \cup {s}] PROVE Kept
    <3>1. load[l].read + 1 \in 0..NFiles /\ load[l].got \cup {s} = {s} /\ {s} \in SUBSET Saves
      BY <1>1, <2>1 DEF LoadRecord
    <3>2. load' = [load EXCEPT ![l] = [load[l] EXCEPT !.read = load[l].read + 1, !.got = {s}]]
      BY <1>1, <2>2, <3>1
    <3>3. [load[l] EXCEPT !.read = load[l].read + 1, !.got = {s}] \in LoadRecord
      BY <1>1, <3>1 DEF LoadRecord
    <3>4. load' \in [Loads -> LoadRecord] /\ \A k \in Loads \ {l} : load'[k] = load[k]
      BY <1>1, <3>2, <3>3
    <3>5. /\ load'[l].step = "read" /\ load'[l].got = {s} /\ load'[l].name = load[l].name
          /\ load'[l].listed = NFiles /\ load'[l].result = "none"
      BY <1>1, <2>1, <3>2 DEF LoadRecord
    <3>6. LoadFound(l)' /\ LoadContent(l)'
      BY <1>1, <1>3, <2>1, <3>5 DEF LoadFound, LoadContent
    <3> QED BY <3>4, <3>6
  <2>3. ASSUME s \in Oversized, Finish(l, "rejected") PROVE Kept
    BY <1>5, <2>1, <2>3
  <2>4. ASSUME Finish(l, "unreadable") PROVE Kept
    BY <1>5, <2>1, <2>4
  <2> QED BY <1>6, <2>2, <2>3, <2>4 DEF ReadFile
<1>7. ASSUME VerifyFiles(l) PROVE Kept
  <2>1. /\ load[l].step = "read" /\ load[l].listed = NFiles /\ load[l].read = NFiles
        /\ at[load[l].name] \in Saves
    BY <1>1, <1>7 DEF VerifyFiles, LoadFound, LoadContent
  <2>2. load[l].got = {at[load[l].name]}
    BY <1>1, <2>1 DEF LoadContent
  <2>3. Finish(l, "accepted")
    BY <1>7, <2>1, <2>2 DEF VerifyFiles
  <2> QED BY <1>5, <2>1, <2>2, <2>3
<1>8. Kept
  BY <1>4, <1>6, <1>7 DEF LoadStep
<1>9. TypeOK' /\ SaveInv' /\ (\A s \in Saves : MovedIsShown(s)') /\ (\A n \in Names : AtIsMoved(n)')
  BY <1>2, <1>8 DEF IInv, saveVars, TypeOK, SaveInv, PcTemp, PcOutcome, MovedIsWhole, EndTemp,
                    MovedIsShown, AtIsMoved
<1>10. LoadInv'
  <2>1. ASSUME NEW k \in Loads \ {l} PROVE LoadFound(k)' /\ LoadContent(k)'
    BY <1>3, <1>8, <2>1 DEF IInv, LoadInv, LoadFound, LoadContent
  <2> QED BY <1>8, <2>1 DEF LoadInv
<1> QED BY <1>2, <1>9, <1>10 DEF IInv

-----------------------------------------------------------------------------

LEMMA InitIInv == Init => IInv
<1> SUFFICES ASSUME Init PROVE IInv
  OBVIOUS
<1> USE DirectoryAssumption DEF Init
<1>1. TypeOK
  BY DEF TypeOK, NewLoad, LoadRecord, Running, BeforeTry, InTry
<1>2. SaveInv /\ \A s \in Saves : MovedIsShown(s)
  BY DEF SaveInv, PcTemp, PcOutcome, MovedIsWhole, EndTemp, MovedIsShown, BeforeTry, InTry
<1>3. (\A n \in Names : AtIsMoved(n)) /\ LoadInv
  BY DEF AtIsMoved, LoadInv, LoadFound, LoadContent, NewLoad
<1> QED BY <1>1, <1>2, <1>3 DEF IInv

(* No step breaks the inductive invariant, gives a name to another package *)
(* or alters one that has appeared.                                        *)
LEMMA NextIInv ==
    ASSUME IInv, [Next]_vars
    PROVE  /\ IInv'
           /\ \A n \in Names : at[n] # NoSave => at'[n] = at[n]
           /\ \A s \in Saves : temp[s] = "moved" => temp'[s] = "moved" /\ written'[s] = written[s]
<1>1. CASE \E s \in Saves : SaveStep(s)
  BY <1>1, SaveKeepsIInv
<1>2. CASE \E l \in Loads : LoadStep(l)
  BY <1>2, LoadKeepsIInv DEF saveVars
<1>3. CASE UNCHANGED vars
  BY <1>3 DEF vars, IInv, TypeOK, SaveInv, LoadInv, PcTemp, PcOutcome, MovedIsWhole, EndTemp,
              MovedIsShown, AtIsMoved, LoadFound, LoadContent
<1> QED BY <1>1, <1>2, <1>3 DEF Next

LEMMA Inductive == Spec => []IInv
<1>1. IInv /\ [Next]_vars => IInv'
  BY NextIInv
<1> QED BY InitIInv, <1>1, PTL DEF Spec

(* Every variable of a save and of a load always has its type. *)
THEOREM Typing == Spec => []TypeOK
<1>1. IInv => TypeOK
  BY DEF IInv
<1> QED BY Inductive, <1>1, PTL

(* Of any number of saves of one record at most one is told "stored", and  *)
(* its package is under its location, whole, from then on.                 *)
THEOREM StoredOnce == Spec => []StoredIsOwn
<1>1. IInv => StoredIsOwn
  BY DEF IInv, SaveInv, PcOutcome, MovedIsWhole, MovedIsShown, StoredIsOwn
<1> QED BY Inductive, <1>1, PTL

(* A save that has ended leaves its temporary directory in two cases and   *)
(* in what rmtree could not remove, whatever failed and when.              *)
THEOREM NoLitter == Spec => []TempAccountedFor
<1>1. IInv => TempAccountedFor
  BY DEF IInv, SaveInv, EndTemp, TempAccountedFor
<1> QED BY Inductive, <1>1, PTL

(* A load that opens file after file by path, while any number of saves go *)
(* on, accepts whole packages only and rejects only what is too large.     *)
THEOREM WholeLoads == Spec => []LoadsAreWhole
<1>1. IInv => LoadsAreWhole
  <2> SUFFICES ASSUME IInv, NEW l \in Loads
               PROVE  /\ load[l].result = "accepted" =>
                           \E s \in Saves : /\ load[l].got = {s} /\ NameOf[s] = load[l].name
                                            /\ written[s] = NFiles
                      /\ load[l].result = "rejected" => at[load[l].name] \in Oversized
    BY DEF LoadsAreWhole
  <2>1. LoadFound(l) /\ LoadContent(l)
    BY DEF IInv, LoadInv
  <2>2. ASSUME NEW n \in Names, at[n] # NoSave
        PROVE  at[n] \in Saves /\ NameOf[at[n]] = n /\ written[at[n]] = NFiles
    BY <2>2 DEF IInv, TypeOK, SaveInv, AtIsMoved, MovedIsWhole
  <2> QED BY <2>1, <2>2 DEF LoadFound, LoadContent
<1> QED BY Inductive, <1>1, PTL

(* A package that has appeared is never replaced, withdrawn or altered.    *)
THEOREM PublishedForGood == Spec => PublishedForever
<1>1. ASSUME IInv, [Next]_vars
      PROVE  [/\ \A n \in Names : at[n] # NoSave => at'[n] = at[n]
              /\ \A s \in Saves : temp[s] = "moved" => temp'[s] = "moved" /\ written'[s] = written[s]
             ]_vars
  BY <1>1, NextIInv
<1> QED BY <1>1, Inductive, PTL DEF Spec, PublishedForever

-----------------------------------------------------------------------------
(* Refinement.                                                             *)

LEMMA InitRefines == Init => Store!Init
<1>1. ASSUME Init PROVE {s \in Saves : temp[s] = "moved"} = {}
  BY <1>1 DEF Init
<1>2. ASSUME Init PROVE [s \in Saves |-> Answer(s)] = [s \in Saves |-> "pending"]
  BY <1>2 DEF Init, Answer
<1> QED BY <1>1, <1>2 DEF Init, Store!Init

(* The rename is where a package appears, the end of save where its caller *)
(* is answered; to the abstract store every other step is a stutter.       *)
LEMMA StepRefines ==
    ASSUME IInv, [Next]_vars
    PROVE  [Store!Next]_(Store!vars)
<1> DEFINE moved == {s \in Saves : temp[s] = "moved"}
           told == [s \in Saves |-> Answer(s)]
<1>1. ASSUME UNCHANGED <<at, temp, pc, outcome>> PROVE UNCHANGED <<at, moved, told>>
  BY <1>1 DEF Answer
<1>2. ASSUME NEW s \in Saves, SaveStep(s)
      PROVE  \/ Store!Publish(s) \/ Store!AnswerStored(s) \/ Store!AnswerFailed(s)
             \/ UNCHANGED <<at, moved, told>>
  <2>1. /\ \A r \in Saves \ {s} : temp'[r] = temp[r] /\ Answer(r)' = Answer(r)
        /\ pc[s] # "end"
        /\ \/ at' = at /\ (temp'[s] = "moved" => temp[s] = "moved")
           \/ /\ at[NameOf[s]] = NoSave /\ at' = [at EXCEPT ![NameOf[s]] = s]
              /\ pc[s] = "replace" /\ pc'[s] = "cleanup" /\ temp'[s] = "moved"
    BY <1>2, SaveFrame DEF IInv, Answer
  <2>2. Answer(s) = "pending" /\ told[s] = "pending"
    BY <2>1 DEF Answer
  <2>3. temp[s] = "moved" => temp'[s] = "moved"
    BY <1>2, SaveKeepsIInv
  <2>4. outcome'[s] = "stored" => temp'[s] = "moved"
    BY <1>2, SaveKeepsIInv DEF IInv, SaveInv, PcOutcome
  <2>5. told' = [told EXCEPT ![s] = Answer(s)']
    BY <2>1
  <2>6. CASE /\ at' = [at EXCEPT ![NameOf[s]] = s] /\ pc[s] = "replace"
             /\ pc'[s] = "cleanup" /\ temp'[s] = "moved"
    <3>1. temp[s] # "moved"
      BY <1>2, <2>6 DEF IInv, SaveInv, PcTemp
    <3>2. moved' = moved \cup {s} /\ s \notin moved
      BY <2>1, <2>6, <3>1
    <3>3. told' = told
      BY <2>2, <2>5, <2>6 DEF Answer
    <3> QED BY <2>2, <2>6, <3>2, <3>3 DEF Store!Publish
  <2>7. CASE at' = at /\ (temp'[s] = "moved" => temp[s] = "moved")
    <3>1. moved' = moved
      BY <2>1, <2>3, <2>7
    <3>2. CASE Answer(s)' = "pending"
      BY <2>2, <2>5, <2>7, <3>1, <3>2
    <3>3. CASE Answer(s)' = "stored"
      <4>1. s \in moved
        BY <2>4, <2>7, <3>3 DEF Answer
      <4> QED BY <2>2, <2>5, <2>7, <3>1, <3>3, <4>1 DEF Store!AnswerStored
    <3>4. CASE Answer(s)' = "failed"
      BY <2>2, <2>5, <2>7, <3>1, <3>4 DEF Store!AnswerFailed
    <3> QED BY <3>2, <3>3, <3>4 DEF Answer
  <2> QED BY <2>1, <2>6, <2>7
<1>3. CASE \E s \in Saves : SaveStep(s)
  BY <1>2, <1>3 DEF Store!Next, Store!vars
<1>4. CASE \E l \in Loads : LoadStep(l)
  BY <1>1, <1>4, LoadKeepsIInv DEF saveVars, Store!vars
<1>5. CASE UNCHANGED vars
  BY <1>1, <1>5 DEF vars, Store!vars
<1> QED BY <1>3, <1>4, <1>5 DEF Next

(* DirectoryStorage.save, step by step and under every failure, is the     *)
(* atomic store of PackageStore, as ArchiveStorage.save is.                *)
THEOREM Refinement == Spec => ImplementsStore
<1>1. IInv /\ [Next]_vars => [Store!Next]_(Store!vars)
  BY StepRefines
<1> QED BY InitRefines, <1>1, Inductive, PTL DEF Spec, ImplementsStore, Store!Spec
=============================================================================
