-------------------------- MODULE ArchiveSave_proofs --------------------------
(***************************************************************************)
(* Proofs about ArchiveSave for any saves, loads, names and package size.  *)
(* IInv relates a save's program counter to its temporary file and its     *)
(* outcome, every published inode to its content, and every load to the    *)
(* inode it has opened.                                                    *)
(***************************************************************************)
EXTENDS ArchiveSave, TLAPS

(* What a save's program counter says of its temporary file and outcome.   *)
PcTemp(s) ==
    /\ pc[s] \in {"mkdir", "build", "mkstemp"} => temp[s] = "none" /\ ~known[s]
    /\ pc[s] = "close" => temp[s] = "linked" /\ ~known[s]
    /\ pc[s] \in {"chmod", "write", "replace"} => temp[s] = "linked" /\ known[s]
    /\ pc[s] = "replace" => Complete(s)
    /\ pc[s] = "chmodTarget" => temp[s] = "moved"
    /\ temp[s] \in {"unlinked", "stuck"} => pc[s] = "end"

PcOutcome(s) ==
    /\ pc[s] \in BeforeTry \cup InTry => outcome[s] = "pending"
    /\ outcome[s] = "stored" => temp[s] = "moved"

(* What has been moved is whole, and its name shows something.             *)
MovedIsWhole(s) == temp[s] = "moved" => Complete(s)

MovedIsShown(s) == temp[s] = "moved" => at[NameOf[s]] # NoSave

AtIsMoved(n) == at[n] # NoSave => NameOf[at[n]] = n /\ temp[at[n]] = "moved"

(* What a load has opened is published, and what it has read comes from it. *)
LoadFile(l) ==
    /\ load[l].file # NoSave => temp[load[l].file] = "moved" /\ NameOf[load[l].file] = load[l].name
    /\ load[l].step \in {"list", "read"} => load[l].file # NoSave
    /\ load[l].result \in {"accepted", "rejected"} => load[l].file # NoSave

LoadContent(l) ==
    /\ load[l].step = "idle" => load[l].read = 0 /\ load[l].got = {} /\ load[l].result = "none"
    /\ load[l].step = "read" => load[l].listed = NMembers
    /\ load[l].got \subseteq {load[l].file}
    /\ load[l].read > 0 => load[l].got = {load[l].file}
    /\ load[l].result = "rejected" => load[l].file \in Oversized

(* TempAccountedFor, of one save.                                          *)
EndTemp(s) ==
    pc[s] = "end" /\ temp[s] \in {"linked", "stuck"} =>
        /\ outcome[s] # "stored"
        /\ temp[s] = "linked" => outcome[s] \in {"interrupted", "check_error"} \/ ~known[s]

SaveInv == \A s \in Saves : PcTemp(s) /\ PcOutcome(s) /\ MovedIsWhole(s) /\ EndTemp(s)
LoadInv == \A l \in Loads : LoadFile(l) /\ LoadContent(l)

IInv ==
    /\ TypeOK
    /\ SaveInv
    /\ \A s \in Saves : MovedIsShown(s)
    /\ \A n \in Names : AtIsMoved(n)
    /\ LoadInv

-----------------------------------------------------------------------------

LEMMA InitTypeOK == Init => TypeOK
BY ArchiveAssumption DEF Init, TypeOK, NewLoad, LoadRecord, Running, BeforeTry, InTry, Outcomes

(* A step of a save keeps the type of every variable. *)
LEMMA SaveTypeOK ==
    ASSUME TypeOK, NEW s \in Saves, SaveStep(s)
    PROVE  TypeOK'
<1> USE DEF TypeOK, Goto, Leave, Stop, Running, BeforeTry, InTry, Outcomes
<1>1. CASE Mkdir(s) BY <1>1 DEF Mkdir
<1>2. CASE BuildFiles(s) BY <1>2 DEF BuildFiles
<1>3. CASE MakeTemp(s) BY <1>3 DEF MakeTemp
<1>4. CASE CloseDescriptor(s) BY <1>4 DEF CloseDescriptor
<1>5. CASE ChmodTemp(s) BY <1>5 DEF ChmodTemp
<1>6. CASE WriteMember(s) BY <1>6, ArchiveAssumption DEF WriteMember
<1>7. CASE Seal(s) BY <1>7 DEF Seal
<1>8. CASE WriteFails(s) BY <1>8 DEF WriteFails
<1>9. CASE Replace(s) BY <1>9 DEF Replace
<1>10. CASE ChmodTarget(s) BY <1>10 DEF ChmodTarget
<1>11. CASE Cleanup(s) \/ CheckFails(s) BY <1>11 DEF Cleanup, CheckFails
<1>12. CASE Interrupt(s) BY <1>12 DEF Interrupt
<1>13. CASE Crash(s) BY <1>13 DEF Crash
<1> QED BY <1>1, <1>2, <1>3, <1>4, <1>5, <1>6, <1>7, <1>8, <1>9, <1>10, <1>11, <1>12, <1>13
        DEF SaveStep

(* Ending a load gives it a result and changes nothing else of it. *)
LEMMA FinishTyped ==
    ASSUME load \in [Loads -> LoadRecord], NEW l \in Loads,
           NEW how \in {"accepted", "rejected", "unreadable"}, Finish(l, how)
    PROVE  /\ load' \in [Loads -> LoadRecord]
           /\ load'[l] = [load[l] EXCEPT !.step = "done", !.result = how]
           /\ \A k \in Loads \ {l} : load'[k] = load[k]
<1> DEFINE done == [load[l] EXCEPT !.step = "done", !.result = how]
<1>1. done \in LoadRecord
  <2>1. load[l] \in LoadRecord
    OBVIOUS
  <2> QED BY <2>1 DEF LoadRecord
<1>2. load' = [load EXCEPT ![l] = done]
  BY DEF Finish
<1> HIDE DEF done
<1>3. load' \in [Loads -> LoadRecord] /\ load'[l] = done /\ \A k \in Loads \ {l} : load'[k] = load[k]
  BY <1>1, <1>2
<1> QED BY <1>3 DEF done

(* A load that becomes another record of loads keeps the type of all. *)
LEMMA LoadReplaced ==
    ASSUME load \in [Loads -> LoadRecord], NEW l \in Loads, NEW new \in LoadRecord,
           load' = [load EXCEPT ![l] = new]
    PROVE  load' \in [Loads -> LoadRecord]
<1> HIDE DEF LoadRecord
<1> QED OBVIOUS

(* A step of a load keeps the type of every variable. *)
LEMMA LoadTypeOK ==
    ASSUME TypeOK, NEW l \in Loads, LoadFile(l), LoadStep(l)
    PROVE  TypeOK'
<1>1. load' \in [Loads -> LoadRecord]
  <2>0. /\ load \in [Loads -> LoadRecord]
        /\ at \in [Names -> Saves \cup {NoSave}]
        /\ \A s \in Saves : body[s].written \in 0..NMembers
    BY DEF TypeOK
  <2> load[l] \in LoadRecord
    BY <2>0
  <2>1. CASE \E n \in Names : OpenFile(l, n)
    <3>1. PICK n \in Names : OpenFile(l, n)
      BY <2>1
    <3>2. CASE at[n] = NoSave
      <4> DEFINE new == [load[l] EXCEPT !.name = n, !.step = "done", !.result = "missing"]
      <4>1. new \in LoadRecord
        BY DEF LoadRecord
      <4>2. load' = [load EXCEPT ![l] = new]
        BY <3>1, <3>2 DEF OpenFile
      <4> QED BY <2>0, <4>1, <4>2, LoadReplaced
    <3>3. CASE at[n] # NoSave
      <4> DEFINE new == [load[l] EXCEPT !.name = n, !.step = "list", !.file = at[n]]
      <4>1. new \in LoadRecord
        BY <2>0 DEF LoadRecord
      <4>2. load' = [load EXCEPT ![l] = new]
        BY <3>1, <3>3 DEF OpenFile
      <4> QED BY <2>0, <4>1, <4>2, LoadReplaced
    <3> QED BY <3>2, <3>3
  <2>2. CASE ListMembers(l)
    <3>1. load[l].file \in Saves
      BY <2>0, <2>2 DEF ListMembers, LoadRecord, LoadFile
    <3>2. CASE load' = [load EXCEPT ![l].step = "read", ![l].listed = body[load[l].file].written]
      BY <2>0, <2>2, <3>1, <3>2 DEF ListMembers, LoadRecord
    <3>3. CASE Finish(l, "rejected")
      BY <2>0, <3>3, FinishTyped
    <3>4. CASE body[load[l].file].sealed /\ load[l].file \notin Oversized
      BY <2>2, <3>2, <3>4 DEF ListMembers
    <3>5. CASE ~(body[load[l].file].sealed /\ load[l].file \notin Oversized)
      BY <2>2, <3>3, <3>5 DEF ListMembers
    <3> QED BY <3>4, <3>5
  <2>3. CASE ReadMember(l)
    <3>1. load[l].read \in 0..NMembers /\ load[l].listed \in 0..NMembers /\ load[l].read < load[l].listed
      BY <2>0, <2>3 DEF ReadMember, LoadRecord
    <3>2. load[l].read + 1 \in 0..NMembers
      BY <3>1, ArchiveAssumption
    <3>3. load[l].got \cup {load[l].file} \in SUBSET Saves
      BY <2>0, <2>3 DEF ReadMember, LoadRecord, LoadFile
    <3> DEFINE new == [load[l] EXCEPT !.read = @ + 1, !.got = @ \cup {load[l].file}]
    <3>4. new \in LoadRecord
      BY <3>2, <3>3 DEF LoadRecord
    <3>5. load' = [load EXCEPT ![l] = new]
      BY <2>3 DEF ReadMember
    <3> QED BY <2>0, <3>4, <3>5, LoadReplaced
  <2>4. ASSUME NEW how \in {"accepted", "rejected", "unreadable"}, Finish(l, how)
        PROVE  load' \in [Loads -> LoadRecord]
    BY <2>0, <2>4, FinishTyped
  <2>5. CASE VerifyFiles(l) BY <2>4, <2>5 DEF VerifyFiles
  <2>6. CASE LoadFails(l) BY <2>4, <2>6 DEF LoadFails
  <2> QED BY <2>1, <2>2, <2>3, <2>5, <2>6 DEF LoadStep
<1>2. UNCHANGED saveVars
  BY DEF LoadStep, OpenFile, ListMembers, ReadMember, VerifyFiles, LoadFails
<1> QED BY <1>1, <1>2 DEF TypeOK, saveVars


-----------------------------------------------------------------------------

(* A step of s touches nothing another save owns, and changes a name only  *)
(* by linking its own file to it.                                          *)
LEMMA SaveFrame ==
    ASSUME TypeOK, NEW s \in Saves, SaveStep(s)
    PROVE  /\ \A r \in Saves \ {s} :
                 /\ pc'[r] = pc[r] /\ temp'[r] = temp[r] /\ known'[r] = known[r]
                 /\ body'[r] = body[r] /\ outcome'[r] = outcome[r]
           /\ UNCHANGED load
           /\ \/ at' = at
              \/ at' = [at EXCEPT ![NameOf[s]] = s] /\ temp'[s] = "moved"
<1> USE DEF TypeOK, Goto, Leave, Stop
<1>1. CASE Mkdir(s) \/ BuildFiles(s) \/ ChmodTemp(s) \/ ChmodTarget(s) \/ Interrupt(s) \/ Crash(s)
  BY <1>1 DEF Mkdir, BuildFiles, ChmodTemp, ChmodTarget, Interrupt, Crash
<1>2. CASE MakeTemp(s) \/ CloseDescriptor(s) \/ Cleanup(s) \/ CheckFails(s)
  BY <1>2 DEF MakeTemp, CloseDescriptor, Cleanup, CheckFails
<1>3. CASE WriteMember(s) \/ Seal(s) \/ WriteFails(s)
  BY <1>3 DEF WriteMember, Seal, WriteFails
<1>4. CASE Replace(s) BY <1>4 DEF Replace
<1> QED BY <1>1, <1>2, <1>3, <1>4 DEF SaveStep

(* A step of s keeps what its program counter says of its own file and     *)
(* outcome.                                                                *)
LEMMA SaveOwn ==
    ASSUME TypeOK, NEW s \in Saves, SaveStep(s),
           PcTemp(s), PcOutcome(s), MovedIsWhole(s), EndTemp(s)
    PROVE  /\ PcTemp(s)' /\ PcOutcome(s)' /\ MovedIsWhole(s)' /\ EndTemp(s)'
           /\ temp[s] = "moved" => temp'[s] = "moved" /\ body'[s] = body[s]
<1> USE DEF TypeOK, Goto, Leave, Stop, PcTemp, PcOutcome, MovedIsWhole, EndTemp, Complete,
            Running, BeforeTry, InTry
<1>1. CASE Mkdir(s) BY <1>1 DEF Mkdir
<1>2. CASE BuildFiles(s) BY <1>2 DEF BuildFiles
<1>3. CASE MakeTemp(s) BY <1>3 DEF MakeTemp
<1>4. CASE CloseDescriptor(s) BY <1>4 DEF CloseDescriptor
<1>5. CASE ChmodTemp(s) BY <1>5 DEF ChmodTemp
<1>6. CASE WriteMember(s) BY <1>6 DEF WriteMember
<1>7. CASE Seal(s) BY <1>7 DEF Seal
<1>8. CASE WriteFails(s) BY <1>8 DEF WriteFails
<1>9. CASE Replace(s) BY <1>9 DEF Replace
<1>10. CASE ChmodTarget(s) BY <1>10 DEF ChmodTarget
<1>11. CASE Cleanup(s) \/ CheckFails(s) BY <1>11 DEF Cleanup, CheckFails
<1>12. CASE Interrupt(s) BY <1>12 DEF Interrupt
<1>13. CASE Crash(s) BY <1>13 DEF Crash
<1> QED BY <1>1, <1>2, <1>3, <1>4, <1>5, <1>6, <1>7, <1>8, <1>9, <1>10, <1>11, <1>12, <1>13
        DEF SaveStep

(* A step of s keeps the inductive invariant, and keeps what is published. *)
LEMMA SaveKeepsIInv ==
    ASSUME IInv, NEW s \in Saves, SaveStep(s)
    PROVE  /\ IInv'
           /\ \A n \in Names : at[n] # NoSave => at'[n] # NoSave
           /\ \A r \in Saves : temp[r] = "moved" => temp'[r] = "moved" /\ body'[r] = body[r]
<1>1. TypeOK'
  BY SaveTypeOK DEF IInv
<1>2. /\ \A r \in Saves \ {s} :
            /\ pc'[r] = pc[r] /\ temp'[r] = temp[r] /\ known'[r] = known[r]
            /\ body'[r] = body[r] /\ outcome'[r] = outcome[r]
      /\ load' = load
      /\ at' = at \/ (at' = [at EXCEPT ![NameOf[s]] = s] /\ temp'[s] = "moved")
  BY SaveFrame DEF IInv
<1>3. /\ PcTemp(s)' /\ PcOutcome(s)' /\ MovedIsWhole(s)' /\ EndTemp(s)'
      /\ temp[s] = "moved" => temp'[s] = "moved" /\ body'[s] = body[s]
  BY SaveOwn DEF IInv, SaveInv
<1>4. SaveInv'
  <2>1. ASSUME NEW r \in Saves \ {s}
        PROVE  PcTemp(r)' /\ PcOutcome(r)' /\ MovedIsWhole(r)' /\ EndTemp(r)'
    BY <1>2, <2>1 DEF IInv, SaveInv, PcTemp, PcOutcome, MovedIsWhole, EndTemp, Complete
  <2> QED BY <1>3, <2>1 DEF SaveInv
<1>5. \A r \in Saves : temp[r] = "moved" => temp'[r] = "moved" /\ body'[r] = body[r]
  BY <1>2, <1>3
<1>6. \A n \in Names : at[n] # NoSave => at'[n] # NoSave
  BY <1>2, ArchiveAssumption DEF IInv, TypeOK
<1>7. \A n \in Names : AtIsMoved(n)'
  <2>1. CASE at' = at
    BY <1>5, <2>1 DEF IInv, TypeOK, AtIsMoved
  <2>2. CASE at' = [at EXCEPT ![NameOf[s]] = s] /\ temp'[s] = "moved"
    BY <1>5, <2>2 DEF IInv, TypeOK, AtIsMoved
  <2> QED BY <1>2, <2>1, <2>2
<1>8. \A r \in Saves : MovedIsShown(r)'
  <2>1. ASSUME NEW r \in Saves \ {s} PROVE MovedIsShown(r)'
    BY <1>2, <1>6, <2>1, ArchiveAssumption DEF IInv, MovedIsShown
  <2>2. MovedIsShown(s)'
    <3>1. CASE temp[s] = "moved"
      BY <1>6, <3>1, ArchiveAssumption DEF IInv, MovedIsShown
    <3>2. CASE temp[s] # "moved" /\ temp'[s] = "moved"
      <4>1. at' = [at EXCEPT ![NameOf[s]] = s]
        BY <3>2 DEF SaveStep, Mkdir, BuildFiles, MakeTemp, CloseDescriptor, ChmodTemp, WriteMember,
                    Seal, WriteFails, Replace, ChmodTarget, Cleanup, CheckFails,
                    Interrupt, Crash, IInv, TypeOK
      <4> QED BY <4>1, ArchiveAssumption DEF IInv, TypeOK, MovedIsShown
    <3> QED BY <3>1, <3>2 DEF MovedIsShown
  <2> QED BY <2>1, <2>2
<1>9. LoadInv'
  <2>1. ASSUME NEW l \in Loads PROVE LoadFile(l)'
    <3>1. load[l].file \in Saves \cup {NoSave}
      BY DEF IInv, TypeOK, LoadRecord
    <3> QED BY <1>2, <1>5, <3>1 DEF IInv, LoadInv, LoadFile
  <2>2. ASSUME NEW l \in Loads PROVE LoadContent(l)'
    BY <1>2 DEF IInv, LoadInv, LoadContent
  <2> QED BY <2>1, <2>2 DEF LoadInv
<1> QED BY <1>1, <1>4, <1>5, <1>6, <1>7, <1>8, <1>9 DEF IInv

(* A step of a load changes no other load. *)
LEMMA LoadFrame ==
    ASSUME TypeOK, NEW l \in Loads, LoadStep(l)
    PROVE  UNCHANGED saveVars /\ \A k \in Loads \ {l} : load'[k] = load[k]
<1> USE DEF TypeOK
<1>1. CASE \E n \in Names : OpenFile(l, n) BY <1>1 DEF OpenFile
<1>2. CASE ListMembers(l) BY <1>2 DEF ListMembers, Finish
<1>3. CASE ReadMember(l) BY <1>3 DEF ReadMember
<1>4. CASE VerifyFiles(l) BY <1>4 DEF VerifyFiles, Finish
<1>5. CASE LoadFails(l) BY <1>5 DEF LoadFails, Finish
<1> QED BY <1>1, <1>2, <1>3, <1>4, <1>5 DEF LoadStep

(* A load goes on with the published file it has opened. *)
LEMMA LoadOwn ==
    ASSUME IInv, NEW l \in Loads, LoadStep(l)
    PROVE  LoadFile(l)' /\ LoadContent(l)'
<1>1. /\ load \in [Loads -> LoadRecord] /\ load[l] \in LoadRecord
      /\ \A s \in Saves : body[s].written \in 0..NMembers
      /\ LoadFile(l) /\ LoadContent(l)
      /\ \A n \in Names : AtIsMoved(n) /\ at[n] \in Saves \cup {NoSave}
      /\ \A s \in Saves : MovedIsWhole(s)
      /\ UNCHANGED saveVars
  BY LoadFrame DEF IInv, TypeOK, LoadInv, SaveInv
<1>2. UNCHANGED <<temp, body>>
  BY <1>1 DEF saveVars
<1>3. CASE \E n \in Names : OpenFile(l, n)
  <2>1. PICK n \in Names : OpenFile(l, n)
    BY <1>3
  <2>2. LoadFile(l)'
    BY <1>1, <1>2, <2>1 DEF OpenFile, LoadFile, LoadRecord, AtIsMoved
  <2>3. load[l].read = 0 /\ load[l].got = {} /\ load[l].result = "none"
    BY <1>1, <2>1 DEF OpenFile, LoadContent
  <2> QED BY <1>1, <2>1, <2>2, <2>3 DEF OpenFile, LoadContent, LoadRecord
<1>4. CASE ListMembers(l)
  <2>1. load[l].file \in Saves /\ Complete(load[l].file)
    BY <1>1, <1>4 DEF ListMembers, LoadFile, LoadRecord, MovedIsWhole
  <2>2. CASE load[l].file \in Oversized
    <3>1. Finish(l, "rejected")
      BY <1>4, <2>2 DEF ListMembers
    <3>2. load'[l] = [load[l] EXCEPT !.step = "done", !.result = "rejected"]
      BY <1>1, <3>1, FinishTyped
    <3>3. LoadFile(l)'
      BY <1>1, <1>2, <2>1, <3>2, ArchiveAssumption DEF LoadFile, LoadRecord
    <3> QED BY <1>1, <2>2, <3>2, <3>3 DEF LoadContent, LoadRecord
  <2>3. CASE load[l].file \notin Oversized
    <3>1. load' = [load EXCEPT ![l].step = "read", ![l].listed = NMembers]
      BY <1>4, <2>1, <2>3 DEF ListMembers, Complete
    <3>2. LoadFile(l)'
      BY <1>1, <1>2, <2>1, <3>1, ArchiveAssumption DEF LoadFile, LoadRecord
    <3>3. /\ load'[l].step = "read" /\ load'[l].listed = NMembers /\ load'[l].result = load[l].result
          /\ load'[l].got = load[l].got /\ load'[l].read = load[l].read /\ load'[l].file = load[l].file
      BY <1>1, <3>1 DEF LoadRecord
    <3> QED BY <1>1, <3>2, <3>3 DEF LoadContent
  <2> QED BY <2>2, <2>3
<1>5. CASE ReadMember(l)
  <2>1. /\ load[l].step = "read"
        /\ load' = [load EXCEPT ![l].read = @ + 1, ![l].got = @ \cup {load[l].file}]
    BY <1>5 DEF ReadMember
  <2>2. LoadFile(l)'
    BY <1>1, <1>2, <2>1 DEF LoadFile, LoadRecord
  <2>3. load'[l].got = {load[l].file} /\ load'[l].file = load[l].file
    BY <1>1, <2>1 DEF LoadContent, LoadRecord
  <2>4. load'[l].step = load[l].step /\ load'[l].listed = load[l].listed /\ load'[l].result = load[l].result
    BY <1>1, <2>1 DEF LoadRecord
  <2> QED BY <1>1, <2>1, <2>2, <2>3, <2>4 DEF LoadContent
<1>6. CASE VerifyFiles(l)
  <2>1. load[l].read = NMembers /\ load[l].listed = NMembers /\ load[l].file \in Saves
    BY <1>1, <1>6 DEF VerifyFiles, LoadFile, LoadContent, LoadRecord
  <2>2. load[l].got = {load[l].file}
    BY <1>1, <2>1, ArchiveAssumption DEF LoadContent
  <2>3. Finish(l, "accepted")
    BY <1>6, <2>1, <2>2 DEF VerifyFiles
  <2>4. load'[l] = [load[l] EXCEPT !.step = "done", !.result = "accepted"]
    BY <1>1, <2>3, FinishTyped
  <2> QED BY <1>1, <1>2, <2>1, <2>4, ArchiveAssumption DEF LoadFile, LoadContent, LoadRecord
<1>7. CASE LoadFails(l)
  <2>1. load'[l] = [load[l] EXCEPT !.step = "done", !.result = "unreadable"]
    BY <1>1, <1>7, FinishTyped DEF LoadFails
  <2> QED BY <1>1, <1>2, <2>1 DEF LoadFile, LoadContent, LoadRecord
<1> QED BY <1>3, <1>4, <1>5, <1>6, <1>7 DEF LoadStep

(* A step of a load keeps the inductive invariant. *)
LEMMA LoadKeepsIInv ==
    ASSUME IInv, NEW l \in Loads, LoadStep(l)
    PROVE  IInv' /\ UNCHANGED saveVars
<1>1. TypeOK'
  BY LoadTypeOK DEF IInv, LoadInv
<1>2. UNCHANGED saveVars /\ \A k \in Loads \ {l} : load'[k] = load[k]
  BY LoadFrame DEF IInv
<1>3. SaveInv' /\ (\A s \in Saves : MovedIsShown(s)') /\ (\A n \in Names : AtIsMoved(n)')
  BY <1>2 DEF IInv, saveVars, SaveInv, PcTemp, PcOutcome, MovedIsWhole, EndTemp, MovedIsShown,
              AtIsMoved, Complete
<1>4. LoadInv'
  <2>1. ASSUME NEW k \in Loads \ {l} PROVE LoadFile(k)' /\ LoadContent(k)'
    BY <1>2, <2>1 DEF IInv, saveVars, LoadInv, LoadFile, LoadContent
  <2> QED BY <2>1, LoadOwn DEF LoadInv
<1> QED BY <1>1, <1>2, <1>3, <1>4 DEF IInv

-----------------------------------------------------------------------------

LEMMA InitIInv == Init => IInv
<1>1. ASSUME Init PROVE SaveInv /\ \A s \in Saves : MovedIsShown(s)
  BY <1>1 DEF Init, SaveInv, PcTemp, PcOutcome, MovedIsWhole, EndTemp, MovedIsShown, BeforeTry, InTry
<1>2. ASSUME Init PROVE \A n \in Names : AtIsMoved(n)
  BY <1>2 DEF Init, AtIsMoved
<1>3. ASSUME Init PROVE LoadInv
  BY <1>3, ArchiveAssumption DEF Init, LoadInv, LoadFile, LoadContent, NewLoad
<1> QED BY <1>1, <1>2, <1>3, InitTypeOK DEF IInv

(* No step breaks the inductive invariant, empties a name or alters a      *)
(* published file.                                                         *)
LEMMA NextIInv ==
    ASSUME IInv, [Next]_vars
    PROVE  /\ IInv'
           /\ \A n \in Names : at[n] # NoSave => at'[n] # NoSave
           /\ \A s \in Saves : temp[s] = "moved" => temp'[s] = "moved" /\ body'[s] = body[s]
<1>1. CASE \E s \in Saves : SaveStep(s)
  BY <1>1, SaveKeepsIInv
<1>2. CASE \E l \in Loads : LoadStep(l)
  BY <1>2, LoadKeepsIInv DEF saveVars
<1>3. CASE UNCHANGED vars
  BY <1>3 DEF vars, IInv, TypeOK, SaveInv, LoadInv, PcTemp, PcOutcome, MovedIsWhole, EndTemp,
              MovedIsShown, AtIsMoved, LoadFile, LoadContent, Complete
<1> QED BY <1>1, <1>2, <1>3 DEF Next

(* The inductive invariant holds in every behaviour. *)
THEOREM Inductive == Spec => []IInv
BY InitIInv, NextIInv, PTL DEF Spec

(* The inductive invariant contains the safety invariants the runs check. *)
LEMMA IInvImplies ==
    ASSUME IInv
    PROVE  PublishedComplete /\ StoredIsThere /\ TempAccountedFor /\ LoadsAreWhole
<1>1. PublishedComplete
  BY DEF IInv, TypeOK, SaveInv, AtIsMoved, MovedIsWhole, PublishedComplete
<1>2. StoredIsThere
  <2>1. ASSUME NEW s \in Saves, outcome[s] = "stored"
        PROVE  at[NameOf[s]] # NoSave
    BY <2>1 DEF IInv, SaveInv, PcOutcome, MovedIsShown
  <2> QED BY <1>1, <2>1, ArchiveAssumption DEF StoredIsThere, PublishedComplete
<1>3. TempAccountedFor
  BY DEF IInv, SaveInv, EndTemp, TempAccountedFor
<1>4. LoadsAreWhole
  <2>1. ASSUME NEW l \in Loads, load[l].file # NoSave PROVE Complete(load[l].file)
    BY <2>1 DEF IInv, TypeOK, LoadRecord, SaveInv, LoadInv, LoadFile, MovedIsWhole
  <2> QED BY <2>1 DEF IInv, LoadInv, LoadFile, LoadContent, LoadsAreWhole
<1> QED BY <1>1, <1>2, <1>3, <1>4

(* Every variable of a save and of a load always has its type. *)
THEOREM Typing == Spec => []TypeOK
BY Inductive, PTL DEF IInv

(* Whatever fails, is interrupted or is killed, at any step of any number  *)
(* of saves, a package name never links to a half-written file.            *)
THEOREM NeverHalfWritten == Spec => []PublishedComplete
BY Inductive, IInvImplies, PTL

(* What save has reported as stored is there and is whole, for good. *)
THEOREM StoredIsDurable == Spec => []StoredIsThere
BY Inductive, IInvImplies, PTL

(* A finished save leaves a temporary file only where no code can help it. *)
THEOREM NoLitter == Spec => []TempAccountedFor
BY Inductive, IInvImplies, PTL

(* A load that races saves returns the whole package of one save. *)
THEOREM WholeLoads == Spec => []LoadsAreWhole
BY Inductive, IInvImplies, PTL

(* A published package is never withdrawn and never altered. *)
THEOREM PublishedForGood == Spec => PublishedStays
<1>1. ASSUME IInv, [Next]_vars
      PROVE  [/\ \A n \in Names : at[n] # NoSave => at'[n] # NoSave
              /\ \A s \in Saves : temp[s] = "moved" => temp'[s] = "moved" /\ body'[s] = body[s]
             ]_vars
  BY <1>1, NextIInv
<1> QED BY <1>1, Inductive, PTL DEF Spec, PublishedStays

-----------------------------------------------------------------------------

(* What a step of s is to the abstract store: the package appears, the     *)
(* caller is answered, or neither.                                         *)
LEMMA SaveKind ==
    ASSUME IInv, NEW s \in Saves, SaveStep(s)
    PROVE  /\ pc[s] # "end"
           /\ \/ /\ at' = [at EXCEPT ![NameOf[s]] = s] /\ pc'[s] # "end"
                 /\ temp[s] # "moved" /\ temp'[s] = "moved"
              \/ at' = at /\ (temp'[s] = "moved" <=> temp[s] = "moved")
<1> USE DEF IInv, TypeOK, SaveInv, PcTemp, Goto, Leave, Stop, Running, BeforeTry, InTry
<1>1. CASE Mkdir(s) \/ BuildFiles(s) \/ ChmodTemp(s) \/ ChmodTarget(s)
  BY <1>1 DEF Mkdir, BuildFiles, ChmodTemp, ChmodTarget
<1>2. CASE MakeTemp(s) \/ CloseDescriptor(s) \/ Cleanup(s) \/ CheckFails(s)
  BY <1>2 DEF MakeTemp, CloseDescriptor, Cleanup, CheckFails
<1>3. CASE WriteMember(s) \/ Seal(s) \/ WriteFails(s)
  BY <1>3 DEF WriteMember, Seal, WriteFails
<1>4. CASE Replace(s) BY <1>4 DEF Replace
<1>5. CASE Interrupt(s) \/ Crash(s) BY <1>5 DEF Interrupt, Crash
<1> QED BY <1>1, <1>2, <1>3, <1>4, <1>5 DEF SaveStep

LEMMA InitRefines == Init => Store!Init
<1>1. ASSUME Init PROVE {s \in Saves : temp[s] = "moved"} = {}
  BY <1>1 DEF Init
<1>2. ASSUME Init PROVE [s \in Saves |-> Answer(s)] = [s \in Saves |-> "pending"]
  BY <1>2 DEF Init, Answer
<1> QED BY <1>1, <1>2 DEF Init, Store!Init

LEMMA StepRefines ==
    ASSUME IInv, [Next]_vars
    PROVE  [Store!Next]_(Store!vars)
<1> DEFINE moved == {s \in Saves : temp[s] = "moved"}
           told == [s \in Saves |-> Answer(s)]
<1>1. ASSUME UNCHANGED <<at, temp, pc, outcome>> PROVE UNCHANGED <<at, moved, told>>
  BY <1>1 DEF Answer
<1>2. ASSUME NEW s \in Saves, SaveStep(s)
      PROVE  \/ Store!Publish(s) \/ Store!AnswerStored(s) \/ Store!AnswerFailed(s)
             \/ UNCHANGED <<at, moved, told>>
  <2>1. \A r \in Saves \ {s} : temp'[r] = temp[r] /\ Answer(r)' = Answer(r)
    BY <1>2, SaveFrame DEF IInv, Answer
  <2>2. Answer(s) = "pending" /\ told[s] = "pending"
    BY <1>2, SaveKind DEF Answer
  <2>3. outcome'[s] = "stored" => temp'[s] = "moved"
    BY <1>2, SaveKeepsIInv DEF IInv, SaveInv, PcOutcome
  <2>4. told' = [told EXCEPT ![s] = Answer(s)']
    BY <2>1
  <2>5. CASE /\ at' = [at EXCEPT ![NameOf[s]] = s] /\ pc'[s] # "end"
             /\ temp[s] # "moved" /\ temp'[s] = "moved"
    <3>1. moved' = moved \cup {s} /\ s \notin moved
      BY <2>1, <2>5
    <3>2. told' = told
      BY <2>2, <2>4, <2>5 DEF Answer
    <3> QED BY <2>2, <2>5, <3>1, <3>2 DEF Store!Publish
  <2>6. CASE at' = at /\ (temp'[s] = "moved" <=> temp[s] = "moved")
    <3>1. moved' = moved
      BY <2>1, <2>6
    <3>2. CASE Answer(s)' = "pending"
      BY <2>2, <2>4, <2>6, <3>1, <3>2
    <3>3. CASE Answer(s)' = "stored"
      <4>1. s \in moved
        BY <2>3, <2>6, <3>3 DEF Answer
      <4> QED BY <2>2, <2>4, <2>6, <3>1, <3>3, <4>1 DEF Store!AnswerStored
    <3>4. CASE Answer(s)' = "failed"
      BY <2>2, <2>4, <2>6, <3>1, <3>4 DEF Store!AnswerFailed
    <3> QED BY <3>2, <3>3, <3>4 DEF Answer
  <2> QED BY <1>2, <2>5, <2>6, SaveKind
<1>3. ASSUME NEW l \in Loads, LoadStep(l) PROVE UNCHANGED <<at, moved, told>>
  BY <1>1, <1>3, LoadKeepsIInv DEF saveVars
<1>4. CASE UNCHANGED vars
  BY <1>1, <1>4 DEF vars, Store!vars
<1>5. CASE Next
  BY <1>2, <1>3, <1>5 DEF Next, Store!Next, Store!vars
<1> QED BY <1>4, <1>5

(* ArchiveStorage.save, step by step and under every failure, is the       *)
(* atomic store of PackageStore.                                           *)
THEOREM Refinement == Spec => ImplementsStore
BY InitRefines, StepRefines, Inductive, PTL DEF Spec, ImplementsStore, Store!Spec
=============================================================================
