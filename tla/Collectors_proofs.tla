-------------------------- MODULE Collectors_proofs --------------------------
(***************************************************************************)
(* Proofs about Collectors for any threads, collectors and results.  IInv  *)
(* says what the lock protects (LockInv), what each collector a capture is *)
(* through with has left (CollectInv), and where each result that is       *)
(* already merged is to be found (MergeInv).                               *)
(* Nothing is said of liveness, NobodyStuck, here.                         *)
(***************************************************************************)
EXTENDS Collectors, FiniteSetTheorems, SequenceTheorems, WellFoundedInduction, TLAPS

Stable == Collectors \ Unstable

Distinct(list) ==
    \A i, j \in DOMAIN list : i < j /\ list[i] \in Stable => NameOf[list[i]] # NameOf[list[j]]

(* No collector of the list whose name can always be read has c's name. *)
NotTaken(list, c) == \A d \in Members(list) \cap Stable : NameOf[d] # NameOf[c]

Locking == {"append", "refuse", "assign"}
Running == {"collect", "merge", "done"}

(* Who is between the check of a name or the filter and what follows from  *)
(* it holds the lock, and what it saw is still so.                         *)
LockInv(t) ==
    /\ phase[t] \in Locking <=> lock = t
    /\ phase[t] = "append" =>
          /\ subject[t] \in Collectors
          /\ NotTaken(registered, subject[t])
    /\ phase[t] = "assign" =>
          \E failing \in SUBSET MayFail(registered) :
             retained[t] = Without(registered, failing, subject[t])

(* A capture that is not running has left nothing behind. *)
Cleared(t) ==
    /\ snapshot[t] = <<>> /\ ran[t] = 0 /\ successful[t] = <<>> /\ errors[t] = {}
    /\ merged[t] = 0

(* A collector the loop is through with has left one result or an error;   *)
(* the others have left nothing.                                           *)
CollectInv(t) ==
    /\ phase[t] \notin Running => Cleared(t)
    /\ ran[t] \in 0..Len(snapshot[t])
    /\ phase[t] \in {"merge", "done"} => ran[t] = Len(snapshot[t])
    /\ \A i \in DOMAIN successful[t] : successful[t][i].at \in 1..ran[t]
    /\ \A i, j \in DOMAIN successful[t] : successful[t][i].at = successful[t][j].at => i = j
    /\ \A n \in 1..ran[t] :
          <<n, "result">> \in errors[t] <=>
             \A i \in DOMAIN successful[t] : successful[t][i].at # n
    /\ \A e \in errors[t] : e[1] \in 1..ran[t]

(* A merged result is under its own keys, or whole under its collector's   *)
(* name unless a later result has that very key.                           *)
Placed(t, i) ==
    IF Conflicts(t, i)
    THEN \E n \in 1..MaxSuffix :
            \/ extensions[t][<<successful[t][i].name, n>>] = [result |-> i, whole |-> TRUE]
            \/ \E j \in (i + 1)..merged[t] :
                  ~Conflicts(t, j) /\ <<successful[t][i].name, n>> \in successful[t][j].keys
    ELSE \A k \in successful[t][i].keys : extensions[t][k] = [result |-> i, whole |-> FALSE]

MergeInv(t) ==
    /\ phase[t] \notin {"merge", "done"} => merged[t] = 0
    /\ merged[t] \in 0..Len(successful[t])
    /\ \A i \in 1..merged[t] : Placed(t, i)

IInv ==
    /\ TypeOK
    /\ Distinct(registered)
    /\ \A t \in Threads : LockInv(t) /\ CollectInv(t) /\ MergeInv(t)

-----------------------------------------------------------------------------
(* Lists of collectors.                                                    *)

LEMMA MembersOf ==
    ASSUME NEW list \in Seq(Collectors)
    PROVE  /\ Len(list) \in Nat /\ DOMAIN list = 1..Len(list)
           /\ \A i \in 1..Len(list) : list[i] \in Collectors
           /\ \A c : c \in Members(list) <=> \E i \in 1..Len(list) : list[i] = c
BY LenProperties, ElementOfSeq DEF Members

LEMMA AppendOne ==
    ASSUME NEW list \in Seq(Collectors), NEW c \in Collectors
    PROVE  /\ Append(list, c) \in Seq(Collectors)
           /\ Members(Append(list, c)) = Members(list) \cup {c}
           /\ Distinct(list) /\ NotTaken(list, c) => Distinct(Append(list, c))
<1> DEFINE new == Append(list, c)
<1>1. /\ new \in Seq(Collectors) /\ Len(new) = Len(list) + 1 /\ Len(list) \in Nat
      /\ \A i \in 1..Len(list) : new[i] = list[i]
      /\ new[Len(list) + 1] = c
  BY AppendProperties, LenProperties
<1> HIDE DEF new
<1>2. DOMAIN new = 1..(Len(list) + 1) /\ DOMAIN list = 1..Len(list)
  BY <1>1, MembersOf
<1>3. \A d : d \in Members(new) <=> d \in Members(list) \/ d = c
  BY <1>1, <1>2 DEF Members
<1>4. ASSUME Distinct(list), NotTaken(list, c)
      PROVE  Distinct(new)
  <2> SUFFICES ASSUME NEW i \in DOMAIN new, NEW j \in DOMAIN new, i < j, new[i] \in Stable
               PROVE  NameOf[new[i]] # NameOf[new[j]]
    BY DEF Distinct
  <2>1. i \in 1..Len(list) /\ new[i] = list[i] /\ list[i] \in Members(list)
    BY <1>1, <1>2 DEF Members
  <2>2. CASE j = Len(list) + 1
    BY <1>1, <1>4, <2>1, <2>2 DEF NotTaken
  <2>3. CASE j \in 1..Len(list)
    BY <1>1, <1>2, <1>4, <2>1, <2>3 DEF Distinct
  <2> QED BY <1>1, <1>2, <2>2, <2>3
<1> QED BY <1>1, <1>3, <1>4 DEF new

-----------------------------------------------------------------------------
(* What unregister keeps, by induction on the list: the induction is over  *)
(* a set of numbers, for which the least number is a matter of the         *)
(* well-founded < alone.                                                   *)

LEMMA SetInduction ==
    ASSUME NEW T \in SUBSET Nat, 0 \in T, \A n \in T : n + 1 \in T
    PROVE  T = Nat
<1> SUFFICES ASSUME T # Nat PROVE FALSE
  OBVIOUS
<1> DEFINE others == Nat \ T
           less == OpToRel(<, Nat)
<1>1. others # {} /\ others \subseteq Nat
  OBVIOUS
<1>2. PICK least \in others : \A n \in others : <<n, least>> \notin less
  <2>1. IsWellFoundedOn(less, Nat)
    BY NatLessThanWellFounded
  <2> HIDE DEF less, others
  <2> QED BY <1>1, <2>1, WFMin, Zenon
<1>3. least # 0 /\ least - 1 \in others /\ least - 1 < least
  OBVIOUS
<1>4. <<least - 1, least>> \in less
  BY <1>3 DEF OpToRel
<1> QED BY <1>2, <1>3, <1>4

(* kept[n] is what is kept of the first n of the list. *)
Filtered(kept, list, failing, name, n) ==
    kept = [m \in 0..n |->
              IF m = 0 THEN <<>>
              ELSE IF ReadName(list, failing, m) # name THEN Append(kept[m - 1], list[m])
              ELSE kept[m - 1]]

LEMMA FilterExists ==
    ASSUME NEW list \in Seq(Collectors), NEW failing, NEW name
    PROVE  \E kept : Filtered(kept, list, failing, name, Len(list)) /\ Without(list, failing, name) = kept[Len(list)]
<1> DEFINE T == {n \in Nat : \E kept : Filtered(kept, list, failing, name, n)}
<1>1. 0 \in T
  <2>1. Filtered([m \in 0..0 |-> <<>>], list, failing, name, 0)
    BY DEF Filtered
  <2> QED BY <2>1
<1>2. ASSUME NEW n \in T PROVE n + 1 \in T
  <2>1. PICK kept : Filtered(kept, list, failing, name, n)
    OBVIOUS
  <2> DEFINE next == IF ReadName(list, failing, n + 1) # name THEN Append(kept[n], list[n + 1]) ELSE kept[n]
             more == [m \in 0..(n + 1) |-> IF m = n + 1 THEN next ELSE kept[m]]
  <2>2. \A m \in 0..n : more[m] = kept[m]
    OBVIOUS
  <2>3. \A m \in 0..n : kept[m] = IF m = 0 THEN <<>>
                                  ELSE IF ReadName(list, failing, m) # name THEN Append(kept[m - 1], list[m])
                                  ELSE kept[m - 1]
    BY <2>1 DEF Filtered
  <2>4. \A m \in 0..(n + 1) : more[m] = IF m = 0 THEN <<>>
                                  ELSE IF ReadName(list, failing, m) # name THEN Append(more[m - 1], list[m])
                                  ELSE more[m - 1]
    <3> SUFFICES ASSUME NEW m \in 0..(n + 1)
                 PROVE  more[m] = IF m = 0 THEN <<>>
                                  ELSE IF ReadName(list, failing, m) # name THEN Append(more[m - 1], list[m])
                                  ELSE more[m - 1]
      OBVIOUS
    <3>1. CASE m = n + 1
      <4>1. more[m] = next /\ more[m - 1] = kept[n] /\ m # 0
        BY <3>1
      <4> HIDE DEF more
      <4> QED BY <3>1, <4>1
    <3>2. CASE m \in 0..n
      <4>1. more[m] = kept[m] /\ (m # 0 => more[m - 1] = kept[m - 1])
        BY <2>2, <3>2
      <4> HIDE DEF more
      <4> QED BY <2>3, <3>2, <4>1
    <3> QED BY <3>1, <3>2
  <2>5. Filtered(more, list, failing, name, n + 1)
    BY <2>4 DEF Filtered
  <2> QED BY <2>5
<1>3. Len(list) \in T
  BY <1>1, <1>2, SetInduction, MembersOf
<1>4. PICK kept : Filtered(kept, list, failing, name, Len(list))
  BY <1>3
<1> QED BY <1>4 DEF Without, Filtered

(* What is kept are members of the list, and all of those among them that  *)
(* are not read under the name.                                            *)
LEMMA WithoutName ==
    ASSUME NEW list \in Seq(Collectors), NEW failing \in SUBSET MayFail(list), NEW name
    PROVE  /\ Without(list, failing, name) \in Seq(Collectors)
           /\ Members(Without(list, failing, name)) \subseteq Members(list)
           /\ \A c \in Members(list) :
                 name \notin NamesOf(c) => c \in Members(Without(list, failing, name))
           /\ Distinct(list) => Distinct(Without(list, failing, name))
<1>1. PICK kept : /\ Filtered(kept, list, failing, name, Len(list))
                  /\ Without(list, failing, name) = kept[Len(list)]
  BY FilterExists
<1>2. /\ kept[0] = <<>>
      /\ \A m \in 1..Len(list) :
            kept[m] = IF ReadName(list, failing, m) # name THEN Append(kept[m - 1], list[m])
                      ELSE kept[m - 1]
  <2>1. Len(list) \in Nat
    BY MembersOf
  <2>2. \A m \in 0..Len(list) : kept[m] = IF m = 0 THEN <<>>
                                  ELSE IF ReadName(list, failing, m) # name THEN Append(kept[m - 1], list[m])
                                  ELSE kept[m - 1]
    BY <1>1 DEF Filtered
  <2> QED BY <2>1, <2>2
<1> DEFINE Right(n) ==
             /\ kept[n] \in Seq(Collectors)
             /\ \A c \in Members(kept[n]) : \E i \in 1..n : list[i] = c
             /\ \A i \in 1..n : name \notin NamesOf(list[i]) => list[i] \in Members(kept[n])
             /\ Distinct(list) => Distinct(kept[n])
           T == {n \in Nat : n <= Len(list) => Right(n)}
<1>3. 0 \in T
  <2>1. <<>> \in Seq(Collectors) /\ DOMAIN <<>> = {}
    OBVIOUS
  <2>2. Right(0)
    BY <1>2, <2>1 DEF Members, Distinct
  <2> QED BY <2>2
<1>4. ASSUME NEW n \in T PROVE n + 1 \in T
  <2> SUFFICES ASSUME n + 1 <= Len(list) PROVE Right(n + 1)
    OBVIOUS
  <2>1. /\ n \in Nat /\ n + 1 \in 1..Len(list) /\ Right(n) /\ Len(list) \in Nat
        /\ list[n + 1] \in Collectors /\ DOMAIN list = 1..Len(list)
    BY MembersOf
  <2>2. kept[n + 1] = IF ReadName(list, failing, n + 1) # name THEN Append(kept[n], list[n + 1])
                      ELSE kept[n]
    BY <1>2, <2>1
  <2>3. \A i : i \in 1..(n + 1) <=> i \in 1..n \/ i = n + 1
    BY <2>1
  <2>4. CASE ReadName(list, failing, n + 1) # name
    <3>1. kept[n + 1] = Append(kept[n], list[n + 1])
      BY <2>2, <2>4
    <3>2. kept[n + 1] \in Seq(Collectors) /\ Members(kept[n + 1]) = Members(kept[n]) \cup {list[n + 1]}
      BY <2>1, <3>1, AppendOne
    <3>3. Distinct(list) => NotTaken(kept[n], list[n + 1])
      <4> SUFFICES ASSUME Distinct(list), NEW d \in Members(kept[n]), d \in Stable
                   PROVE  NameOf[d] # NameOf[list[n + 1]]
        BY DEF NotTaken
      <4>1. PICK i \in 1..n : list[i] = d
        BY <2>1
      <4>2. i \in DOMAIN list /\ i < n + 1
        BY <2>1
      <4> QED BY <2>1, <4>1, <4>2 DEF Distinct
    <3>4. Distinct(list) => Distinct(kept[n + 1])
      BY <2>1, <3>1, <3>3, AppendOne
    <3> QED BY <2>1, <2>3, <3>2, <3>4
  <2>5. CASE ReadName(list, failing, n + 1) = name
    <3>1. name \in NamesOf(list[n + 1])
      BY <2>5 DEF ReadName, NamesOf, MayFail
    <3>2. kept[n + 1] = kept[n]
      BY <2>2, <2>5
    <3> QED BY <2>1, <2>3, <3>1, <3>2
  <2> QED BY <2>4, <2>5
<1>5. Right(Len(list))
  <2>1. T \in SUBSET Nat
    OBVIOUS
  <2> HIDE DEF T
  <2>2. T = Nat
    BY <1>3, <1>4, <2>1, SetInduction
  <2>3. Len(list) \in T /\ Len(list) <= Len(list)
    BY <2>2, MembersOf
  <2> HIDE DEF Right
  <2> QED BY <2>3 DEF T
<1> QED BY <1>1, <1>5, MembersOf DEF Right

-----------------------------------------------------------------------------
(* What a thread's step leaves alone.                                      *)

Phases == {"idle"} \cup Locking \cup Running

CaptureOf(t) == <<snapshot[t], ran[t], successful[t], errors[t], merged[t], extensions[t]>>

(* A run of the collectors depends on its own thread's variables only. *)
LEMMA CaptureFrame ==
    ASSUME NEW t \in Threads, CollectInv(t), MergeInv(t), CaptureOf(t)' = CaptureOf(t),
           phase'[t] = phase[t] \/ (phase[t] \notin Running /\ phase'[t] \notin Running)
    PROVE  CollectInv(t)' /\ MergeInv(t)'
<1>1. /\ snapshot'[t] = snapshot[t] /\ ran'[t] = ran[t] /\ successful'[t] = successful[t]
      /\ errors'[t] = errors[t] /\ merged'[t] = merged[t] /\ extensions'[t] = extensions[t]
  BY DEF CaptureOf
<1>2. CollectInv(t)'
  BY <1>1 DEF CollectInv, Cleared, Running
<1>3. \A i : Conflicts(t, i)' <=> Conflicts(t, i)
  BY <1>1 DEF Conflicts, KeyCount
<1>4. \A i : Placed(t, i)' <=> Placed(t, i)
  BY <1>1, <1>3 DEF Placed
<1>5. MergeInv(t)'
  BY <1>1, <1>4 DEF MergeInv, Running
<1> QED BY <1>2, <1>5

(* A step of register_collector or unregister_collector in thread t. *)
LEMMA RegistryStep ==
    ASSUME IInv, NEW t \in Threads, UNCHANGED captureVars,
           phase[t] \in {"idle"} \cup Locking,
           NEW step \in {"idle"} \cup Locking, phase' = [phase EXCEPT ![t] = step],
           lock = NoThread \/ lock = t, lock' = (IF step = "idle" THEN NoThread ELSE t),
           registered' \in Seq(Collectors), Distinct(registered'),
           subject' \in [Threads -> Collectors \cup Bases \cup {NoCollector}],
           retained' \in [Threads -> Seq(Collectors)],
           step = "append" => /\ subject'[t] \in Collectors
                              /\ NotTaken(registered', subject'[t]),
           step = "assign" => \E failing \in SUBSET MayFail(registered') :
                                 retained'[t] = Without(registered', failing, subject'[t])
    PROVE  IInv'
<1>1. phase \in [Threads -> Phases] /\ lock \in Threads \cup {NoThread} /\ NoThread \notin Threads
  BY CollectorsAssumption DEF IInv, TypeOK, Phases, Locking, Running
<1>2. phase'[t] = step /\ \A u \in Threads \ {t} : phase'[u] = phase[u]
  BY <1>1
<1>3. TypeOK'
  BY <1>1 DEF IInv, TypeOK, captureVars, Locking
<1>4. ASSUME NEW u \in Threads PROVE LockInv(u)'
  <2>1. CASE u = t
    BY <1>1, <1>2, <2>1 DEF LockInv, Locking
  <2>2. CASE u # t
    <3>1. phase[u] \notin Locking
      BY <1>1, <2>2 DEF IInv, LockInv
    <3> QED BY <1>1, <1>2, <2>2, <3>1 DEF LockInv, Locking
  <2> QED BY <2>1, <2>2
<1>5. ASSUME NEW u \in Threads PROVE CollectInv(u)' /\ MergeInv(u)'
  <2>1. CaptureOf(u)' = CaptureOf(u)
    BY DEF CaptureOf, captureVars
  <2>2. phase'[u] = phase[u] \/ (phase[u] \notin Running /\ phase'[u] \notin Running)
    BY <1>2 DEF Running, Locking
  <2> QED BY <2>1, <2>2, CaptureFrame DEF IInv
<1> QED BY <1>3, <1>4, <1>5 DEF IInv

(* A step of a capture in thread t. *)
LEMMA CaptureStep ==
    ASSUME IInv, NEW t \in Threads, UNCHANGED registryVars,
           phase[t] \in {"idle"} \cup Running,
           NEW step \in {"idle"} \cup Running, phase' = [phase EXCEPT ![t] = step],
           TypeOK', \A u \in Threads \ {t} : CaptureOf(u)' = CaptureOf(u),
           CollectInv(t)', MergeInv(t)'
    PROVE  IInv'
<1>1. phase \in [Threads -> Phases]
  BY DEF IInv, TypeOK, Phases, Locking, Running
<1>2. phase'[t] = step /\ \A u \in Threads \ {t} : phase'[u] = phase[u]
  BY <1>1
<1>3. ASSUME NEW u \in Threads PROVE LockInv(u)'
  BY <1>2 DEF IInv, LockInv, registryVars, Locking, Running
<1>4. ASSUME NEW u \in Threads PROVE CollectInv(u)' /\ MergeInv(u)'
  BY <1>2, CaptureFrame DEF IInv
<1> QED BY <1>3, <1>4 DEF IInv, registryVars

-----------------------------------------------------------------------------
(* Registration.                                                           *)

LEMMA FreeIsNotTaken ==
    ASSUME NEW c \in Collectors, NameIsFree(c)
    PROVE  NotTaken(registered, c)
<1> SUFFICES ASSUME NEW n \in DOMAIN registered, registered[n] \in Stable
             PROVE  NameOf[registered[n]] # NameOf[c]
  BY DEF NotTaken, Members
<1>1. PICK failing \in SUBSET MayFail(registered) : ReadName(registered, failing, n) # NameOf[c]
  BY DEF NameIsFree
<1> QED BY <1>1 DEF MayFail, ReadName, Stable

LEMMA RegistrationKeeps ==
    ASSUME IInv, NEW t \in Threads,
           \/ \E c \in Collectors : RegisterCheck(t, c)
           \/ RegisterAppend(t) \/ RegisterRefuse(t)
           \/ \E name \in {NameOf[c] : c \in Collectors} \cup {Fallback} : UnregisterFilter(t, name)
           \/ UnregisterAssign(t)
    PROVE  IInv'
<1>1. /\ registered \in Seq(Collectors) /\ Distinct(registered)
      /\ subject \in [Threads -> Collectors \cup Bases \cup {NoCollector}]
      /\ retained \in [Threads -> Seq(Collectors)]
      /\ LockInv(t) /\ NameOf \in [Collectors -> Bases] /\ Fallback \in Bases
  BY CollectorsAssumption DEF IInv, TypeOK
<1>2. ASSUME NEW c \in Collectors, RegisterCheck(t, c) PROVE IInv'
  <2>1. CASE Goto(t, "append") /\ subject' = [subject EXCEPT ![t] = c] /\ NameIsFree(c)
    <3>1. NotTaken(registered, c)
      BY <2>1, FreeIsNotTaken
    <3> QED BY <1>1, <1>2, <2>1, <3>1, RegistryStep DEF RegisterCheck, Goto, Locking
  <2>2. CASE Goto(t, "refuse") /\ UNCHANGED subject
    BY <1>1, <1>2, <2>2, RegistryStep DEF RegisterCheck, Goto, Locking
  <2> QED BY <1>2, <2>1, <2>2 DEF RegisterCheck
<1>3. CASE RegisterRefuse(t)
  BY <1>1, <1>3, RegistryStep DEF RegisterRefuse, Goto, Locking, LockInv
<1>4. CASE RegisterAppend(t)
  <2>1. registered' \in Seq(Collectors) /\ Distinct(registered')
    BY <1>1, <1>4, AppendOne DEF RegisterAppend, LockInv
  <2>2. lock = t
    BY <1>1, <1>4 DEF RegisterAppend, LockInv, Locking
  <2> QED BY <1>1, <1>4, <2>1, <2>2, RegistryStep DEF RegisterAppend, Goto, Locking
<1>5. ASSUME NEW name \in {NameOf[c] : c \in Collectors} \cup {Fallback}, UnregisterFilter(t, name)
      PROVE  IInv'
  <2>1. PICK failing \in SUBSET MayFail(registered) :
           retained' = [retained EXCEPT ![t] = Without(registered, failing, name)]
    BY <1>5 DEF UnregisterFilter, Retain
  <2>2. Without(registered, failing, name) \in Seq(Collectors) /\ name \in Bases
    BY <1>1, WithoutName
  <2>3. /\ subject' = [subject EXCEPT ![t] = name] /\ phase' = [phase EXCEPT ![t] = "assign"]
        /\ phase[t] = "idle" /\ lock = NoThread /\ lock' = t /\ UNCHANGED <<registered, captureVars>>
    BY <1>5 DEF UnregisterFilter, Retain, Goto
  <2>4. retained'[t] = Without(registered', failing, subject'[t]) /\ failing \in SUBSET MayFail(registered')
    BY <1>1, <2>1, <2>3
  <2>5. /\ subject' \in [Threads -> Collectors \cup Bases \cup {NoCollector}]
        /\ retained' \in [Threads -> Seq(Collectors)]
        /\ registered' \in Seq(Collectors) /\ Distinct(registered')
    BY <1>1, <2>1, <2>2, <2>3
  <2> QED BY <2>3, <2>4, <2>5, RegistryStep DEF Locking
<1>6. CASE UnregisterAssign(t)
  <2>1. /\ \E failing \in SUBSET MayFail(registered) :
              registered' = Without(registered, failing, subject[t])
        /\ lock = t
    BY <1>1, <1>6 DEF UnregisterAssign, LockInv, Locking
  <2>2. registered' \in Seq(Collectors) /\ Distinct(registered')
    BY <1>1, <2>1, WithoutName
  <2>3. <<>> \in Seq(Collectors)
    OBVIOUS
  <2> QED BY <1>1, <1>6, <2>1, <2>2, <2>3, RegistryStep DEF UnregisterAssign, Goto, Locking
<1> QED BY <1>2, <1>3, <1>4, <1>5, <1>6

-----------------------------------------------------------------------------
(* A capture before its merge.                                             *)

LEMMA OthersKept ==
    ASSUME IInv, NEW t \in Threads, \A u \in Threads \ {t} :
              /\ snapshot'[u] = snapshot[u] /\ ran'[u] = ran[u] /\ successful'[u] = successful[u]
              /\ errors'[u] = errors[u] /\ merged'[u] = merged[u] /\ extensions'[u] = extensions[u]
    PROVE  \A u \in Threads \ {t} : CaptureOf(u)' = CaptureOf(u)
BY DEF CaptureOf

(* Before the merge there is nothing to be said of merged results. *)
LEMMA NothingMerged ==
    ASSUME NEW t \in Threads, merged'[t] = 0, Len(successful'[t]) \in Nat
    PROVE  MergeInv(t)'
BY DEF MergeInv

LEMMA SnapshotKeeps ==
    ASSUME IInv, NEW t \in Threads, Snapshot(t)
    PROVE  IInv'
<1>1. /\ registered \in Seq(Collectors) /\ Distinct(registered)
      /\ snapshot \in [Threads -> Seq(Collectors)] /\ successful \in [Threads -> Seq(Success)]
      /\ phase \in [Threads -> Phases]
      /\ phase[t] = "idle" /\ CollectInv(t)
  BY DEF IInv, TypeOK, Snapshot, Phases, Locking, Running
<1>2. /\ snapshot' = [snapshot EXCEPT ![t] = registered] /\ phase' = [phase EXCEPT ![t] = "collect"]
      /\ UNCHANGED <<registryVars, ran, successful, errors, merged, extensions>>
  BY DEF Snapshot, Goto
<1>3. TypeOK'
  BY <1>1, <1>2 DEF IInv, TypeOK, registryVars
<1>4. \A u \in Threads \ {t} : CaptureOf(u)' = CaptureOf(u)
  BY <1>1, <1>2, OthersKept
<1>5. Cleared(t)
  BY <1>1 DEF CollectInv, Running
<1>6. phase'[t] = "collect" /\ snapshot'[t] = registered /\ Len(registered) \in Nat
  BY <1>1, <1>2, LenProperties
<1>7. CollectInv(t)'
  BY <1>1, <1>2, <1>5, <1>6 DEF CollectInv, Cleared, Running
<1>8. MergeInv(t)'
  BY <1>1, <1>2, <1>5, NothingMerged, LenProperties DEF Cleared
<1> QED BY <1>1, <1>2, <1>3, <1>4, <1>7, <1>8, CaptureStep DEF Running

LEMMA CollectKeeps ==
    ASSUME IInv, NEW t \in Threads, Collect(t)
    PROVE  IInv'
<1> DEFINE at == Current(t)
           c == snapshot[t][at]
           results == successful[t]
<1>1. /\ snapshot \in [Threads -> Seq(Collectors)] /\ successful \in [Threads -> Seq(Success)]
      /\ ran \in [Threads -> Nat] /\ merged \in [Threads -> Nat]
      /\ errors \in [Threads -> SUBSET (Nat \X {"name", "result"})]
      /\ phase \in [Threads -> Phases] /\ phase[t] = "collect" /\ ran[t] < Len(snapshot[t])
      /\ CollectInv(t) /\ MergeInv(t) /\ NameOf \in [Collectors -> Bases] /\ Fallback \in Bases
  BY CollectorsAssumption DEF IInv, TypeOK, Collect, Phases, Locking, Running
<1>2. /\ ran' = [ran EXCEPT ![t] = at]
      /\ UNCHANGED <<registryVars, phase, snapshot, merged, extensions>>
  BY DEF Collect, Current
<1>3. /\ at \in Nat /\ at = ran[t] + 1 /\ at \in 0..Len(snapshot[t]) /\ at \notin 1..ran[t]
      /\ \A n : n \in 1..at <=> n \in 1..ran[t] \/ n = at
      /\ c \in Collectors /\ ran[t] \in Nat
  <2>1. Len(snapshot[t]) \in Nat /\ \A n \in 1..Len(snapshot[t]) : snapshot[t][n] \in Collectors
    BY <1>1, MembersOf
  <2> QED BY <1>1, <2>1 DEF Current
<1>4. PICK name \in NamesOf(c) : Succeeds(t, name) \/ Fails(t, name)
  BY DEF Collect
<1> DEFINE unnamed == Unnamed(t, name)
<1>5. unnamed \subseteq {<<at, "name">>} /\ name \in Bases
  BY <1>1, <1>3 DEF Unnamed, NamesOf
<1> HIDE DEF unnamed, c, at
<1>6. /\ ran'[t] = at
      /\ \A e \in errors[t] : e[1] # at /\ e[1] \in 1..ran[t]
      /\ \A i \in DOMAIN results : results[i].at # at /\ results[i].at \in 1..ran[t]
  BY <1>1, <1>2, <1>3 DEF CollectInv
<1>7. merged'[t] = 0 /\ phase'[t] = "collect" /\ Len(results) \in Nat /\ DOMAIN results = 1..Len(results)
  BY <1>1, <1>2, LenProperties DEF MergeInv
<1>8. ran' \in [Threads -> Nat]
  BY <1>1, <1>2, <1>3
<1>9. ASSUME errors' = [errors EXCEPT ![t] = @ \cup unnamed \cup {<<at, "result">>}],
             UNCHANGED successful
      PROVE  IInv'
  <2>1. /\ errors'[t] = errors[t] \cup unnamed \cup {<<at, "result">>}
        /\ errors' \in [Threads -> SUBSET (Nat \X {"name", "result"})]
    BY <1>1, <1>3, <1>5, <1>9
  <2>2. TypeOK'
    BY <1>1, <1>2, <1>8, <1>9, <2>1 DEF IInv, TypeOK, registryVars
  <2>3. \A u \in Threads \ {t} : CaptureOf(u)' = CaptureOf(u)
    BY <1>1, <1>2, <1>9, OthersKept
  <2>4. \A n \in Nat : <<n, "result">> \in errors'[t] <=> <<n, "result">> \in errors[t] \/ n = at
    BY <1>5, <2>1
  <2>5. ASSUME NEW e \in errors'[t] PROVE e[1] \in 1..at
    <3>1. at \in 1..at
      BY <1>3
    <3>2. e \in errors[t] \/ e[1] = at
      BY <1>5, <2>1
    <3> QED BY <1>3, <1>6, <3>1, <3>2
  <2>6. \A n \in 1..at : <<n, "result">> \in errors'[t] <=> \A i \in DOMAIN results : results[i].at # n
    <3> SUFFICES ASSUME NEW n \in 1..at
                 PROVE  <<n, "result">> \in errors'[t] <=> \A i \in DOMAIN results : results[i].at # n
      OBVIOUS
    <3>1. n \in Nat /\ (n \in 1..ran[t] \/ n = at)
      BY <1>3
    <3>2. CASE n = at
      BY <1>3, <1>6, <2>4, <3>2
    <3>3. CASE n \in 1..ran[t]
      <4>1. n # at
        BY <1>3, <3>3
      <4> QED BY <1>1, <2>4, <3>1, <3>3, <4>1 DEF CollectInv
    <3> QED BY <3>1, <3>2, <3>3
  <2>7. CollectInv(t)'
    <3>1. successful'[t] = results /\ snapshot'[t] = snapshot[t]
      BY <1>2, <1>9
    <3>2. /\ \A i \in DOMAIN results : results[i].at \in 1..at
          /\ \A i, j \in DOMAIN results : results[i].at = results[j].at => i = j
      BY <1>1, <1>3, <1>6 DEF CollectInv
    <3> QED BY <1>3, <1>6, <1>7, <2>5, <2>6, <3>1, <3>2 DEF CollectInv, Running
  <2>8. MergeInv(t)'
    BY <1>7, <1>9, NothingMerged
  <2>9. phase' = [phase EXCEPT ![t] = "collect"]
    BY <1>1, <1>2
  <2> QED BY <1>1, <1>2, <2>2, <2>3, <2>7, <2>8, <2>9, CaptureStep DEF Running
<1>10. ASSUME NEW keys \in Results,
              successful' = [successful EXCEPT ![t] =
                      Append(@, [at |-> at, name |-> name, keys |-> keys])],
              errors' = [errors EXCEPT ![t] = @ \cup unnamed]
       PROVE  IInv'
  <2> DEFINE new == [at |-> at, name |-> name, keys |-> keys]
             more == Append(results, new)
  <2>1. new \in Success /\ new.at = at
    BY <1>3, <1>5 DEF Success
  <2> HIDE DEF new
  <2>2. /\ more \in Seq(Success) /\ Len(more) = Len(results) + 1 /\ more[Len(results) + 1] = new
        /\ \A i \in 1..Len(results) : more[i] = results[i]
    BY <1>1, <2>1, AppendProperties
  <2>3. DOMAIN more = 1..(Len(results) + 1)
    BY <2>2, LenProperties
  <2>4. successful' = [successful EXCEPT ![t] = more]
    BY <1>10 DEF new
  <2> HIDE DEF more
  <2>5. successful'[t] = more /\ successful' \in [Threads -> Seq(Success)]
    BY <1>1, <2>2, <2>4
  <2>6. /\ errors'[t] = errors[t] \cup unnamed
        /\ errors' \in [Threads -> SUBSET (Nat \X {"name", "result"})]
    BY <1>1, <1>3, <1>5, <1>10
  <2>7. TypeOK'
    BY <1>1, <1>2, <1>8, <2>5, <2>6 DEF IInv, TypeOK, registryVars
  <2>8. \A u \in Threads \ {t} : CaptureOf(u)' = CaptureOf(u)
    BY <1>1, <1>2, <1>10, OthersKept
  <2>9. \A n \in Nat : <<n, "result">> \in errors'[t] <=> <<n, "result">> \in errors[t]
    BY <1>5, <2>6
  <2>10. ASSUME NEW e \in errors'[t] PROVE e[1] \in 1..at
    <3>1. at \in 1..at
      BY <1>3
    <3>2. e \in errors[t] \/ e[1] = at
      BY <1>5, <2>6
    <3> QED BY <1>3, <1>6, <3>1, <3>2
  <2>11. \A i \in DOMAIN more : more[i].at = at <=> i = Len(results) + 1
    BY <1>6, <1>7, <2>1, <2>2, <2>3
  <2>12. \A i \in DOMAIN more : i # Len(results) + 1 => i \in DOMAIN results /\ more[i] = results[i]
    BY <1>7, <2>2, <2>3
  <2>13. \A i \in DOMAIN results : i \in DOMAIN more /\ more[i] = results[i]
    BY <1>7, <2>2, <2>3
  <2>14. Len(results) + 1 \in DOMAIN more
    BY <1>7, <2>3
  <2>15. \A n \in 1..at : <<n, "result">> \in errors'[t] <=> \A i \in DOMAIN more : more[i].at # n
    <3> SUFFICES ASSUME NEW n \in 1..at
                 PROVE  <<n, "result">> \in errors'[t] <=> \A i \in DOMAIN more : more[i].at # n
      OBVIOUS
    <3>1. CASE n = at
      <4>1. <<n, "result">> \notin errors[t]
        BY <1>6, <3>1
      <4> QED BY <1>3, <2>9, <2>11, <2>14, <3>1, <4>1
    <3>2. CASE n # at
      <4>1. n \in 1..ran[t] /\ n \in Nat
        BY <1>3, <3>2
      <4>2. <<n, "result">> \in errors[t] <=> \A i \in DOMAIN results : results[i].at # n
        BY <1>1, <4>1 DEF CollectInv
      <4> QED BY <2>9, <2>11, <2>12, <2>13, <3>2, <4>1, <4>2
    <3> QED BY <3>1, <3>2
  <2>16. \A i \in DOMAIN more : more[i].at \in 1..at
    BY <1>3, <1>6, <2>11, <2>12
  <2>17. \A i, j \in DOMAIN more : more[i].at = more[j].at => i = j
    <3> SUFFICES ASSUME NEW i \in DOMAIN more, NEW j \in DOMAIN more, more[i].at = more[j].at
                 PROVE  i = j
      OBVIOUS
    <3>1. CASE more[i].at = at
      BY <2>11, <3>1
    <3>2. CASE more[i].at # at
      <4>1. /\ i \in DOMAIN results /\ more[i] = results[i]
            /\ j \in DOMAIN results /\ more[j] = results[j]
        BY <2>11, <2>12, <3>2
      <4>2. results[i].at = results[j].at
        BY <4>1
      <4> QED BY <1>1, <4>1, <4>2 DEF CollectInv
    <3> QED BY <3>1, <3>2
  <2>18. CollectInv(t)'
    BY <1>1, <1>2, <1>3, <1>6, <1>7, <2>5, <2>10, <2>15, <2>16, <2>17 DEF CollectInv, Running
  <2>19. MergeInv(t)'
    BY <1>7, <2>2, <2>5, NothingMerged
  <2>20. phase' = [phase EXCEPT ![t] = "collect"]
    BY <1>1, <1>2
  <2> QED BY <1>1, <1>2, <2>7, <2>8, <2>18, <2>19, <2>20, CaptureStep DEF Running
<1>11. CASE Succeeds(t, name)
  BY <1>10, <1>11 DEF Succeeds, unnamed, at
<1>12. CASE Fails(t, name)
  BY <1>9, <1>12 DEF Fails, unnamed, at
<1> QED BY <1>4, <1>11, <1>12

-----------------------------------------------------------------------------
(* The merge.                                                              *)

(* Two results that share a key are both in conflict. *)
LEMMA SharedKey ==
    ASSUME NEW t \in Threads, successful[t] \in Seq(Success),
           NEW i \in DOMAIN successful[t], NEW j \in DOMAIN successful[t], i # j,
           NEW k \in successful[t][i].keys, k \in successful[t][j].keys
    PROVE  Conflicts(t, i)
<1> DEFINE with == {m \in DOMAIN successful[t] : k \in successful[t][m].keys}
<1>1. DOMAIN successful[t] = 1..Len(successful[t]) /\ Len(successful[t]) \in Nat
  BY LenProperties
<1>2. IsFiniteSet(DOMAIN successful[t])
  BY <1>1, FS_Interval
<1>3. with \in SUBSET DOMAIN successful[t]
  OBVIOUS
<1>4. i \in with /\ j \in with
  OBVIOUS
<1> HIDE DEF with
<1>5. IsFiniteSet(with) /\ Cardinality(with) \in Nat
  BY <1>2, <1>3, FS_Subset, FS_CardinalityType
<1>6. IsFiniteSet({i}) /\ Cardinality({i}) = 1
  BY FS_Singleton
<1>7. Cardinality({i} \cup {j}) = 2
  <2>1. Cardinality({i} \cup {j}) = IF j \in {i} THEN Cardinality({i}) ELSE Cardinality({i}) + 1
    BY <1>6, FS_AddElement, Zenon
  <2>2. j \notin {i}
    OBVIOUS
  <2>3. Cardinality({i} \cup {j}) = Cardinality({i}) + 1
    BY <2>1, <2>2, Zenon
  <2>4. Cardinality({i} \cup {j}) = 1 + 1
    BY <1>6, <2>3, Zenon
  <2>5. 1 + 1 = 2
    OBVIOUS
  <2> QED BY <2>4, <2>5, Zenon
<1>8. {i} \cup {j} \in SUBSET with
  BY <1>4
<1>9. Cardinality({i} \cup {j}) <= Cardinality(with)
  BY <1>5, <1>8, FS_Subset
<1>10. Cardinality(with) > 1
  <2> PICK size \in Nat : size = Cardinality(with)
    BY <1>5
  <2>1. 2 <= size
    BY <1>7, <1>9
  <2> QED BY <2>1
<1> QED BY <1>10 DEF Conflicts, KeyCount, with

(* A name that is made up is free. *)
LEMMA SafeNameIsFree ==
    ASSUME NEW t \in Threads, NEW b \in Bases, Free(t, b) # {}
    PROVE  \E n \in 1..MaxSuffix : SafeName(t, b) = <<b, n>> /\ extensions[t][<<b, n>>] = Absent
<1> DEFINE free == Free(t, b)
           less == OpToRel(<, Nat)
<1>1. free # {} /\ free \subseteq Nat /\ free \subseteq 1..MaxSuffix
  BY CollectorsAssumption DEF Free
<1>2. PICK least \in free : \A n \in free : <<n, least>> \notin less
  <2>1. IsWellFoundedOn(less, Nat)
    BY NatLessThanWellFounded
  <2> HIDE DEF less, free
  <2> QED BY <1>1, <2>1, WFMin, Zenon
<1>3. \A m \in free : least <= m
  <2> SUFFICES ASSUME NEW m \in free, m < least PROVE FALSE
    BY <1>1
  <2>1. <<m, least>> \in less
    BY <1>1 DEF OpToRel
  <2> QED BY <1>2, <2>1
<1> HIDE DEF free
<1>4. (CHOOSE n \in free : \A m \in free : n <= m) \in free
  BY <1>3
<1> QED BY <1>1, <1>4 DEF SafeName, Free, free

LEMMA MergeOneKeeps ==
    ASSUME IInv, NEW t \in Threads, MergeOne(t)
    PROVE  IInv'
<1> PICK j : j = merged[t] + 1
  OBVIOUS
<1> DEFINE r == successful[t][j]
           keyed == [k \in Keys |-> IF k \in r.keys THEN [result |-> j, whole |-> FALSE]
                                    ELSE extensions[t][k]]
           Whole(k) == [extensions[t] EXCEPT ![k] = [result |-> j, whole |-> TRUE]]
           Entries == [Keys -> [result : Nat, whole : BOOLEAN]]
<1>1. /\ successful \in [Threads -> Seq(Success)] /\ merged \in [Threads -> Nat]
      /\ extensions \in [Threads -> Entries]
      /\ phase \in [Threads -> Phases] /\ phase[t] = "merge" /\ CollectInv(t) /\ MergeInv(t)
  BY DEF IInv, TypeOK, MergeOne, Phases, Locking, Running
<1>2. /\ Len(successful[t]) \in Nat /\ DOMAIN successful[t] = 1..Len(successful[t])
      /\ merged[t] \in Nat /\ merged[t] < Len(successful[t])
  BY <1>1, LenProperties DEF MergeOne
<1>3. /\ j \in DOMAIN successful[t] /\ j \in Nat /\ j # 0
      /\ \A i \in 1..j : i \in DOMAIN successful[t] /\ (i = j \/ i \in 1..merged[t])
  BY <1>2
<1>4. r \in Success /\ r.name \in Bases /\ r.keys \subseteq Keys
  <2>1. r \in Success
    BY <1>1, <1>2, <1>3, ElementOfSeq
  <2> QED BY <2>1, CollectorsAssumption DEF Success
<1>5. /\ merged' = [merged EXCEPT ![t] = j]
      /\ UNCHANGED <<registryVars, phase, snapshot, ran, successful, errors>>
      /\ \/ Conflicts(t, j) /\ Free(t, r.name) # {}
               /\ extensions' = [extensions EXCEPT ![t] = Whole(SafeName(t, r.name))]
         \/ ~Conflicts(t, j) /\ extensions' = [extensions EXCEPT ![t] = keyed]
  BY DEF MergeOne
<1> HIDE DEF r
<1>6. ASSUME NEW entries \in Entries, extensions' = [extensions EXCEPT ![t] = entries],
             \A i \in 1..j : Placed(t, i)'
      PROVE  IInv'
  <2>1. TypeOK'
    BY <1>1, <1>3, <1>5, <1>6 DEF IInv, TypeOK, registryVars
  <2>2. \A u \in Threads \ {t} : CaptureOf(u)' = CaptureOf(u)
    BY <1>1, <1>5, <1>6, OthersKept
  <2>3. merged'[t] = j
    BY <1>1, <1>5
  <2>4. CollectInv(t)'
    BY <1>1, <1>5 DEF CollectInv, Running
  <2>5. j \in 0..Len(successful[t])
    BY <1>2, <1>3
  <2>6. MergeInv(t)'
    BY <1>1, <1>5, <1>6, <2>3, <2>5 DEF MergeInv
  <2>7. phase' = [phase EXCEPT ![t] = "merge"]
    BY <1>1, <1>5
  <2> QED BY <1>1, <1>5, <2>1, <2>2, <2>4, <2>6, <2>7, CaptureStep DEF Running
<1>7. \A i : Conflicts(t, i)' <=> Conflicts(t, i)
  BY <1>5 DEF Conflicts, KeyCount
<1>8. \A i \in 1..merged[t] : Placed(t, i) /\ i # j /\ i # 0 /\ j \in (i + 1)..j
                              /\ \A m \in (i + 1)..merged[t] : m \in (i + 1)..j
  BY <1>1, <1>2 DEF MergeInv
<1>9. merged'[t] = j /\ successful'[t] = successful[t]
  BY <1>1, <1>5
<1>10. CASE Conflicts(t, j) /\ Free(t, r.name) # {}
            /\ extensions' = [extensions EXCEPT ![t] = Whole(SafeName(t, r.name))]
  <2>1. PICK n \in 1..MaxSuffix : /\ SafeName(t, r.name) = <<r.name, n>>
                                  /\ extensions[t][<<r.name, n>>] = Absent
    BY <1>4, <1>10, SafeNameIsFree
  <2> DEFINE key == <<r.name, n>>
  <2>2. key \in Keys /\ extensions[t] \in Entries
    BY <1>1, <1>4 DEF Keys
  <2>3. Whole(key) \in Entries /\ [result |-> j, whole |-> TRUE] \in [result : Nat, whole : BOOLEAN]
    BY <1>3, <2>2
  <2>4. extensions' = [extensions EXCEPT ![t] = Whole(key)]
    BY <1>10, <2>1
  <2>5. extensions'[t] = Whole(key)
    BY <1>1, <2>4
  <2>6. /\ extensions'[t][key] = [result |-> j, whole |-> TRUE]
        /\ \A k \in Keys \ {key} : extensions'[t][k] = extensions[t][k]
    BY <2>2, <2>5
  <2>7. \A i \in 1..merged[t] : \A w \in BOOLEAN : [result |-> i, whole |-> w] # Absent
    BY <1>8 DEF Absent
  <2>8. \A i \in 1..merged[t] : \A w \in BOOLEAN : \A k \in Keys :
           extensions[t][k] = [result |-> i, whole |-> w] =>
              extensions'[t][k] = [result |-> i, whole |-> w]
    BY <2>1, <2>6, <2>7
  <2>9. ASSUME NEW i \in 1..merged[t] PROVE Placed(t, i)'
    <3>1. successful[t][i] \in Success /\ successful[t][i].name \in Bases
          /\ successful[t][i].keys \subseteq Keys
      <4>1. successful[t][i] \in Success
        BY <1>1, <1>2, ElementOfSeq
      <4> QED BY <4>1, CollectorsAssumption DEF Success
    <3>2. CASE Conflicts(t, i)
      <4>1. PICK m \in 1..MaxSuffix :
               \/ extensions[t][<<successful[t][i].name, m>>] = [result |-> i, whole |-> TRUE]
               \/ \E l \in (i + 1)..merged[t] :
                     ~Conflicts(t, l) /\ <<successful[t][i].name, m>> \in successful[t][l].keys
        BY <1>8, <3>2 DEF Placed
      <4>2. <<successful[t][i].name, m>> \in Keys
        BY <3>1 DEF Keys
      <4> QED BY <1>7, <1>8, <1>9, <2>8, <3>2, <4>1, <4>2 DEF Placed
    <3>3. CASE ~Conflicts(t, i)
      <4>1. \A k \in successful[t][i].keys : extensions[t][k] = [result |-> i, whole |-> FALSE]
        BY <1>8, <3>3 DEF Placed
      <4> QED BY <1>7, <1>9, <2>8, <3>1, <3>3, <4>1 DEF Placed
    <3> QED BY <3>2, <3>3
  <2>10. Placed(t, j)'
    BY <1>7, <1>9, <1>10, <2>6 DEF Placed, r
  <2>11. \A i \in 1..j : Placed(t, i)'
    BY <1>3, <2>9, <2>10
  <2> HIDE DEF key, Entries
  <2> QED BY <1>6, <2>3, <2>4, <2>11
<1>11. CASE ~Conflicts(t, j) /\ extensions' = [extensions EXCEPT ![t] = keyed]
  <2>1. keyed \in Entries /\ extensions[t] \in Entries
    BY <1>1, <1>3
  <2>2. extensions'[t] = keyed
    BY <1>1, <1>11
  <2>3. /\ \A k \in r.keys : extensions'[t][k] = [result |-> j, whole |-> FALSE]
        /\ \A k \in Keys \ r.keys : extensions'[t][k] = extensions[t][k]
    BY <1>4, <2>2
  <2>4. ASSUME NEW i \in 1..merged[t] PROVE Placed(t, i)'
    <3>1. successful[t][i] \in Success /\ successful[t][i].name \in Bases
          /\ successful[t][i].keys \subseteq Keys /\ i \in DOMAIN successful[t]
      <4>1. i \in 1..Len(successful[t])
        BY <1>2
      <4>2. successful[t][i] \in Success
        BY <1>1, <4>1, ElementOfSeq
      <4> QED BY <1>2, <4>1, <4>2, CollectorsAssumption DEF Success
    <3>2. CASE Conflicts(t, i)
      <4>1. PICK m \in 1..MaxSuffix :
               \/ extensions[t][<<successful[t][i].name, m>>] = [result |-> i, whole |-> TRUE]
               \/ \E l \in (i + 1)..merged[t] :
                     ~Conflicts(t, l) /\ <<successful[t][i].name, m>> \in successful[t][l].keys
        BY <1>8, <3>2 DEF Placed
      <4>2. <<successful[t][i].name, m>> \in Keys
        BY <3>1 DEF Keys
      <4>3. CASE <<successful[t][i].name, m>> \in r.keys
        BY <1>7, <1>8, <1>9, <1>11, <3>2, <4>3 DEF Placed, r
      <4>4. CASE <<successful[t][i].name, m>> \notin r.keys
        BY <1>7, <1>8, <1>9, <2>3, <3>2, <4>1, <4>2, <4>4 DEF Placed
      <4> QED BY <4>3, <4>4
    <3>3. CASE ~Conflicts(t, i)
      <4>1. \A k \in successful[t][i].keys : extensions[t][k] = [result |-> i, whole |-> FALSE]
        BY <1>8, <3>3 DEF Placed
      <4>2. \A k \in successful[t][i].keys : k \notin r.keys
        BY <1>1, <1>3, <1>8, <3>1, <3>3, SharedKey DEF r
      <4> QED BY <1>7, <1>9, <2>3, <3>1, <3>3, <4>1, <4>2 DEF Placed
    <3> QED BY <3>2, <3>3
  <2>5. Placed(t, j)'
    BY <1>7, <1>9, <1>11, <2>3 DEF Placed, r
  <2>6. \A i \in 1..j : Placed(t, i)'
    BY <1>3, <2>4, <2>5
  <2> HIDE DEF keyed, Entries
  <2> QED BY <1>6, <1>11, <2>1, <2>6
<1> QED BY <1>5, <1>10, <1>11

LEMMA TurnKeeps ==
    ASSUME IInv, NEW t \in Threads, StartMerge(t) \/ FinishMerge(t)
    PROVE  IInv'
<1>1. /\ phase \in [Threads -> Phases] /\ CollectInv(t) /\ MergeInv(t)
      /\ UNCHANGED <<registryVars, snapshot, ran, successful, errors, merged, extensions>>
  BY DEF IInv, TypeOK, StartMerge, FinishMerge, captureVars, Phases, Locking, Running
<1>2. PICK step \in {"merge", "done"} :
         /\ phase' = [phase EXCEPT ![t] = step] /\ phase[t] \in {"collect", "merge"}
         /\ phase[t] = "collect" => ran[t] = Len(snapshot[t])
  BY DEF StartMerge, FinishMerge, Goto
<1>3. TypeOK'
  BY <1>1, <1>2 DEF IInv, TypeOK, registryVars
<1>4. \A u \in Threads \ {t} : CaptureOf(u)' = CaptureOf(u)
  BY <1>1, OthersKept
<1>5. phase'[t] = step
  BY <1>1, <1>2
<1>6. CollectInv(t)'
  BY <1>1, <1>2, <1>5 DEF CollectInv, Running
<1>7. \A i : Placed(t, i)' <=> Placed(t, i)
  BY <1>1 DEF Placed, Conflicts, KeyCount
<1>8. MergeInv(t)'
  BY <1>1, <1>5, <1>7 DEF MergeInv
<1> QED BY <1>1, <1>2, <1>3, <1>4, <1>6, <1>8, CaptureStep DEF Running

LEMMA ClearKeeps ==
    ASSUME IInv, NEW t \in Threads, phase[t] \in Running, Clear(t)
    PROVE  IInv'
<1>1. /\ phase \in [Threads -> Phases] /\ <<>> \in Seq(Collectors) /\ <<>> \in Seq(Success)
      /\ NoExtensions \in [Keys -> [result : Nat, whole : BOOLEAN]]
      /\ snapshot \in [Threads -> Seq(Collectors)] /\ ran \in [Threads -> Nat]
      /\ successful \in [Threads -> Seq(Success)]
      /\ errors \in [Threads -> SUBSET (Nat \X {"name", "result"})]
      /\ merged \in [Threads -> Nat]
      /\ extensions \in [Threads -> [Keys -> [result : Nat, whole : BOOLEAN]]]
  BY DEF IInv, TypeOK, Phases, Locking, Running, NoExtensions, Absent
<1>2. phase' = [phase EXCEPT ![t] = "idle"] /\ phase'[t] = "idle"
  BY <1>1 DEF Clear, Goto
<1>3. /\ TypeOK' /\ Cleared(t)'
      /\ \A u \in Threads \ {t} : CaptureOf(u)' = CaptureOf(u)
  BY <1>1, <1>2 DEF IInv, TypeOK, Clear, registryVars, Cleared, CaptureOf
<1>4. CollectInv(t)'
  BY <1>2, <1>3 DEF CollectInv, Cleared
<1>5. MergeInv(t)'
  BY <1>1, <1>3, NothingMerged, LenProperties DEF Cleared
<1>6. UNCHANGED registryVars
  BY DEF Clear
<1> QED BY <1>2, <1>3, <1>4, <1>5, <1>6, CaptureStep

-----------------------------------------------------------------------------

LEMMA InitIInv == Init => IInv
<1> SUFFICES ASSUME Init PROVE IInv
  OBVIOUS
<1>1. <<>> \in Seq(Collectors) /\ <<>> \in Seq(Success)
  OBVIOUS
<1>2. TypeOK
  BY <1>1 DEF Init, TypeOK, NoExtensions, Absent
<1>3. Distinct(registered)
  BY DEF Init, Distinct
<1>4. ASSUME NEW t \in Threads PROVE LockInv(t) /\ CollectInv(t) /\ MergeInv(t)
  <2>1. LockInv(t)
    BY CollectorsAssumption DEF Init, LockInv, Locking
  <2>2. CollectInv(t)
    BY DEF Init, CollectInv, Cleared
  <2>3. MergeInv(t)
    BY DEF Init, MergeInv
  <2> QED BY <2>1, <2>2, <2>3
<1> QED BY <1>2, <1>3, <1>4 DEF IInv

LEMMA NextIInv == IInv /\ [Next]_vars => IInv'
<1> SUFFICES ASSUME IInv, [Next]_vars PROVE IInv'
  OBVIOUS
<1>1. ASSUME NEW t \in Threads,
             \/ \E c \in Collectors : RegisterCheck(t, c)
             \/ RegisterAppend(t) \/ RegisterRefuse(t)
             \/ \E name \in {NameOf[c] : c \in Collectors} \cup {Fallback} : UnregisterFilter(t, name)
             \/ UnregisterAssign(t)
      PROVE  IInv'
  BY <1>1, RegistrationKeeps
<1>2. ASSUME NEW t \in Threads,
             Snapshot(t) \/ Collect(t) \/ StartMerge(t) \/ MergeOne(t) \/ FinishMerge(t)
      PROVE  IInv'
  BY <1>2, SnapshotKeeps, CollectKeeps, TurnKeeps, MergeOneKeeps
<1>3. ASSUME NEW t \in Threads, RunReturns(t) \/ RunInterrupted(t) PROVE IInv'
  BY <1>3, ClearKeeps DEF RunReturns, RunInterrupted, Running
<1>4. CASE UNCHANGED vars
  <2>1. TypeOK' /\ Distinct(registered') /\ \A t \in Threads : LockInv(t)'
    BY <1>4 DEF vars, IInv, TypeOK, LockInv
  <2>2. ASSUME NEW t \in Threads PROVE CollectInv(t)' /\ MergeInv(t)'
    BY <1>4, CaptureFrame DEF vars, IInv, CaptureOf
  <2> QED BY <2>1, <2>2 DEF IInv
<1> QED BY <1>1, <1>2, <1>3, <1>4 DEF Next

LEMMA Inductive == Spec => []IInv
BY InitIInv, NextIInv, PTL DEF Spec

(* Every variable always has its type. *)
THEOREM Typing == Spec => []TypeOK
<1>1. IInv => TypeOK
  BY DEF IInv
<1> QED BY Inductive, <1>1, PTL

(* Whatever threads register and unregister at the same time, no two       *)
(* registered collectors have one name.                                    *)
THEOREM NoNameTwice == Spec => []NamesUnique
<1>1. IInv => NamesUnique
  BY DEF IInv, TypeOK, Distinct, Stable, NamesUnique
<1> QED BY Inductive, <1>1, PTL

(* register_collector and unregister_collector, each a read and a write of *)
(* the list, lose no registration of another thread's.                     *)
THEOREM NoRegistrationLost == Spec => RegistrationStays
<1> DEFINE Stays == \A c \in Members(registered) :
              \/ c \in Members(registered')
              \/ \E t \in Threads : phase[t] = "assign" /\ subject[t] \in NamesOf(c)
<1>1. IInv /\ [Next]_vars => [Stays]_registered
  <2> SUFFICES ASSUME IInv, [Next]_vars, registered' # registered PROVE Stays
    OBVIOUS
  <2>1. PICK t \in Threads : RegisterAppend(t) \/ UnregisterAssign(t)
    BY DEF Next, RegisterCheck, RegisterRefuse, UnregisterFilter,
           Retain, Snapshot, Collect, StartMerge,
           MergeOne, FinishMerge, RunReturns, RunInterrupted, Clear, registryVars, vars
  <2>2. registered \in Seq(Collectors) /\ LockInv(t)
    BY DEF IInv, TypeOK
  <2>3. CASE RegisterAppend(t)
    <3>1. Members(registered') = Members(registered) \cup {subject[t]}
      BY <2>2, <2>3, AppendOne DEF RegisterAppend, LockInv
    <3> QED BY <3>1
  <2>4. CASE UnregisterAssign(t)
    <3>1. phase[t] = "assign" /\ \E failing \in SUBSET MayFail(registered) :
                                    registered' = Without(registered, failing, subject[t])
      BY <2>2, <2>4 DEF UnregisterAssign, LockInv
    <3>2. \A c \in Members(registered) : subject[t] \notin NamesOf(c) => c \in Members(registered')
      BY <2>2, <3>1, WithoutName
    <3> QED BY <3>1, <3>2
  <2> QED BY <2>1, <2>3, <2>4
<1> QED BY Inductive, <1>1, PTL DEF Spec, RegistrationStays

(* When its results are merged, every collector of the snapshot has left a *)
(* result or an error, and not both, however it and the others failed.     *)
THEOREM EachCollectorAccountedFor == Spec => []EachAccountedFor
<1>1. IInv => EachAccountedFor
  <2> SUFFICES ASSUME IInv, NEW t \in Threads, phase[t] \in {"merge", "done"},
                      NEW n \in DOMAIN snapshot[t]
               PROVE  Cardinality({i \in DOMAIN successful[t] : successful[t][i].at = n})
                         = IF <<n, "result">> \in errors[t] THEN 0 ELSE 1
    BY DEF EachAccountedFor
  <2> DEFINE results == {i \in DOMAIN successful[t] : successful[t][i].at = n}
  <2>1. CollectInv(t) /\ n \in 1..ran[t]
    <3>1. DOMAIN snapshot[t] = 1..Len(snapshot[t])
      BY MembersOf DEF IInv, TypeOK
    <3> QED BY <3>1 DEF IInv, CollectInv
  <2>2. CASE <<n, "result">> \in errors[t]
    <3>1. results = {}
      BY <2>1, <2>2 DEF CollectInv
    <3> QED BY <2>2, <3>1, FS_EmptySet
  <2>3. CASE <<n, "result">> \notin errors[t]
    <3>1. PICK i \in DOMAIN successful[t] : successful[t][i].at = n
      BY <2>1, <2>3 DEF CollectInv
    <3>2. results = {i}
      BY <2>1, <3>1 DEF CollectInv
    <3> QED BY <2>3, <3>2, FS_Singleton
  <2> QED BY <2>2, <2>3
<1> QED BY Inductive, <1>1, PTL

(* However the results of a capture share keys and names, merging them     *)
(* loses none but one whose collector's name a later result has as a key.  *)
THEOREM MergeLosesNothingElse == Spec => []LostOnlyToItsName
<1>1. IInv => LostOnlyToItsName
  <2> SUFFICES ASSUME IInv, NEW t \in Threads, NEW i \in 1..merged[t]
               PROVE  Kept(t, i) \/ /\ Conflicts(t, i)
                                    /\ \E j \in (i + 1)..merged[t] :
                                          /\ ~Conflicts(t, j)
                                          /\ \E n \in 1..MaxSuffix :
                                                <<successful[t][i].name, n>> \in successful[t][j].keys
    BY DEF LostOnlyToItsName
  <2>1. Placed(t, i) /\ merged[t] \in 0..Len(successful[t]) /\ successful[t] \in Seq(Success)
    BY DEF IInv, TypeOK, MergeInv
  <2>2. successful[t][i].name \in Bases
    <3>1. i \in 1..Len(successful[t])
      BY <2>1, LenProperties
    <3>2. successful[t][i] \in Success
      BY <2>1, <3>1, ElementOfSeq
    <3> QED BY <3>2 DEF Success
  <2>3. \A n \in 1..MaxSuffix : <<successful[t][i].name, n>> \in Keys
    BY <2>2 DEF Keys
  <2>4. CASE Conflicts(t, i)
    BY <2>1, <2>3, <2>4 DEF Placed, Kept
  <2>5. CASE ~Conflicts(t, i)
    BY <2>1, <2>5 DEF Placed, Kept
  <2> QED BY <2>4, <2>5
<1> QED BY Inductive, <1>1, PTL
=============================================================================
