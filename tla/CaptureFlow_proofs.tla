-------------------------- MODULE CaptureFlow_proofs --------------------------
(***************************************************************************)
(* Proofs about CaptureFlow for any tasks, nested as deep as one likes.    *)
(* What a layer has achieved when it ends is a matter of which step of its *)
(* capture it went through: IInv says, for the step a task is at, what is  *)
(* in flight there (Shape) and what its record has been through (Recorded).*)
(***************************************************************************)
EXTENDS CaptureFlow, SequenceTheorems, TLAPS

Phases == {"new", "run", "raise", "exit"} \cup Capturing

(* An exception is in flight unless the program runs; a layer at work has  *)
(* caught one that is an Exception, and it only reports if not strict.     *)
Shape(t) ==
    /\ flight[t] # <<>> <=> phase[t] \notin {"new", "run"}
    /\ phase[t] \in Capturing \cup {"exit"} => stack[t] # <<>> /\ flight[t][1] # "base"
    /\ phase[t] = "report" => ~Top(t).strict

(* A record is stored before it is accepted, the last one before the       *)
(* callback runs, and a strict layer's exit comes after all of it.         *)
Recorded(t) ==
    /\ phase[t] \in {"accept", "callback"} => record[t] \in stored
    /\ phase[t] = "callback" => last[t] = LastOfLayer(t)
    /\ phase[t] \notin {"callback", "exit"} => inner[t] = NoRecord
    /\ phase[t] = "exit" /\ Top(t).strict =>
          /\ record[t] \in stored
          /\ last[t] = LastOfLayer(t)
          /\ Top(t).callback => record[t] \in told
    /\ last[t] # NoRecord => last[t] \in stored

IInv ==
    /\ TypeOK
    /\ \A t \in Tasks : Shape(t) /\ Recorded(t)
    /\ told \subseteq stored

-----------------------------------------------------------------------------
(* Stacks and chains of causes.                                            *)

(* A layer put on a stack, the innermost one, and the stack without it. *)
LEMMA Stacks ==
    ASSUME NEW layers \in Seq(Layer)
    PROVE  /\ \A layer \in Layer : Append(layers, layer) \in Seq(Layer)
                                   /\ Append(layers, layer) # <<>>
           /\ layers # <<>> => /\ layers[Len(layers)] \in Layer
                              /\ SubSeq(layers, 1, Len(layers) - 1) \in Seq(Layer)
<1>1. Len(layers) \in Nat /\ (layers # <<>> => Len(layers) \in 1..Len(layers))
  BY LenProperties, EmptySeq
<1>2. \A i \in 1..Len(layers) : layers[i] \in Layer
  BY ElementOfSeq
<1>3. \A i \in 1..(Len(layers) - 1) : layers[i] \in Layer
  BY <1>1, <1>2
<1>4. SubSeq(layers, 1, Len(layers) - 1) \in Seq(Layer)
  BY <1>1, <1>3, SubSeqProperties
<1> QED BY <1>1, <1>2, <1>4, AppendProperties

(* A chain of one exception, and one with a new exception in front. *)
LEMMA Chains ==
    ASSUME NEW kind \in Kinds
    PROVE  /\ <<kind>> \in Seq(Kinds) /\ <<kind>> # <<>> /\ <<kind>>[1] = kind
           /\ \A chain \in Seq(Kinds) : <<kind>> \o chain \in Seq(Kinds)
                                       /\ <<kind>> \o chain # <<>>
<1>1. <<kind>> \in Seq(Kinds) /\ Len(<<kind>>) = 1 /\ <<kind>> # <<>> /\ <<kind>>[1] = kind
  OBVIOUS
<1>2. ASSUME NEW chain \in Seq(Kinds)
      PROVE  <<kind>> \o chain \in Seq(Kinds) /\ <<kind>> \o chain # <<>>
  <2>1. /\ <<kind>> \o chain \in Seq(Kinds) /\ Len(<<kind>> \o chain) = 1 + Len(chain)
        /\ Len(chain) \in Nat
    BY <1>1, ConcatProperties, LenProperties
  <2>2. Len(<<kind>> \o chain) # 0
    BY <2>1
  <2> QED BY <2>1, <2>2, EmptySeq
<1> QED BY <1>1, <1>2

-----------------------------------------------------------------------------
(* A step of task t.                                                       *)

Untouched(t) == \A u \in Tasks \ {t} :
    /\ phase'[u] = phase[u] /\ stack'[u] = stack[u] /\ flight'[u] = flight[u]
    /\ record'[u] = record[u] /\ inner'[u] = inner[u] /\ last'[u] = last[u]

(* What is stored or told stays so: the other tasks' invariant is kept. *)
LEMMA Frame ==
    ASSUME IInv, NEW t \in Tasks, TypeOK', Untouched(t), Shape(t)', Recorded(t)',
           stored \subseteq stored', told \subseteq told', told' \subseteq stored'
    PROVE  IInv'
<1>1. ASSUME NEW u \in Tasks \ {t} PROVE Shape(u)' /\ Recorded(u)'
  <2>1. Shape(u) /\ Recorded(u)
    BY DEF IInv
  <2>2. /\ phase'[u] = phase[u] /\ stack'[u] = stack[u] /\ flight'[u] = flight[u]
        /\ record'[u] = record[u] /\ inner'[u] = inner[u] /\ last'[u] = last[u]
    BY DEF Untouched
  <2>3. Top(u)' = Top(u)
    BY <2>2 DEF Top
  <2>4. Shape(u)'
    BY <2>1, <2>2, <2>3 DEF Shape
  <2>5. Recorded(u)'
    BY <2>1, <2>2, <2>3 DEF Recorded, LastOfLayer
  <2> QED BY <2>4, <2>5
<1> QED BY <1>1 DEF IInv

(* The program is at work, or t's layer let its exception on. *)
LEMMA Outside ==
    ASSUME IInv, NEW t \in Tasks,
           NEW step \in {"run", "raise"}, phase' = [phase EXCEPT ![t] = step],
           NEW layers \in Seq(Layer), stack' = [stack EXCEPT ![t] = layers],
           NEW chain \in Seq(Kinds), flight' = [flight EXCEPT ![t] = chain],
           chain # <<>> <=> step = "raise",
           (UNCHANGED <<record, inner>> /\ inner[t] = NoRecord) \/ Forget(t),
           raises' \in 0..MaxRaises, UNCHANGED <<config, stderr, last, made, stored, told>>
    PROVE  IInv'
<1>1. record \in [Tasks -> Nat] /\ inner \in [Tasks -> Nat]
  BY DEF IInv, TypeOK
<1>2. /\ record' \in [Tasks -> Nat] /\ inner' \in [Tasks -> Nat]
      /\ \A u \in Tasks \ {t} : record'[u] = record[u] /\ inner'[u] = inner[u]
      /\ inner'[t] = NoRecord
  <2>1. CASE UNCHANGED <<record, inner>> /\ inner[t] = NoRecord
    BY <1>1, <2>1
  <2>2. CASE Forget(t)
    BY <1>1, <2>2 DEF Forget, NoRecord
  <2> QED BY <2>1, <2>2
<1>3. TypeOK'
  BY <1>2 DEF IInv, TypeOK
<1>4. TypeOK' /\ Untouched(t) /\ phase'[t] = step /\ flight'[t] = chain
  BY <1>2, <1>3 DEF IInv, TypeOK, Untouched
<1>5. Shape(t)'
  BY <1>4 DEF Shape, Capturing
<1>6. Recorded(t)'
  BY <1>4, <1>2 DEF IInv, TypeOK, Recorded, Capturing
<1> QED BY <1>4, <1>5, <1>6, Frame DEF IInv

(* t's layer goes on with its capture. *)
LEMMA Inside ==
    ASSUME IInv, NEW t \in Tasks, phase[t] \in Capturing,
           NEW step \in Capturing \cup {"exit"}, phase' = [phase EXCEPT ![t] = step],
           step = "report" => ~Top(t).strict,
           UNCHANGED <<config, stderr, stack, flight, raises>>,
           made' \in Nat, NEW r \in Nat, record' = [record EXCEPT ![t] = r],
           NEW i \in Nat, inner' = [inner EXCEPT ![t] = i],
           NEW l \in Nat, last' = [last EXCEPT ![t] = l],
           stored' \in SUBSET Nat, stored \subseteq stored',
           told' \subseteq stored', told \subseteq told', Recorded(t)'
    PROVE  IInv'
<1>1. TypeOK' /\ Untouched(t) /\ phase'[t] = step
  BY DEF IInv, TypeOK, Untouched
<1>2. Shape(t)'
  BY <1>1 DEF IInv, Shape, Top, Capturing
<1> QED BY <1>1, <1>2, Frame

-----------------------------------------------------------------------------
(* What the program does.                                                  *)

LEMMA ProgramKeeps ==
    ASSUME IInv, NEW t \in Tasks,
           Enter(t) \/ Return(t) \/ Raise(t) \/ CaptureException(t) \/ LeaveOutermost(t) \/ Catch(t)
    PROVE  IInv'
<1>1. /\ phase \in [Tasks -> Phases] /\ phase[t] \in Phases
      /\ stack \in [Tasks -> Seq(Layer)] /\ stack[t] \in Seq(Layer)
      /\ flight \in [Tasks -> Seq(Kinds)] /\ flight[t] \in Seq(Kinds)
      /\ raises \in 0..MaxRaises /\ MaxRaises \in Nat
      /\ record \in [Tasks -> Nat] /\ inner \in [Tasks -> Nat] /\ last \in [Tasks -> Nat]
      /\ config \in BOOLEAN /\ Shape(t) /\ Recorded(t)
  BY FlowAssumption DEF IInv, TypeOK, Phases
<1>2. phase[t] \in {"run", "raise"} /\ inner[t] = NoRecord
  BY <1>1 DEF Recorded, Enter, Return, Raise, CaptureException, LeaveOutermost, Catch
<1>3. phase = [phase EXCEPT ![t] = phase[t]] /\ stack = [stack EXCEPT ![t] = stack[t]]
      /\ flight = [flight EXCEPT ![t] = flight[t]]
  BY <1>1
<1>4. CASE Enter(t)
  <2>1. PICK strict, callback \in BOOLEAN :
           stack' = [stack EXCEPT ![t] = Append(stack[t],
                       [strict |-> strict, callback |-> callback, reRaise |-> config])]
    BY <1>4 DEF Enter
  <2>2. [strict |-> strict, callback |-> callback, reRaise |-> config] \in Layer
    BY <1>1 DEF Layer
  <2>3. Append(stack[t], [strict |-> strict, callback |-> callback, reRaise |-> config]) \in Seq(Layer)
    BY <1>1, <2>2, Stacks
  <2>4. flight[t] = <<>>
    BY <1>1, <1>4 DEF Enter, Shape
  <2> QED BY <1>1, <1>3, <1>4, <1>2, <2>1, <2>3, <2>4, Outside DEF Enter
<1>5. CASE Return(t)
  <2>1. flight[t] = <<>> /\ SubSeq(stack[t], 1, Len(stack[t]) - 1) \in Seq(Layer)
    BY <1>1, <1>5, Stacks DEF Return, Shape
  <2> QED BY <1>1, <1>3, <1>5, <1>2, <2>1, Outside DEF Return, Pop
<1>6. CASE Raise(t)
  <2>1. PICK kind \in {"app", "base"} : flight' = [flight EXCEPT ![t] = <<kind>>]
    BY <1>6 DEF Raise
  <2>2. <<kind>> \in Seq(Kinds) /\ <<kind>> # <<>> /\ raises' \in 0..MaxRaises
    BY <1>1, <1>6, Chains DEF Raise, Kinds
  <2> QED BY <1>1, <1>3, <1>6, <1>2, <2>1, <2>2, Outside DEF Raise, Goto
<1>7. CASE CaptureException(t)
  <2>1. PICK strict, callback \in BOOLEAN :
           stack' = [stack EXCEPT ![t] = Append(stack[t],
                       [strict |-> strict, callback |-> callback, reRaise |-> FALSE])]
    BY <1>7 DEF CaptureException
  <2>2. [strict |-> strict, callback |-> callback, reRaise |-> FALSE] \in Layer
    BY DEF Layer
  <2> DEFINE layers == Append(stack[t], [strict |-> strict, callback |-> callback, reRaise |-> FALSE])
  <2>3. layers \in Seq(Layer) /\ layers # <<>>
    BY <1>1, <2>2, Stacks
  <2>4. stack' = [stack EXCEPT ![t] = layers]
    BY <2>1
  <2> HIDE DEF layers
  <2>5. <<"app">> \in Seq(Kinds) /\ <<"app">> # <<>> /\ <<"app">>[1] = "app"
    BY Chains DEF Kinds
  <2>6. raises' \in 0..MaxRaises
    BY <1>1, <1>7 DEF CaptureException
  <2>7. /\ phase' = [phase EXCEPT ![t] = "setup"] /\ flight' = [flight EXCEPT ![t] = <<"app">>]
        /\ UNCHANGED <<config, stderr, record, inner, last, made, stored, told>>
    BY <1>7 DEF CaptureException, Goto
  <2>8. TypeOK' /\ Untouched(t)
    BY <1>1, <2>3, <2>4, <2>5, <2>6, <2>7 DEF IInv, TypeOK, Untouched, Capturing
  <2>9. phase'[t] = "setup" /\ stack'[t] = layers /\ flight'[t] = <<"app">>
    BY <1>1, <2>4, <2>7
  <2>10. Shape(t)'
    BY <2>3, <2>5, <2>9 DEF Shape
  <2>11. Recorded(t)'
    BY <1>1, <1>2, <2>7, <2>9 DEF Recorded
  <2> QED BY <2>7, <2>8, <2>10, <2>11, Frame DEF IInv
<1>8. CASE LeaveOutermost(t)
  <2>1. <<>> \in Seq(Kinds)
    OBVIOUS
  <2> QED BY <1>1, <1>3, <1>8, <1>2, <2>1, Outside DEF LeaveOutermost, Goto
<1>9. CASE Catch(t) /\ flight[t][1] = "base"
  <2>1. SubSeq(stack[t], 1, Len(stack[t]) - 1) \in Seq(Layer) /\ flight[t] # <<>>
    BY <1>1, <1>9, Stacks DEF Catch, Shape
  <2> QED BY <1>1, <1>3, <1>9, <1>2, <2>1, Outside DEF Catch, Pop
<1>10. CASE Catch(t) /\ flight[t][1] # "base"
  <2>1. /\ phase[t] = "raise" /\ stack[t] # <<>> /\ phase' = [phase EXCEPT ![t] = "setup"]
        /\ UNCHANGED <<config, stderr, stack, flight, record, inner, last, made, stored, told, raises>>
    BY <1>10 DEF Catch, Goto
  <2>2. TypeOK' /\ Untouched(t) /\ phase'[t] = "setup"
    BY <1>1, <2>1 DEF IInv, TypeOK, Untouched, Capturing
  <2>3. Shape(t)' /\ Recorded(t)'
    BY <1>1, <1>10, <1>2, <2>1, <2>2 DEF Shape, Recorded
  <2> QED BY <2>1, <2>2, <2>3, Frame DEF IInv
<1> QED BY <1>4, <1>5, <1>6, <1>7, <1>8, <1>9, <1>10

-----------------------------------------------------------------------------
(* What a layer does.                                                      *)

(* What t's layer raises in the except clause. *)
LEMMA ReplaceKeeps ==
    ASSUME IInv, NEW t \in Tasks, phase[t] \in Capturing,
           NEW chain \in Seq(Kinds), chain # <<>>, Replace(t, chain),
           UNCHANGED <<config, stderr, last, made, stored, told, raises>>
    PROVE  IInv'
<1>1. stack[t] # <<>> /\ stack[t] \in Seq(Layer) /\ raises \in 0..MaxRaises
  BY DEF IInv, TypeOK, Shape
<1>2. SubSeq(stack[t], 1, Len(stack[t]) - 1) \in Seq(Layer)
  BY <1>1, Stacks
<1> QED BY <1>1, <1>2, Outside DEF Replace, Pop, Goto

LEMMA FailedKeeps ==
    ASSUME IInv, NEW t \in Tasks, phase[t] \in Capturing \ {"callback"}, Failed(t),
           UNCHANGED <<config, stderr, last, made, stored, told, raises>>
    PROVE  IInv'
<1>1. /\ flight[t] \in Seq(Kinds) /\ record[t] \in Nat /\ last[t] \in Nat
      /\ record = [record EXCEPT ![t] = record[t]] /\ last = [last EXCEPT ![t] = last[t]]
      /\ inner[t] \in Nat /\ inner = [inner EXCEPT ![t] = inner[t]]
      /\ phase \in [Tasks -> Phases] /\ made \in Nat /\ stored \in SUBSET Nat
      /\ Recorded(t) /\ told \subseteq stored
  BY DEF IInv, TypeOK, Phases
<1>2. CASE Top(t).strict
  BY <1>1, <1>2, ReplaceKeeps, Chains DEF Failed, Kinds
<1>3. CASE ~Top(t).strict
  <2>1. phase' = [phase EXCEPT ![t] = "report"] /\ UNCHANGED <<stack, flight, record, inner>>
    BY <1>3 DEF Failed, Proceed, Goto
  <2>2. inner[t] = NoRecord
    BY <1>1 DEF Recorded, Capturing
  <2>3. Recorded(t)'
    BY <1>1, <2>1, <2>2 DEF Recorded
  <2> QED BY <1>1, <1>3, <2>1, <2>3, Inside DEF Capturing
<1> QED BY <1>2, <1>3

LEMMA FailedSetUpKeeps ==
    ASSUME IInv, NEW t \in Tasks, phase[t] \in {"setup", "engine"}, FailedSetUp(t),
           UNCHANGED <<config, stderr, last, made, stored, told, raises>>
    PROVE  IInv'
<1>1. phase[t] \in Capturing \ {"callback"}
  BY DEF Capturing
<1>2. CASE Failed(t)
  BY <1>1, <1>2, FailedKeeps
<1>3. CASE Replace(t, <<"text">>)
  BY <1>1, <1>3, ReplaceKeeps, Chains DEF Kinds
<1> QED BY <1>2, <1>3 DEF FailedSetUp

LEMMA LayerKeeps ==
    ASSUME IInv, NEW t \in Tasks,
           SetUp(t) \/ Engine(t) \/ Save(t) \/ Report(t) \/ Accept(t) \/ Callback(t)
              \/ Interrupt(t) \/ Exit(t)
    PROVE  IInv'
<1>1. /\ phase \in [Tasks -> Phases]
      /\ stack \in [Tasks -> Seq(Layer)] /\ stack[t] \in Seq(Layer)
      /\ flight \in [Tasks -> Seq(Kinds)] /\ flight[t] \in Seq(Kinds)
      /\ record \in [Tasks -> Nat] /\ record[t] \in Nat
      /\ inner \in [Tasks -> Nat] /\ inner[t] \in Nat
      /\ last \in [Tasks -> Nat] /\ last[t] \in Nat
      /\ made \in Nat /\ stored \in SUBSET Nat /\ told \subseteq stored /\ raises \in 0..MaxRaises
      /\ Shape(t) /\ Recorded(t)
  BY DEF IInv, TypeOK, Phases
<1>2. record = [record EXCEPT ![t] = record[t]] /\ last = [last EXCEPT ![t] = last[t]]
      /\ inner = [inner EXCEPT ![t] = inner[t]] /\ flight = [flight EXCEPT ![t] = flight[t]]
  BY <1>1
<1>3. CASE SetUp(t)
  <2>1. CASE Proceed(t, "engine")
    <3>1. phase' = [phase EXCEPT ![t] = "engine"] /\ UNCHANGED <<stack, flight, record, inner>>
      BY <2>1 DEF Proceed, Goto
    <3>2. Recorded(t)'
      BY <1>1, <1>3, <3>1 DEF SetUp, Recorded
    <3> QED BY <1>1, <1>2, <1>3, <3>1, <3>2, Inside DEF SetUp, Capturing
  <2>2. CASE FailedSetUp(t)
    BY <1>3, <2>2, FailedSetUpKeeps DEF SetUp
  <2> QED BY <1>3, <2>1, <2>2 DEF SetUp
<1>4. CASE Engine(t)
  <2>1. CASE made' = made + 1 /\ record' = [record EXCEPT ![t] = made']
             /\ Goto(t, "save") /\ UNCHANGED <<stack, flight, inner>>
    <3>1. phase' = [phase EXCEPT ![t] = "save"] /\ made' \in Nat
      BY <1>1, <2>1 DEF Goto
    <3>2. Recorded(t)'
      BY <1>1, <1>4, <2>1, <3>1 DEF Engine, Recorded
    <3> QED BY <1>1, <1>2, <1>4, <2>1, <3>1, <3>2, Inside DEF Engine, Capturing
  <2>2. CASE FailedSetUp(t) /\ UNCHANGED made
    BY <1>4, <2>2, FailedSetUpKeeps DEF Engine
  <2> QED BY <1>4, <2>1, <2>2 DEF Engine
<1>5. CASE Save(t)
  <2>1. CASE Proceed(t, "accept") /\ stored' = stored \cup {record[t]}
    <3>1. phase' = [phase EXCEPT ![t] = "accept"] /\ UNCHANGED <<stack, flight, record, inner>>
      BY <2>1 DEF Proceed, Goto
    <3>2. Recorded(t)'
      BY <1>1, <1>5, <2>1, <3>1 DEF Save, Recorded
    <3> QED BY <1>1, <1>2, <1>5, <2>1, <3>1, <3>2, Inside DEF Save, Capturing
  <2>2. CASE Failed(t) /\ UNCHANGED stored
    BY <1>5, <2>2, FailedKeeps DEF Save, Capturing
  <2> QED BY <1>5, <2>1, <2>2 DEF Save
<1>6. CASE Report(t)
  <2>1. CASE Proceed(t, "exit")
    <3>1. phase' = [phase EXCEPT ![t] = "exit"] /\ UNCHANGED <<stack, flight, record, inner>>
      BY <2>1 DEF Proceed, Goto
    <3>2. ~Top(t)'.strict /\ phase'[t] = "exit"
      BY <1>1, <1>6, <3>1 DEF Report, Shape, Top
    <3>3. Recorded(t)'
      BY <1>1, <1>6, <3>1, <3>2 DEF Report, Recorded
    <3> QED BY <1>1, <1>2, <1>6, <3>1, <3>3, Inside DEF Report, Capturing
  <2>2. CASE Replace(t, <<"stderr">>)
    BY <1>6, <2>2, ReplaceKeeps, Chains DEF Report, Capturing, Kinds
  <2> QED BY <1>6, <2>1, <2>2 DEF Report
<1>7. CASE Accept(t)
  <2> DEFINE step == IF Top(t).callback THEN "callback" ELSE "exit"
  <2>1. /\ phase' = [phase EXCEPT ![t] = step] /\ UNCHANGED <<stack, flight, record, inner>>
        /\ last' = [last EXCEPT ![t] = record[t]] /\ phase[t] = "accept"
    BY <1>7 DEF Accept, Proceed, Goto
  <2>2. /\ phase'[t] = step /\ last'[t] = record[t] /\ record'[t] = record[t]
        /\ Top(t)' = Top(t) /\ stored' = stored /\ told' = told
        /\ inner'[t] = NoRecord /\ record[t] \in stored
    BY <1>1, <1>7, <2>1 DEF Accept, Top, Recorded
  <2>3. Recorded(t)'
    BY <1>1, <2>1, <2>2 DEF Recorded, LastOfLayer
  <2>4. step \in Capturing \cup {"exit"} /\ step # "report"
    BY DEF Capturing
  <2> HIDE DEF step
  <2> QED BY <1>1, <1>2, <1>7, <2>1, <2>3, <2>4, Inside DEF Accept, Capturing
<1>8. CASE Callback(t)
  <2>1. ASSUME Proceed(t, "exit"), told' = told \cup {record[t]} \/ (~Top(t).strict /\ told' = told)
        PROVE  IInv'
    <3>1. phase' = [phase EXCEPT ![t] = "exit"] /\ UNCHANGED <<stack, flight, record, inner, last, stored>>
      BY <1>8, <2>1 DEF Callback, Proceed, Goto
    <3>2. phase'[t] = "exit" /\ Top(t)' = Top(t) /\ phase[t] = "callback"
      BY <1>1, <1>8, <3>1 DEF Callback, Top
    <3>3. Recorded(t)'
      BY <1>1, <2>1, <3>1, <3>2 DEF Recorded, LastOfLayer
    <3>4. told \subseteq told' /\ told' \subseteq stored
      BY <1>1, <2>1, <3>2 DEF Recorded
    <3> QED BY <1>1, <1>2, <1>8, <3>1, <3>3, <3>4, Inside DEF Callback, Capturing
  <2>2. CASE Replace(t, <<"CallbackError">> \o flight[t]) /\ UNCHANGED told
    BY <1>1, <1>8, <2>2, ReplaceKeeps, Chains DEF Callback, Capturing, Kinds
  <2>3. CASE Replace(t, <<"text">>) /\ UNCHANGED told
    BY <1>1, <1>8, <2>3, ReplaceKeeps, Chains DEF Callback, Capturing, Kinds
  <2> QED BY <1>8, <2>1, <2>2, <2>3 DEF Callback
<1>9. CASE Interrupt(t)
  BY <1>9, ReplaceKeeps, Chains DEF Interrupt, Kinds
<1>10. CASE Exit(t)
  <2>1. SubSeq(stack[t], 1, Len(stack[t]) - 1) \in Seq(Layer) /\ flight[t] # <<>>
    BY <1>1, <1>10, Stacks DEF Exit, Shape, Capturing
  <2>2. <<>> \in Seq(Kinds)
    OBVIOUS
  <2>3. CASE Goto(t, "raise") /\ UNCHANGED flight
    BY <1>1, <1>2, <1>10, <2>1, <2>3, Outside DEF Exit, Pop, Goto
  <2>4. CASE Goto(t, "run") /\ flight' = [flight EXCEPT ![t] = <<>>]
    BY <1>1, <1>10, <2>1, <2>2, <2>4, Outside DEF Exit, Pop, Goto
  <2> QED BY <1>10, <2>3, <2>4 DEF Exit
<1> QED BY <1>3, <1>4, <1>5, <1>6, <1>7, <1>8, <1>9, <1>10

(* A capture of its own that the user code inside t's capture makes. *)
LEMMA NestedKeeps ==
    ASSUME IInv, NEW t \in Tasks, NestedCapture(t)
    PROVE  IInv'
<1>1. /\ phase[t] \in {"setup", "engine", "save", "callback"} /\ flight[t] \in Seq(Kinds)
      /\ record \in [Tasks -> Nat] /\ inner \in [Tasks -> Nat] /\ last \in [Tasks -> Nat]
      /\ made \in Nat /\ stored \in SUBSET Nat /\ told \subseteq stored
      /\ raises \in 0..MaxRaises /\ MaxRaises \in Nat /\ raises < MaxRaises
      /\ Shape(t) /\ Recorded(t)
  BY FlowAssumption DEF IInv, TypeOK, NestedCapture
<1>2. /\ UNCHANGED <<config, stderr, phase, stack, flight, record>>
      /\ made' = made + 1 /\ raises' = raises + 1 /\ made' \in Nat /\ made' # NoRecord
      /\ raises' \in 0..MaxRaises
  BY <1>1 DEF NestedCapture, NoRecord
<1>3. Top(t)' = Top(t)
  BY <1>2 DEF Top
<1>4. CASE UNCHANGED <<stored, told, last, inner>>
  <2>1. TypeOK' /\ Untouched(t)
    BY <1>2, <1>4 DEF IInv, TypeOK, Untouched
  <2>2. Shape(t)' /\ Recorded(t)'
    BY <1>1, <1>2, <1>3, <1>4 DEF Shape, Recorded, LastOfLayer
  <2> QED BY <1>1, <1>4, <2>1, <2>2, Frame
<1>5. ASSUME stored' = stored \cup {made'}, told' \in {told, told \cup {made'}},
             last' = [last EXCEPT ![t] = made'],
             inner' = IF phase[t] = "callback" THEN [inner EXCEPT ![t] = made'] ELSE inner
      PROVE  IInv'
  <2>1. /\ last' \in [Tasks -> Nat] /\ inner' \in [Tasks -> Nat]
        /\ stored' \in SUBSET Nat /\ told' \subseteq stored'
        /\ stored \subseteq stored' /\ told \subseteq told'
    BY <1>1, <1>2, <1>5
  <2>2. TypeOK'
    BY <1>2, <2>1 DEF IInv, TypeOK
  <2>3. Untouched(t)
    BY <1>1, <1>2, <1>5 DEF Untouched
  <2>4. /\ last'[t] = made' /\ made' \in stored'
        /\ inner'[t] = IF phase[t] = "callback" THEN made' ELSE inner[t]
    BY <1>1, <1>5
  <2>5. Shape(t)'
    BY <1>1, <1>2, <1>3 DEF Shape
  <2>6. Recorded(t)'
    BY <1>1, <1>2, <2>1, <2>4 DEF Recorded, LastOfLayer
  <2> QED BY <2>1, <2>2, <2>3, <2>5, <2>6, Frame
<1> QED BY <1>4, <1>5 DEF NestedCapture

(* A task that starts with nothing, or with its creator's last capture. *)
LEMMA SpawnKeeps ==
    ASSUME IInv, NEW t \in Tasks, NEW u \in Tasks, Spawn(t, u)
    PROVE  IInv'
<1>1. /\ phase \in [Tasks -> Phases] /\ last \in [Tasks -> Nat] /\ phase[u] = "new"
      /\ Shape(u) /\ Recorded(u) /\ Recorded(t) /\ told \subseteq stored
  BY DEF IInv, TypeOK, Phases, Spawn
<1>2. PICK inherited \in {last[t], NoRecord} : last' = [last EXCEPT ![u] = inherited]
  BY DEF Spawn
<1>3. inherited \in Nat /\ (inherited # NoRecord => inherited \in stored)
  BY <1>1, <1>2 DEF NoRecord, Recorded
<1>4. /\ phase' = [phase EXCEPT ![u] = "run"]
      /\ UNCHANGED <<config, stderr, stack, flight, record, inner, made, stored, told, raises>>
  BY DEF Spawn, Goto
<1>5. TypeOK' /\ Untouched(u) /\ phase'[u] = "run" /\ last'[u] = inherited
  BY <1>1, <1>2, <1>3, <1>4 DEF IInv, TypeOK, Untouched
<1>6. Shape(u)' /\ Recorded(u)'
  BY <1>1, <1>3, <1>4, <1>5 DEF Shape, Recorded, Capturing
<1> QED BY <1>1, <1>4, <1>5, <1>6, Frame

LEMMA InitIInv == Init => IInv
<1> SUFFICES ASSUME Init PROVE IInv
  OBVIOUS
<1>1. <<>> \in Seq(Layer) /\ <<>> \in Seq(Kinds)
  OBVIOUS
<1>2. TypeOK
  BY <1>1, FlowAssumption DEF Init, TypeOK, NoRecord
<1>3. ASSUME NEW t \in Tasks PROVE Shape(t) /\ Recorded(t)
  BY DEF Init, Shape, Recorded, LastOfLayer, Capturing
<1> QED BY <1>2, <1>3 DEF Init, IInv

LEMMA NextIInv == IInv /\ [Next]_vars => IInv'
<1> SUFFICES ASSUME IInv, [Next]_vars PROVE IInv'
  OBVIOUS
<1>1. ASSUME UNCHANGED <<phase, stack, flight, record, inner, last, made, stored, told, raises>>,
             config' \in BOOLEAN, stderr' \in {"open", "closed"}
      PROVE  IInv'
  BY <1>1 DEF IInv, TypeOK, Shape, Recorded, LastOfLayer, Top
<1>2. config \in BOOLEAN /\ stderr \in {"open", "closed"}
  BY DEF IInv, TypeOK
<1>3. CASE Configure
  BY <1>1, <1>2, <1>3 DEF Configure
<1>4. CASE CloseStderr
  BY <1>1, <1>2, <1>4 DEF CloseStderr
<1>5. ASSUME NEW t \in Tasks, Step(t) PROVE IInv'
  BY <1>5, ProgramKeeps, LayerKeeps, NestedKeeps DEF Step
<1>6. ASSUME NEW t \in Tasks, NEW u \in Tasks, Spawn(t, u) PROVE IInv'
  BY <1>6, SpawnKeeps
<1>7. CASE UNCHANGED vars
  BY <1>1, <1>2, <1>7 DEF vars
<1> QED BY <1>3, <1>4, <1>5, <1>6, <1>7 DEF Next

LEMMA Inductive == Spec => []IInv
BY InitIInv, NextIInv, PTL DEF Spec

(* Every variable always has its type. *)
THEOREM Typing == Spec => []TypeOK
<1>1. IInv => TypeOK
  BY DEF IInv
<1> QED BY Inductive, <1>1, PTL

(* A strict layer that lets its exception on has stored the record of that *)
(* exception, made it the last capture and told its callback, whatever     *)
(* fails on the way and whatever other tasks do.                           *)
THEOREM StrictNeverEndsSilently == Spec => []StrictNeverSilent
<1>1. IInv => StrictNeverSilent
  BY DEF IInv, Recorded, StrictNeverSilent
<1> QED BY Inductive, <1>1, PTL

(* What get_last_capture and the callbacks are given has been stored. *)
THEOREM OnlyStoredIsNamed == Spec => []LastIsStored
<1>1. IInv => LastIsStored
  BY DEF IInv, Recorded, LastIsStored
<1> QED BY Inductive, <1>1, PTL

(* A callback that asks for the last capture gets its own. *)
THEOREM CallbackAgrees == Spec => []CallbackSeesLast
<1>1. IInv => CallbackSeesLast
  BY DEF IInv, Recorded, CallbackSeesLast
<1> QED BY Inductive, <1>1, PTL

-----------------------------------------------------------------------------
(* The contract of the layers.  A capture is invisible in it until the     *)
(* layer is left: the contract's steps are those that change a stack or    *)
(* what is in flight.                                                      *)

ContractStep(t) ==
    \/ Contract!Enter(t) \/ Contract!Return(t) \/ Contract!Raise(t) \/ Contract!Handle(t)
    \/ Contract!Leave(t) \/ Contract!Pass(t) \/ Contract!Swallow(t) \/ Contract!Wrap(t)
    \/ Contract!Interrupted(t) \/ Contract!Displaced(t)
    \/ UNCHANGED <<stack, flight>>

LEMMA ProgramRefines ==
    ASSUME IInv, NEW t \in Tasks,
           Enter(t) \/ Return(t) \/ Raise(t) \/ CaptureException(t) \/ LeaveOutermost(t) \/ Catch(t)
    PROVE  ContractStep(t)
<1>1. Shape(t) /\ config \in BOOLEAN
  BY DEF IInv, TypeOK
<1>2. CASE Enter(t)
  <2>1. PICK strict, callback \in BOOLEAN :
           stack' = [stack EXCEPT ![t] = Append(@,
                       [strict |-> strict, callback |-> callback, reRaise |-> config])]
    BY <1>2 DEF Enter
  <2>2. [strict |-> strict, callback |-> callback, reRaise |-> config] \in Layer
    BY <1>1 DEF Layer
  <2>3. Contract!Enter(t)
    BY <1>1, <1>2, <2>1, <2>2 DEF Enter, Contract!Enter, Shape
  <2> QED BY <2>3 DEF ContractStep
<1>3. CASE Return(t)
  <2>1. Contract!Return(t)
    BY <1>1, <1>3 DEF Return, Pop, Contract!Return, Contract!Popped, Shape
  <2> QED BY <2>1 DEF ContractStep
<1>4. CASE Raise(t)
  <2>1. Contract!Raise(t)
    BY <1>1, <1>4 DEF Raise, Contract!Raise, Shape
  <2> QED BY <2>1 DEF ContractStep
<1>5. CASE CaptureException(t)
  <2>1. PICK strict, callback \in BOOLEAN :
           stack' = [stack EXCEPT ![t] = Append(@,
                       [strict |-> strict, callback |-> callback, reRaise |-> FALSE])]
    BY <1>5 DEF CaptureException
  <2> DEFINE layer == [strict |-> strict, callback |-> callback, reRaise |-> FALSE]
  <2>2. layer \in Layer /\ ~layer.reRaise
    BY DEF Layer
  <2>3. stack' = [stack EXCEPT ![t] = Append(@, layer)]
    BY <2>1
  <2> HIDE DEF layer
  <2>4. Contract!Handle(t)
    BY <1>1, <1>5, <2>2, <2>3 DEF CaptureException, Contract!Handle, Shape
  <2> QED BY <2>4 DEF ContractStep
<1>6. CASE LeaveOutermost(t)
  <2>1. Contract!Leave(t)
    BY <1>1, <1>6 DEF LeaveOutermost, Contract!Leave, Shape
  <2> QED BY <2>1 DEF ContractStep
<1>7. CASE Catch(t)
  <2>1. CASE flight[t][1] = "base"
    <3>1. Contract!Pass(t)
      BY <1>1, <1>7, <2>1 DEF Catch, Pop, Contract!Pass, Contract!Popped, Shape
    <3> QED BY <3>1 DEF ContractStep
  <2>2. CASE flight[t][1] # "base"
    BY <1>7, <2>2 DEF Catch, ContractStep
  <2> QED BY <2>1, <2>2
<1> QED BY <1>2, <1>3, <1>4, <1>5, <1>6, <1>7

LEMMA LayerRefines ==
    ASSUME IInv, NEW t \in Tasks,
           SetUp(t) \/ Engine(t) \/ Save(t) \/ Report(t) \/ Accept(t) \/ Callback(t)
              \/ Interrupt(t) \/ Exit(t)
    PROVE  ContractStep(t)
<1>1. phase[t] \in Capturing \cup {"exit"} => flight[t] # <<>> /\ stack[t] # <<>> /\ flight[t][1] # "base"
  BY DEF IInv, Shape, Capturing
<1>2. ASSUME NEW step, Proceed(t, step) PROVE ContractStep(t)
  BY <1>2 DEF Proceed, ContractStep
<1>3. ASSUME NEW kind \in {"StorageError", "CallbackError"}, phase[t] \in Capturing, Top(t).strict,
             Replace(t, <<kind>> \o flight[t])
      PROVE  ContractStep(t)
  <2>1. Contract!Wrap(t)
    BY <1>1, <1>3 DEF Replace, Pop, Top, Contract!Wrap, Contract!Popped, Contract!Top
  <2> QED BY <2>1 DEF ContractStep
<1>4. ASSUME phase[t] \in Capturing, Failed(t) PROVE ContractStep(t)
  BY <1>2, <1>3, <1>4 DEF Failed
<1>5. ASSUME phase[t] \in Capturing, Replace(t, <<"text">>) PROVE ContractStep(t)
  <2>1. Contract!Displaced(t)
    BY <1>1, <1>5 DEF Replace, Pop, Contract!Displaced, Contract!Popped
  <2> QED BY <2>1 DEF ContractStep
<1>6. ASSUME phase[t] \in Capturing, FailedSetUp(t) PROVE ContractStep(t)
  BY <1>4, <1>5, <1>6 DEF FailedSetUp
<1>7. CASE SetUp(t)
  BY <1>2, <1>7, <1>6 DEF SetUp, Capturing
<1>8. CASE Engine(t)
  BY <1>8, <1>6 DEF Engine, Capturing, ContractStep
<1>9. CASE Save(t)
  BY <1>2, <1>4, <1>9 DEF Save, Capturing
<1>10. CASE Report(t)
  <2>1. CASE Replace(t, <<"stderr">>)
    <3>1. ~Top(t).strict
      BY <1>10 DEF IInv, Shape, Report
    <3>2. Contract!Displaced(t)
      BY <1>1, <1>10, <2>1, <3>1
      DEF Report, Replace, Pop, Top, Capturing, Contract!Displaced, Contract!Popped, Contract!Top
    <3> QED BY <3>2 DEF ContractStep
  <2> QED BY <1>2, <1>10, <2>1 DEF Report
<1>11. CASE Accept(t)
  BY <1>2, <1>11 DEF Accept
<1>12. CASE Callback(t)
  BY <1>2, <1>3, <1>12, <1>5 DEF Callback, Capturing
<1>13. CASE Interrupt(t)
  <2>1. Contract!Interrupted(t)
    BY <1>1, <1>13 DEF Interrupt, Replace, Pop, Contract!Interrupted, Contract!Popped
  <2> QED BY <2>1 DEF ContractStep
<1>14. CASE Exit(t)
  <2>1. CASE Top(t).reRaise /\ UNCHANGED flight
    <3>1. Contract!Pass(t)
      BY <1>1, <1>14, <2>1 DEF Exit, Pop, Top, Contract!Pass, Contract!Popped, Contract!Top
    <3> QED BY <3>1 DEF ContractStep
  <2>2. CASE ~Top(t).reRaise /\ flight' = [flight EXCEPT ![t] = <<>>]
    <3>1. Contract!Swallow(t)
      BY <1>1, <1>14, <2>2 DEF Exit, Pop, Top, Contract!Swallow, Contract!Popped, Contract!Top
    <3> QED BY <3>1 DEF ContractStep
  <2> QED BY <1>14, <2>1, <2>2 DEF Exit
<1> QED BY <1>7, <1>8, <1>9, <1>10, <1>11, <1>12, <1>13, <1>14

(* Whatever fails inside a capture, a layer passes its exception on, ends  *)
(* it or wraps it as its configuration says: nested layers implement       *)
(* LayerContract.                                                          *)
THEOREM Refinement == Spec => ImplementsContract
<1>1. Init => Contract!Init
  BY DEF Init, Contract!Init
<1>2. IInv /\ [Next]_vars => [Contract!Next]_(Contract!vars)
  <2> SUFFICES ASSUME IInv, [Next]_vars PROVE [Contract!Next]_(Contract!vars)
    OBVIOUS
  <2>1. ASSUME NEW t \in Tasks, Step(t) PROVE [Contract!Next]_(Contract!vars)
    <3>1. ContractStep(t)
      BY <2>1, ProgramRefines, LayerRefines DEF Step, NestedCapture, ContractStep
    <3> QED BY <3>1 DEF ContractStep, Contract!Next, Contract!vars
  <2>2. CASE Configure \/ CloseStderr \/ (\E t, u \in Tasks : Spawn(t, u)) \/ UNCHANGED vars
    BY <2>2 DEF Configure, CloseStderr, Spawn, vars, Contract!vars
  <2> QED BY <2>1, <2>2 DEF Next
<1> QED BY <1>1, <1>2, Inductive, PTL DEF Spec, ImplementsContract, Contract!Spec
=============================================================================
