---------------------------- MODULE LayerContract ----------------------------
(***************************************************************************)
(* What a program that puts @capture, guard or capture_exception around    *)
(* its code may rely on.  A layer lets every exception through unchanged,  *)
(* unless its configuration says re_raise=False, in which case it ends it; *)
(* only a strict layer may put an exception of its own on top, and then    *)
(* the exception it caught is its cause.  An exception in flight is the    *)
(* chain of its causes, the outermost first; <<>> is none.                 *)
(***************************************************************************)
EXTENDS Integers, Sequences

CONSTANTS
    Tasks,      \* threads and asyncio tasks
    Layers      \* layers a program may enter: [strict, callback, reRaise]

VARIABLES
    stack,      \* stack[t]: the layers task t is inside of, the innermost last
    flight      \* flight[t]: the exception in flight in task t

vars == <<stack, flight>>

Top(t) == stack[t][Len(stack[t])]
Popped(t) == [stack EXCEPT ![t] = SubSeq(@, 1, Len(@) - 1)]

Init ==
    /\ stack = [t \in Tasks |-> <<>>]
    /\ flight = [t \in Tasks |-> <<>>]

Enter(t) ==
    /\ flight[t] = <<>>
    /\ \E layer \in Layers : stack' = [stack EXCEPT ![t] = Append(@, layer)]
    /\ UNCHANGED flight

Return(t) ==
    /\ flight[t] = <<>>
    /\ stack[t] # <<>>
    /\ stack' = Popped(t)
    /\ UNCHANGED flight

(* The program raises an ordinary exception, or one like KeyboardInterrupt *)
(* or CancelledError that no layer concerns itself with.                   *)
Raise(t) ==
    /\ flight[t] = <<>>
    /\ \E kind \in {"app", "base"} : flight' = [flight EXCEPT ![t] = <<kind>>]
    /\ UNCHANGED stack

(* The program handles an exception itself and calls capture_exception.    *)
Handle(t) ==
    /\ flight[t] = <<>>
    /\ \E layer \in Layers :
          ~layer.reRaise /\ stack' = [stack EXCEPT ![t] = Append(@, layer)]
    /\ flight' = [flight EXCEPT ![t] = <<"app">>]

Pass(t) ==
    /\ flight[t] # <<>> /\ stack[t] # <<>>
    /\ Top(t).reRaise \/ flight[t][1] = "base"
    /\ stack' = Popped(t)
    /\ UNCHANGED flight

Swallow(t) ==
    /\ flight[t] # <<>> /\ stack[t] # <<>>
    /\ ~Top(t).reRaise /\ flight[t][1] # "base"
    /\ stack' = Popped(t)
    /\ flight' = [flight EXCEPT ![t] = <<>>]

(* Capture failed, or its callback did, and the layer is strict.           *)
Wrap(t) ==
    /\ flight[t] # <<>> /\ stack[t] # <<>>
    /\ Top(t).strict
    /\ stack' = Popped(t)
    /\ \E kind \in {"StorageError", "CallbackError"} :
          flight' = [flight EXCEPT ![t] = <<kind>> \o @]

(* A KeyboardInterrupt or the like arrives while the layer is capturing.   *)
Interrupted(t) ==
    /\ flight[t] # <<>> /\ stack[t] # <<>>
    /\ stack' = Popped(t)
    /\ flight' = [flight EXCEPT ![t] = <<"base">>]

(* A layer that is not strict reports a failed capture on sys.stderr; if   *)
(* that is closed, its error takes the place of the exception.  So does in *)
(* any layer what str() of the error to report raises.                     *)
Displaced(t) ==
    /\ flight[t] # <<>> /\ stack[t] # <<>>
    /\ stack' = Popped(t)
    /\ \/ flight' = [flight EXCEPT ![t] = <<"text">>]
       \/ ~Top(t).strict /\ flight' = [flight EXCEPT ![t] = <<"stderr">>]

(* Whoever called the outermost layer handles what came out of it.         *)
Leave(t) ==
    /\ flight[t] # <<>> /\ stack[t] = <<>>
    /\ flight' = [flight EXCEPT ![t] = <<>>]
    /\ UNCHANGED stack

Next == \E t \in Tasks :
    \/ Enter(t) \/ Return(t) \/ Raise(t) \/ Handle(t) \/ Leave(t)
    \/ Pass(t) \/ Swallow(t) \/ Wrap(t) \/ Interrupted(t) \/ Displaced(t)

Spec == Init /\ [][Next]_vars
=============================================================================
