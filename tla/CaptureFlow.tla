----------------------------- MODULE CaptureFlow -----------------------------
(***************************************************************************)
(* The capture layers of api.py (@capture on functions and coroutines,     *)
(* guard, capture_exception) around the engine's capture, in programs that *)
(* nest them and run several threads and asyncio tasks.  Each step of a    *)
(* capture may meet user code that fails: codecs and metadata in the set-  *)
(* up, collectors and values in the engine, a storage that raises, answers *)
(* nonsense or raises after saving, a callback that raises; sys.stderr may *)
(* be closed; and an exception that is no Exception (KeyboardInterrupt,    *)
(* CancelledError, SystemExit) may arrive at any of them.                  *)
(***************************************************************************)
EXTENDS Integers, Sequences

CONSTANTS
    Tasks,      \* threads and asyncio tasks
    Main,       \* the one that runs first
    MaxDepth,   \* MaxDepth[t]: bound on the layers t nests
    MaxRaises   \* bound on exceptions the program raises

ASSUME FlowAssumption ==
    /\ Main \in Tasks
    /\ MaxDepth \in [Tasks -> Nat]
    /\ MaxRaises \in Nat

Layer == [strict : BOOLEAN, callback : BOOLEAN, reRaise : BOOLEAN]
NoRecord == 0

VARIABLES
    config,     \* the global configuration's re_raise
    stderr,     \* "open" or "closed"
    phase,      \* phase[t]: where task t is
    stack,      \* stack[t]: the layers t is inside of, the innermost last
    flight,     \* flight[t]: the exception in flight, as its chain of causes
    record,     \* record[t]: the record of the capture t is making
    inner,      \* inner[t]: the newest capture t's callback has stored itself
    last,       \* last[t]: _last_capture_var in t's context
    made,       \* records made so far, numbered from 1
    stored,     \* records for which storage.save answered a StoredFailure
    told,       \* records a callback has returned for
    raises      \* exceptions the program has raised so far

vars ==
    <<config, stderr, phase, stack, flight, record, inner, last, made, stored, told, raises>>

Capturing == {"setup", "engine", "save", "report", "accept", "callback"}

Init ==
    /\ config = TRUE
    /\ stderr = "open"
    /\ phase = [t \in Tasks |-> IF t = Main THEN "run" ELSE "new"]
    /\ stack = [t \in Tasks |-> <<>>]
    /\ flight = [t \in Tasks |-> <<>>]
    /\ record = [t \in Tasks |-> NoRecord]
    /\ inner = [t \in Tasks |-> NoRecord]
    /\ last = [t \in Tasks |-> NoRecord]
    /\ made = 0
    /\ stored = {}
    /\ told = {}
    /\ raises = 0

Top(t) == stack[t][Len(stack[t])]
Goto(t, step) == phase' = [phase EXCEPT ![t] = step]
Pop(t) == stack' = [stack EXCEPT ![t] = SubSeq(@, 1, Len(@) - 1)]

-----------------------------------------------------------------------------
(* The program.                                                            *)

(* configure() or reset_config(), in any thread, at any time.              *)
Configure ==
    /\ config' = ~config
    /\ UNCHANGED <<stderr, phase, stack, flight, record, inner, last, made, stored, told, raises>>

CloseStderr ==
    /\ stderr = "open"
    /\ stderr' = "closed"
    /\ UNCHANGED <<config, phase, stack, flight, record, inner, last, made, stored, told, raises>>

(* An asyncio task starts with a copy of its creator's context, a thread   *)
(* with an empty one.                                                      *)
Spawn(t, u) ==
    /\ phase[t] = "run"
    /\ phase[u] = "new"
    /\ Goto(u, "run")
    /\ \E inherited \in {last[t], NoRecord} : last' = [last EXCEPT ![u] = inherited]
    /\ UNCHANGED <<config, stderr, stack, flight, record, inner, made, stored, told, raises>>

(* A decorated function is called or a guard block entered: the layer's    *)
(* configuration is chosen now, before the body runs.                      *)
Enter(t) ==
    /\ phase[t] = "run"
    /\ Len(stack[t]) < MaxDepth[t]
    /\ \E strict, callback \in BOOLEAN :
          stack' = [stack EXCEPT ![t] = Append(@,
                      [strict |-> strict, callback |-> callback, reRaise |-> config])]
    /\ UNCHANGED <<config, stderr, phase, flight, record, inner, last, made, stored, told, raises>>

Return(t) ==
    /\ phase[t] = "run"
    /\ stack[t] # <<>>
    /\ Pop(t)
    /\ UNCHANGED <<config, stderr, phase, flight, record, inner, last, made, stored, told, raises>>

Raise(t) ==
    /\ phase[t] = "run"
    /\ raises < MaxRaises
    /\ raises' = raises + 1
    /\ \E kind \in {"app", "base"} : flight' = [flight EXCEPT ![t] = <<kind>>]
    /\ Goto(t, "raise")
    /\ UNCHANGED <<config, stderr, stack, record, inner, last, made, stored, told>>

(* The program calls capture_exception in a handler of its own: whatever   *)
(* re_raise says, it returns its result or None, or raises if strict.      *)
CaptureException(t) ==
    /\ phase[t] = "run"
    /\ Len(stack[t]) < MaxDepth[t]
    /\ raises < MaxRaises
    /\ raises' = raises + 1
    /\ \E strict, callback \in BOOLEAN :
          stack' = [stack EXCEPT ![t] = Append(@,
                      [strict |-> strict, callback |-> callback, reRaise |-> FALSE])]
    /\ flight' = [flight EXCEPT ![t] = <<"app">>]
    /\ Goto(t, "setup")
    /\ UNCHANGED <<config, stderr, record, inner, last, made, stored, told>>

(* What left the outermost layer is handled by whoever called it.          *)
LeaveOutermost(t) ==
    /\ phase[t] = "raise"
    /\ stack[t] = <<>>
    /\ flight' = [flight EXCEPT ![t] = <<>>]
    /\ Goto(t, "run")
    /\ UNCHANGED <<config, stderr, stack, record, inner, last, made, stored, told, raises>>

-----------------------------------------------------------------------------
(* A layer.                                                                *)

(* `except Exception`: everything else passes the layer by.                *)
Catch(t) ==
    /\ phase[t] = "raise"
    /\ stack[t] # <<>>
    /\ IF flight[t][1] = "base"
       THEN Pop(t) /\ UNCHANGED phase
       ELSE Goto(t, "setup") /\ UNCHANGED stack
    /\ UNCHANGED <<config, stderr, flight, record, inner, last, made, stored, told, raises>>

(* The layer goes on to its next step.                                     *)
Proceed(t, step) == Goto(t, step) /\ UNCHANGED <<stack, flight, record, inner>>

Forget(t) ==
    /\ record' = [record EXCEPT ![t] = NoRecord]
    /\ inner' = [inner EXCEPT ![t] = NoRecord]

(* An exception raised inside the except clause leaves the layer, with the *)
(* exception in flight as its cause if it was raised `from` it.            *)
Replace(t, exception) ==
    /\ flight' = [flight EXCEPT ![t] = exception]
    /\ Pop(t)
    /\ Forget(t)
    /\ Goto(t, "raise")

(* Variant: a strict layer too only reports a failed capture.              *)
FailedQuietly(t) == Proceed(t, "report")

(* A failed capture: strict raises, otherwise it is reported on stderr.    *)
Failed(t) ==
    IF Top(t).strict
    THEN Replace(t, <<"StorageError">> \o flight[t])
    ELSE Proceed(t, "report")

(* A failed set-up, whose report says str() of the error: if that raises,  *)
(* it leaves the layer in the error's place, strict or not.                *)
FailedSetUp(t) == Failed(t) \/ Replace(t, <<"text">>)

(* _build_engine and the CaptureContext.                                   *)
SetUp(t) ==
    /\ phase[t] = "setup"
    /\ Proceed(t, "engine") \/ FailedSetUp(t)
    /\ UNCHANGED <<config, stderr, last, made, stored, told, raises>>

(* Variant: an internal error of the engine yields an ordinary result.     *)
EngineUnmarked(t) ==
    /\ phase[t] = "engine"
    /\ made' = made + 1
    /\ record' = [record EXCEPT ![t] = made']
    /\ Goto(t, "save") \/ Goto(t, "accept")
    /\ UNCHANGED <<config, stderr, stack, flight, inner, last, stored, told, raises>>

(* _capture_impl up to the save makes the record; if an Exception is       *)
(* raised in it, capture answers a minimal record with a capture_error,    *)
(* and if even that raises, the layer treats it like a failed set-up.      *)
Engine(t) ==
    /\ phase[t] = "engine"
    /\ \/ /\ made' = made + 1
          /\ record' = [record EXCEPT ![t] = made']
          /\ Goto(t, "save")
          /\ UNCHANGED <<stack, flight, inner>>
       \/ FailedSetUp(t) /\ UNCHANGED made
    /\ UNCHANGED <<config, stderr, last, stored, told, raises>>

(* _save_safe: an Exception of storage.save and an answer that is no       *)
(* proper StoredFailure are both a capture_error.                          *)
Save(t) ==
    /\ phase[t] = "save"
    /\ \/ Proceed(t, "accept") /\ stored' = stored \cup {record[t]}
       \/ Failed(t) /\ UNCHANGED stored
    /\ UNCHANGED <<config, stderr, last, made, told, raises>>

(* print(..., file=sys.stderr) raises ValueError if stderr is closed.      *)
Report(t) ==
    /\ phase[t] = "report"
    /\ \/ stderr = "open" /\ Proceed(t, "exit")
       \/ stderr = "closed" /\ Replace(t, <<"stderr">>)
    /\ UNCHANGED <<config, stderr, last, made, stored, told, raises>>

(* Variant: the last capture is one variable of the module.                *)
AcceptGlobally(t) ==
    /\ phase[t] = "accept"
    /\ last' = [u \in Tasks |-> record[t]]
    /\ Proceed(t, IF Top(t).callback THEN "callback" ELSE "exit")
    /\ UNCHANGED <<config, stderr, made, stored, told, raises>>

(* _handle_capture_result of a capture without error.                      *)
Accept(t) ==
    /\ phase[t] = "accept"
    /\ last' = [last EXCEPT ![t] = record[t]]
    /\ Proceed(t, IF Top(t).callback THEN "callback" ELSE "exit")
    /\ UNCHANGED <<config, stderr, made, stored, told, raises>>

(* _invoke_callback: a strict layer raises what its callback raised as a   *)
(* CallbackError with its text, any other suppresses it.                   *)
Callback(t) ==
    /\ phase[t] = "callback"
    /\ \/ Proceed(t, "exit") /\ told' = told \cup {record[t]}
       \/ /\ Top(t).strict
          /\ Replace(t, <<"CallbackError">> \o flight[t]) \/ Replace(t, <<"text">>)
          /\ UNCHANGED told
       \/ ~Top(t).strict /\ Proceed(t, "exit") /\ UNCHANGED told
    /\ UNCHANGED <<config, stderr, last, made, stored, raises>>

(* The user code a capture calls (metadata, values, collectors, storage,   *)
(* callback) may capture an exception of its own, in the same task.        *)
NestedCapture(t) ==
    /\ phase[t] \in {"setup", "engine", "save", "callback"}
    /\ raises < MaxRaises
    /\ raises' = raises + 1
    /\ made' = made + 1
    /\ \/ UNCHANGED <<stored, told, last, inner>>
       \/ /\ stored' = stored \cup {made'}
          /\ told' \in {told, told \cup {made'}}
          /\ last' = [last EXCEPT ![t] = made']
          /\ inner' = IF phase[t] = "callback" THEN [inner EXCEPT ![t] = made'] ELSE inner
    /\ UNCHANGED <<config, stderr, phase, stack, flight, record>>

(* An exception that is no Exception, in user code a capture calls.        *)
Interrupt(t) ==
    /\ phase[t] \in Capturing
    /\ Replace(t, <<"base">>)
    /\ UNCHANGED <<config, stderr, last, made, stored, told, raises>>

(* Variant: the configuration is read again after the capture.             *)
ExitByCurrentConfig(t) ==
    /\ phase[t] = "exit"
    /\ Pop(t)
    /\ Forget(t)
    /\ \/ config /\ Goto(t, "raise") /\ UNCHANGED flight
       \/ ~config /\ Goto(t, "run") /\ flight' = [flight EXCEPT ![t] = <<>>]
    /\ UNCHANGED <<config, stderr, last, made, stored, told, raises>>

(* The end of the except clause: `raise` if the configuration chosen on    *)
(* entry says so, else the layer returns None.                             *)
Exit(t) ==
    /\ phase[t] = "exit"
    /\ Pop(t)
    /\ Forget(t)
    /\ \/ Top(t).reRaise /\ Goto(t, "raise") /\ UNCHANGED flight
       \/ ~Top(t).reRaise /\ Goto(t, "run") /\ flight' = [flight EXCEPT ![t] = <<>>]
    /\ UNCHANGED <<config, stderr, last, made, stored, told, raises>>

Step(t) ==
    \/ Enter(t) \/ Return(t) \/ Raise(t) \/ CaptureException(t) \/ LeaveOutermost(t)
    \/ Catch(t) \/ SetUp(t) \/ Engine(t) \/ Save(t) \/ Report(t) \/ Accept(t)
    \/ Callback(t) \/ NestedCapture(t) \/ Interrupt(t) \/ Exit(t)

Next ==
    \/ Configure \/ CloseStderr
    \/ \E t \in Tasks : Step(t)
    \/ \E t, u \in Tasks : Spawn(t, u)

Spec == Init /\ [][Next]_vars

-----------------------------------------------------------------------------
(* Properties.                                                             *)

Kinds == {"app", "base", "stderr", "text", "StorageError", "CallbackError"}

(* Every variable has its type; a chain of causes and a stack are short    *)
(* because each layer adds at most one exception.                          *)
TypeOK ==
    /\ config \in BOOLEAN
    /\ stderr \in {"open", "closed"}
    /\ phase \in [Tasks -> {"new", "run", "raise", "exit"} \cup Capturing]
    /\ stack \in [Tasks -> Seq(Layer)]
    /\ flight \in [Tasks -> Seq(Kinds)]
    /\ record \in [Tasks -> Nat]
    /\ inner \in [Tasks -> Nat]
    /\ last \in [Tasks -> Nat]
    /\ made \in Nat
    /\ stored \in SUBSET Nat
    /\ told \in SUBSET Nat
    /\ raises \in 0..MaxRaises

(* What get_last_capture answers once t's layer has accepted its record:   *)
(* that record, or what the layer's callback has since captured itself.    *)
LastOfLayer(t) == IF inner[t] = NoRecord THEN record[t] ELSE inner[t]

(* A strict layer never ends quietly after a failed capture: when it lets  *)
(* its exception on, the record of that very exception is stored, it is    *)
(* what get_last_capture returns unless the callback captured something    *)
(* newer, and the callback has returned.                                   *)
StrictNeverSilent ==
    \A t \in Tasks : phase[t] = "exit" /\ Top(t).strict =>
        /\ record[t] \in stored
        /\ last[t] = LastOfLayer(t)
        /\ Top(t).callback => record[t] \in told

(* get_last_capture never names a failed capture, in whatever task it was  *)
(* made and to whatever task it was handed down; nor is a callback told of *)
(* one.                                                                    *)
LastIsStored ==
    /\ \A t \in Tasks : last[t] # NoRecord => last[t] \in stored
    /\ told \subseteq stored

(* While a callback runs, get_last_capture answers the result it was given *)
(* until the callback captures an exception itself, and then that one,     *)
(* even though other threads capture at the same time.                     *)
CallbackSeesLast ==
    \A t \in Tasks : phase[t] = "callback" => last[t] = LastOfLayer(t)

Contract == INSTANCE LayerContract WITH Layers <- Layer

(* Nested layers keep what LayerContract promises the program.             *)
ImplementsContract == Contract!Spec

(* "By default, an internal TraceSeed failure never replaces the original  *)
(* exception" (README.md): leaving aside internal errors that have no      *)
(* text to report ("text"), what is in flight ends in the exception the    *)
(* program raised, or is an interrupt.                                     *)
OriginalNeverReplaced ==
    \A t \in Tasks :
        flight[t] # <<>> => flight[t][Len(flight[t])] \in {"app", "base", "text"}
=============================================================================
