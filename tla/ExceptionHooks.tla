---------------------------- MODULE ExceptionHooks ----------------------------
(***************************************************************************)
(* install and uninstall, install_asyncio and uninstall_asyncio, and the   *)
(* hooks they leave behind: in sys.excepthook, threading.excepthook and    *)
(* the exception handlers of asyncio loops, which the program changes too. *)
(*                                                                         *)
(* A hook is written as the chain of hooks it calls: "traceseed" calls the *)
(* hook it found when it was installed, "wrapper" is a hook of the program *)
(* that does the same, "app" one that calls no other.  The empty chain is  *)
(* the interpreter's own hook, or no handler in the case of a loop.        *)
(*                                                                         *)
(* install and uninstall are one step each: between their first read and   *)
(* their last write they call nothing, so an interpreter with a global     *)
(* lock does not change threads there; install_asyncio and its counterpart *)
(* work on a loop, which belongs to one thread.                            *)
(***************************************************************************)
EXTENDS Integers, Sequences

CONSTANTS
    Loops,      \* asyncio loops
    Exceptions, \* unhandled exceptions
    MaxMoves    \* bound on the changes the program makes to hooks

ASSUME HooksAssumption ==
    /\ MaxMoves \in Nat
    /\ Loops \cap {"global", "sys", "thread", "none"} = {}

Interpreter == {"sys", "thread"}
Slots == Interpreter \cup Loops
Groups == {"global"} \cup Loops
Group(k) == IF k \in Interpreter THEN "global" ELSE k
SlotsOf(g) == {k \in Slots : Group(k) = g}

VARIABLES
    current,    \* current[k]: the hook in slot k
    installed,  \* installed[g]: _installed, or whether _asyncio_handlers has loop g
    saved,      \* saved[k]: _old_excepthook and the like, or the loop's entry
    held,       \* a hook the program has taken and may put back later
    touched,    \* touched[k]: history of the program's changes to slot k
    moves,      \* changes the program has made
    handling    \* handling[x]: how far the handling of exception x is

hookVars == <<current, installed, saved, held, touched, moves>>
vars == <<current, installed, saved, held, touched, moves, handling>>

NothingHeld == [slot |-> "none", hook |-> <<>>, stale |-> FALSE]
NotRaised == [step |-> "none", slot |-> "none", kind |-> "app", live |-> FALSE, clean |-> FALSE,
              revived |-> FALSE, todo |-> <<>>, captures |-> 0]

Init ==
    /\ current = [k \in Slots |-> <<>>]
    /\ installed = [g \in Groups |-> FALSE]
    /\ saved = [k \in Slots |-> <<>>]
    /\ held = NothingHeld
    /\ touched = [k \in Slots |-> {}]
    /\ moves = 0
    /\ handling = [x \in Exceptions |-> NotRaised]

-----------------------------------------------------------------------------
(* TraceSeed.                                                              *)

PutTraceSeed(g) ==
    /\ saved' = [k \in Slots |-> IF k \in SlotsOf(g) THEN current[k] ELSE saved[k]]
    /\ current' = [k \in Slots |->
          IF k \in SlotsOf(g) THEN <<"traceseed">> \o current[k] ELSE current[k]]
    /\ installed' = [installed EXCEPT ![g] = TRUE]
    /\ held' = [held EXCEPT !.stale = @ \/ held.slot \in SlotsOf(g)]
    /\ touched' = [k \in Slots |->
          IF k \in SlotsOf(g) THEN touched[k] \ {"sinceInstall"} ELSE touched[k]]
    /\ UNCHANGED <<moves, handling>>

(* Variant: install does not look whether it is installed.                 *)
InstallAlways(g) ==
    /\ \A k \in SlotsOf(g) : Len(current[k]) <= MaxMoves
    /\ PutTraceSeed(g)

Install(g) ==
    /\ ~installed[g]
    /\ PutTraceSeed(g)

(* Already installed: install returns, whatever the slots hold by now.     *)
InstallAgain(g) ==
    /\ installed[g]
    /\ UNCHANGED vars

(* The saved hooks come back, over whatever the program has put there.     *)
Uninstall(g) ==
    /\ installed[g]
    /\ current' = [k \in Slots |-> IF k \in SlotsOf(g) THEN saved[k] ELSE current[k]]
    /\ saved' = [k \in Slots |-> IF k \in SlotsOf(g) THEN <<>> ELSE saved[k]]
    /\ installed' = [installed EXCEPT ![g] = FALSE]
    /\ held' = [held EXCEPT !.stale = @ \/ held.slot \in SlotsOf(g)]
    /\ touched' = [k \in Slots |->
          IF k \in SlotsOf(g) THEN touched[k] \ {"sinceInstall"} ELSE touched[k]]
    /\ UNCHANGED <<moves, handling>>

-----------------------------------------------------------------------------
(* The program.                                                            *)

Moved(k, new) ==
    /\ moves < MaxMoves
    /\ moves' = moves + 1
    /\ touched' = [touched EXCEPT ![k] = @ \cup {"sinceInstall"} \cup new]
    /\ UNCHANGED <<installed, saved, handling>>

SetHook(k) ==
    /\ \E hook \in {<<>>, <<"app">>, <<"wrapper">> \o current[k]} :
          current' = [current EXCEPT ![k] = hook]
    /\ Moved(k, {})
    /\ UNCHANGED held

(* old = sys.excepthook; sys.excepthook = another                          *)
SwapHook(k) ==
    /\ held = NothingHeld
    /\ held' = [slot |-> k, hook |-> current[k], stale |-> FALSE]
    /\ current' = [current EXCEPT ![k] = <<"app">>]
    /\ Moved(k, {})

(* sys.excepthook = old, which brings TraceSeed's hook back if it was old. *)
PutBack(k) ==
    /\ held.slot = k
    /\ current' = [current EXCEPT ![k] = held.hook]
    /\ Moved(k, IF held.stale THEN {"revived"} ELSE {})
    /\ held' = NothingHeld

Busy(k) == \E x \in Exceptions : handling[x].step \in {"run", "raised"} /\ handling[x].slot = k

FreshLoop(l) ==
    /\ ~Busy(l)
    /\ current' = [current EXCEPT ![l] = <<>>]
    /\ touched' = [touched EXCEPT ![l] = {}]
    /\ held' = IF held.slot = l THEN NothingHeld ELSE held
    /\ UNCHANGED <<moves, handling>>

(* Variant: the handlers are kept by the id of their loop.                 *)
NewLoopById(l) == FreshLoop(l) /\ UNCHANGED <<installed, saved>>

(* A loop is closed and collected, its entry in the WeakKeyDictionary with *)
(* it, and a new one may have its address.                                 *)
NewLoop(l) ==
    /\ FreshLoop(l)
    /\ installed' = [installed EXCEPT ![l] = FALSE]
    /\ saved' = [saved EXCEPT ![l] = <<>>]

-----------------------------------------------------------------------------
(* An unhandled exception is given to the hook its slot has at that time.  *)

Occur(x, k) ==
    /\ handling[x].step \in {"none", "done", "broken"}
    /\ \E kind \in {"app", "base"} :
          handling' = [handling EXCEPT ![x] =
             [NotRaised EXCEPT !.step = "run", !.slot = k, !.kind = kind,
                               !.live = installed[Group(k)],
                               !.clean = "sinceInstall" \notin touched[k],
                               !.revived = "revived" \in touched[k], !.todo = current[k]]]
    /\ UNCHANGED hookVars

At(x, hook) ==
    /\ handling[x].step = "run"
    /\ handling[x].todo # <<>>
    /\ Head(handling[x].todo) = hook
    /\ UNCHANGED hookVars

(* Variant: the hook captures only while TraceSeed counts as installed.    *)
TraceSeedHookIfInstalled(x) ==
    /\ At(x, "traceseed")
    /\ LET h == handling[x]
           captured == IF h.kind = "app" /\ installed[Group(h.slot)] THEN 1 ELSE 0 IN
       handling' = [handling EXCEPT ![x] = [h EXCEPT !.todo = Tail(@), !.captures = @ + captured]]

(* system_hook, thread_hook or handler: an Exception is captured, and if   *)
(* the capture itself raises one that is suppressed; then comes the hook   *)
(* that was there before.  A KeyboardInterrupt in the capture ends it all. *)
TraceSeedHook(x) ==
    /\ At(x, "traceseed")
    /\ LET next == [handling[x] EXCEPT !.todo = Tail(@)] IN
       \/ handling[x].kind = "base" /\ handling' = [handling EXCEPT ![x] = next]
       \/ /\ handling[x].kind = "app"
          /\ \E step \in {"run", "broken"} :
                handling' = [handling EXCEPT ![x] =
                   [next EXCEPT !.captures = @ + 1, !.step = step]]

AppHook(x) ==
    /\ At(x, "app")
    /\ \E step \in {"done", "raised"} : handling' = [handling EXCEPT ![x].step = step]

WrapperHook(x) ==
    /\ At(x, "wrapper")
    /\ \/ handling' = [handling EXCEPT ![x].todo = Tail(@)]
       \/ handling' = [handling EXCEPT ![x].step = "raised"]

(* sys.__excepthook__, threading.__excepthook__, default_exception_handler *)
DefaultHook(x) ==
    /\ handling[x].step = "run"
    /\ handling[x].todo = <<>>
    /\ handling' = [handling EXCEPT ![x].step = "done"]
    /\ UNCHANGED hookVars

(* A hook of the program has raised.  Inside TraceSeed's, system_hook and  *)
(* handler call the default one, thread_hook suppresses; outside of it the *)
(* interpreter reports.                                                    *)
Fallback(x) ==
    /\ handling[x].step = "raised"
    /\ handling' = [handling EXCEPT ![x].step = "done"]
    /\ UNCHANGED hookVars

Next ==
    \/ \E g \in Groups : Install(g) \/ InstallAgain(g) \/ Uninstall(g)
    \/ \E k \in Slots : SetHook(k) \/ SwapHook(k) \/ PutBack(k)
    \/ \E l \in Loops : NewLoop(l)
    \/ \E x \in Exceptions :
          \/ \E k \in Slots : Occur(x, k)
          \/ TraceSeedHook(x) \/ AppHook(x) \/ WrapperHook(x) \/ DefaultHook(x) \/ Fallback(x)

Spec == Init /\ [][Next]_vars

-----------------------------------------------------------------------------
(* Properties.                                                             *)

Hooks == Seq({"traceseed", "wrapper", "app"})

Handling ==
    [step : {"none", "run", "raised", "done", "broken"}, slot : Slots \cup {"none"},
     kind : {"app", "base"}, live : BOOLEAN, clean : BOOLEAN, revived : BOOLEAN,
     todo : Hooks, captures : Nat]

(* Every variable has its type; what is saved belongs to an installed one. *)
TypeOK ==
    /\ current \in [Slots -> Hooks]
    /\ installed \in [Groups -> BOOLEAN]
    /\ saved \in [Slots -> Hooks]
    /\ held \in [slot : Slots \cup {"none"}, hook : Hooks, stale : BOOLEAN]
    /\ touched \in [Slots -> SUBSET {"sinceInstall", "revived"}]
    /\ moves \in 0..MaxMoves
    /\ handling \in [Exceptions -> Handling]
    /\ \A k \in Slots : saved[k] # <<>> => installed[Group(k)]

(* An unhandled Exception that occurs while TraceSeed is installed and the *)
(* program has left the slot alone is captured, whatever is installed,     *)
(* uninstalled or changed while its hooks run and whichever of them raise; *)
(* a KeyboardInterrupt or SystemExit is not.                               *)
NoneMissed ==
    \A x \in Exceptions :
        LET h == handling[x] IN
        h.step \in {"raised", "done", "broken"} /\ h.live /\ h.clean =>
            (h.captures # 0 <=> h.kind = "app")

(* However installs, uninstalls and the program's own changes alternate,   *)
(* an exception is captured at most once, and only while TraceSeed is      *)
(* installed, unless the program put back a hook it took before an install *)
(* or uninstall.                                                           *)
CapturedOnce ==
    \A x \in Exceptions : ~handling[x].revived =>
        handling[x].captures <= (IF handling[x].live THEN 1 ELSE 0)

(* While TraceSeed is installed and the program has left a slot alone, its *)
(* hook is the first in it, on a new loop as well.                         *)
InstalledIsFirst ==
    \A k \in Slots : installed[Group(k)] /\ "sinceInstall" \notin touched[k] =>
        current[k] # <<>> /\ Head(current[k]) = "traceseed"
=============================================================================
