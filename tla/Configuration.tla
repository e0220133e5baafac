---------------------------- MODULE Configuration ----------------------------
(***************************************************************************)
(* config.py: TraceSeedConfig's validation, and the one configuration of   *)
(* the process that threads get, set and reset.  It is made when it is     *)
(* first asked for, and no lock protects it.                               *)
(*                                                                         *)
(* A configuration is its limits.  A flag that has to be set is a field    *)
(* with the minimum 1; a value of another type is one below each minimum.  *)
(***************************************************************************)
EXTENDS Integers

CONSTANTS
    Threads,
    Fields,
    Values,     \* values the program gives to fields
    Minimum,    \* Minimum[f]: the least value field f may have
    AtMost,     \* pairs of fields, the first of which may not exceed the second
    Default,    \* the configuration TraceSeedConfig() is
    Unset       \* None

Configs == [Fields -> Values]

(* _validate: each limit by itself, then those that depend on each other.  *)
IsValid(c) ==
    /\ \A f \in Fields : c[f] >= Minimum[f]
    /\ \A pair \in AtMost : c[pair[1]] <= c[pair[2]]

ASSUME ConfigurationAssumption ==
    /\ Values \subseteq Int
    /\ Minimum \in [Fields -> Nat]
    /\ AtMost \subseteq Fields \X Fields
    /\ Default \in Configs /\ IsValid(Default)
    /\ Unset \notin Configs

VARIABLES
    current,    \* _current_config
    doing,      \* doing[t]: where thread t is in get_config or reset_config
    answer,     \* answer[t]: the configuration t holds
    set,        \* for the properties: what configure or reset_config last set,
    raced       \* and the threads that were about to put the default there

configVars == <<current, doing, answer, set, raced>>

ConfigInit ==
    /\ current = Unset
    /\ doing = [t \in Threads |-> "idle"]
    /\ answer = [t \in Threads |-> Default]
    /\ set = Default
    /\ raced = {}

Goto(t, step) == doing' = [doing EXCEPT ![t] = step]
Builders == {t \in Threads : doing[t] = "build"}

-----------------------------------------------------------------------------
(* get_config: is there one?                                               *)

(* Variant: there never is.                                                *)
LookPastIt(t) ==
    /\ doing[t] = "idle"
    /\ Goto(t, "build")
    /\ UNCHANGED <<current, answer, set, raced>>

Look(t) ==
    /\ doing[t] = "idle"
    /\ Goto(t, IF current = Unset THEN "build" ELSE "return")
    /\ UNCHANGED <<current, answer, set, raced>>

(* There was none: the default one is made and put there, whatever has     *)
(* been put there since.                                                   *)
BuildDefault(t) ==
    /\ doing[t] = "build"
    /\ current' = Default
    /\ Goto(t, "return")
    /\ UNCHANGED <<answer, set, raced>>

(* The variable is read once more, and answered.                           *)
Return(t) ==
    /\ doing[t] = "return"
    /\ answer' = [answer EXCEPT ![t] = current]
    /\ Goto(t, "idle")
    /\ UNCHANGED <<current, set, raced>>

-----------------------------------------------------------------------------
(* configure and reset_config.                                             *)

(* with_overrides: a new configuration of the old fields and the new ones. *)
Overridden(c, new) == [f \in Fields |-> IF f \in DOMAIN new THEN new[f] ELSE c[f]]

(* The constructor raises ConfigurationError otherwise.                    *)
Accepts(c, new) == IsValid(Overridden(c, new))

Put(c) ==
    /\ current' = c
    /\ set' = c
    /\ raced' = Builders

(* configure: some of the fields of the configuration that is given, or of *)
(* the default one, never of the one in force, are overridden.             *)
Configure(t, given, new) ==
    /\ doing[t] = "idle"
    /\ Accepts(given, new)
    /\ Put(Overridden(given, new))
    /\ answer' = [answer EXCEPT ![t] = Overridden(given, new)]
    /\ UNCHANGED doing

(* It raises, and nothing has changed.                                     *)
ConfigureRefused(t, given, new) ==
    /\ doing[t] = "idle"
    /\ ~Accepts(given, new)
    /\ UNCHANGED configVars

ResetConfig(t) ==
    /\ doing[t] = "idle"
    /\ Put(Default)
    /\ Goto(t, "return")
    /\ UNCHANGED answer

ConfigNext ==
    \E t \in Threads :
        \/ Look(t) \/ BuildDefault(t) \/ Return(t) \/ ResetConfig(t)
        \/ \E given \in {Default, answer[t]}, fields \in SUBSET Fields :
              \E new \in [fields -> Values] :
                 Configure(t, given, new) \/ ConfigureRefused(t, given, new)

ConfigSpec == ConfigInit /\ [][ConfigNext]_configVars

-----------------------------------------------------------------------------
(* Properties.                                                             *)

(* Every variable has its type. *)
TypeOK ==
    /\ current \in Configs \cup {Unset}
    /\ doing \in [Threads -> {"idle", "build", "return"}]
    /\ answer \in [Threads -> Configs]
    /\ set \in Configs
    /\ raced \subseteq Threads

(* The configuration in force is the one that was set last, whatever       *)
(* threads do - unless a thread had asked for one before there was any,    *)
(* and has put the default over it since.                                  *)
InForceIsSet ==
    current # Unset =>
        \/ current = set
        \/ current = Default /\ \E t \in raced : doing[t] # "build"
=============================================================================
