------------------------------ MODULE TaskContext ------------------------------
(***************************************************************************)
(* context.py: the task-local context and breadcrumbs, and what a capture  *)
(* takes of them.  A ContextVar holds a reference to a dict: tasks that    *)
(* inherit a context share its dicts, so whether a step copies or mutates  *)
(* is visible here.  Blocks and tokens may be closed in any order and in   *)
(* any task: a generator suspended in a block is resumed by whoever holds  *)
(* it.                                                                     *)
(***************************************************************************)
EXTENDS Integers, FiniteSets, FiniteSetsExt, SequencesExt

CONSTANTS
    Tasks,      \* execution contexts: threads, asyncio tasks
    Main,       \* the first of them
    Keys,       \* keys of a context
    Limits,     \* values configurations give to max_breadcrumbs
    MaxMade     \* bound on the dicts and breadcrumbs a program makes

ASSUME ContextAssumption ==
    /\ Main \in Tasks
    /\ Limits \subseteq Nat \ {0} /\ Limits # {}
    /\ MaxMade \in Nat

VARIABLES
    alive,      \* tasks that run
    dicts,      \* the dicts made so far; each call that makes one has a token
    tokens,     \* tokens[i]: the token, or the block, of the call that made dict i
    var,        \* var[t]: the dict _context_var refers to in t; 0 is None
    crumbs,     \* crumbs[t]: _breadcrumbs_var in t
    limit,      \* get_config().max_breadcrumbs
    layer,      \* layer[t]: max_breadcrumbs of t's running @capture layer; 0 is none
    base, settings, said, stale
                \* for the properties: the values t started with, its settings
                \* that are in force, the breadcrumbs it has seen since the last
                \* clear, and whether it has reset something no longer in force

contextVars == <<dicts, tokens, var, base, settings, stale>>
crumbVars == <<crumbs, said>>
captureVars == <<limit, layer>>
vars == <<alive, contextVars, crumbVars, captureVars>>

Room == Len(dicts) + MapThenSumSet(LAMBDA t : Len(said[t]), Tasks) < MaxMade

Absent == 0
EmptyDict == [k \in Keys |-> Absent]
Contents(i) == IF i = 0 THEN EmptyDict ELSE dicts[i]

(* current_context() in t: a copy.                                         *)
Shown(t) == Contents(var[t])

Init ==
    /\ alive = {Main}
    /\ dicts = <<>>
    /\ tokens = <<>>
    /\ var = [t \in Tasks |-> 0]
    /\ crumbs = [t \in Tasks |-> <<>>]
    /\ limit \in Limits
    /\ layer = [t \in Tasks |-> 0]
    /\ base = [t \in Tasks |-> EmptyDict]
    /\ settings = [t \in Tasks |-> <<>>]
    /\ said = [t \in Tasks |-> <<>>]
    /\ stale = [t \in Tasks |-> FALSE]

(* An asyncio task copies its creator's context, a thread starts empty.    *)
Spawn(t, child, copied) ==
    /\ child \notin alive
    /\ alive' = alive \cup {child}
    /\ IF copied
       THEN /\ var' = [var EXCEPT ![child] = var[t]]
            /\ base' = [base EXCEPT ![child] = Shown(t)]
            /\ crumbs' = [crumbs EXCEPT ![child] = crumbs[t]]
            /\ said' = [said EXCEPT ![child] = said[t]]
       ELSE UNCHANGED <<var, base, crumbs, said>>
    /\ UNCHANGED <<dicts, tokens, settings, stale, captureVars>>

-----------------------------------------------------------------------------
(* The context.                                                            *)

Setting(keys, token) == [keys |-> keys, token |-> token, clear |-> FALSE]
Clearing == [keys |-> {}, token |-> 0, clear |-> TRUE]

Merged(t, keys, value) == [k \in Keys |-> IF k \in keys THEN value ELSE Shown(t)[k]]

(* Variant: the dict is updated in place once there is one.                *)
PutInPlace(t, keys, kind) ==
    LET new == Len(dicts) + 1 IN
    /\ Room
    /\ IF var[t] = 0
       THEN /\ dicts' = Append(dicts, Merged(t, keys, new))
            /\ var' = [var EXCEPT ![t] = new]
       ELSE /\ dicts' = Append([dicts EXCEPT ![var[t]] = Merged(t, keys, new)], EmptyDict)
            /\ UNCHANGED var
    /\ tokens' = Append(tokens, [task |-> t, old |-> var[t], kind |-> kind, open |-> TRUE])
    /\ settings' = [settings EXCEPT ![t] = Append(@, Setting(keys, new))]
    /\ UNCHANGED <<alive, base, stale, crumbVars, captureVars>>

(* context() on entry and set_context: a new dict, and a token that refers *)
(* to the old one.                                                         *)
Put(t, keys, kind) ==
    LET new == Len(dicts) + 1 IN
    /\ Room
    /\ dicts' = Append(dicts, Merged(t, keys, new))
    /\ var' = [var EXCEPT ![t] = new]
    /\ tokens' = Append(tokens, [task |-> t, old |-> var[t], kind |-> kind, open |-> TRUE])
    /\ settings' = [settings EXCEPT ![t] = Append(@, Setting(keys, new))]
    /\ UNCHANGED <<alive, base, stale, crumbVars, captureVars>>

EnterBlock(t, keys) == Put(t, keys, "block")
SetContext(t, k) == Put(t, {k}, "token")

(* What a reset of token i ends: its setting and all later ones; or, when  *)
(* that is in force no more, nothing that can be told.                     *)
EndSetting(t, i) ==
    LET at == {j \in DOMAIN settings[t] : settings[t][j].token = i} IN
    IF at = {}
    THEN stale' = [stale EXCEPT ![t] = TRUE] /\ UNCHANGED settings
    ELSE /\ settings' = [settings EXCEPT ![t] = SubSeq(@, 1, Min(at) - 1)]
         /\ UNCHANGED stale

(* Variant: the keys of the block are removed.                             *)
ResetRemovesKeys(t, i) ==
    /\ tokens[i].open
    /\ tokens' = [tokens EXCEPT ![i].open = FALSE]
    /\ IF tokens[i].task = t
       THEN /\ dicts' = Append(dicts, [k \in Keys |-> IF Shown(t)[k] = i THEN Absent ELSE Shown(t)[k]])
            /\ var' = [var EXCEPT ![t] = Len(dicts) + 1]
            /\ EndSetting(t, i)
       ELSE UNCHANGED <<dicts, var, settings, stale>>
    /\ UNCHANGED <<alive, base, crumbVars, captureVars>>

(* ContextVar.reset: the old reference is put back, once, in the context   *)
(* the token is from.  Elsewhere it raises ValueError: the token is as good *)
(* as before, but a block has ended.                                        *)
Reset(t, i) ==
    /\ tokens[i].open
    /\ tokens[i].task = t \/ tokens[i].kind = "block"
    /\ tokens' = [tokens EXCEPT ![i].open = FALSE]
    /\ IF tokens[i].task = t
       THEN var' = [var EXCEPT ![t] = tokens[i].old] /\ EndSetting(t, i)
       ELSE UNCHANGED <<var, settings, stale>>
    /\ UNCHANGED <<alive, dicts, base, crumbVars, captureVars>>

(* clear_context, which has no token of its own.                           *)
Clear(t) ==
    /\ Room
    /\ dicts' = Append(dicts, EmptyDict)
    /\ tokens' = Append(tokens, [task |-> t, old |-> 0, kind |-> "none", open |-> FALSE])
    /\ var' = [var EXCEPT ![t] = Len(dicts) + 1]
    /\ settings' = [settings EXCEPT ![t] = Append(@, Clearing)]
    /\ crumbs' = [crumbs EXCEPT ![t] = <<>>]
    /\ said' = [said EXCEPT ![t] = <<>>]
    /\ UNCHANGED <<alive, base, stale, captureVars>>

-----------------------------------------------------------------------------
(* Breadcrumbs and captures.                                               *)

(* Variant: the oldest are kept.                                           *)
TrimOldest(values, n) == IF Len(values) > n THEN SubSeq(values, 1, n) ELSE values

Trim(values, n) == IF Len(values) > n THEN SubSeq(values, Len(values) - n + 1, Len(values)) ELSE values

Breadcrumb(t) ==
    LET item == [task |-> t, n |-> Len(said[t]) + 1, limit |-> limit] IN
    /\ Room
    /\ crumbs' = [crumbs EXCEPT ![t] = Trim(Append(@, item), limit)]
    /\ said' = [said EXCEPT ![t] = Append(@, item)]
    /\ UNCHANGED <<alive, contextVars, captureVars>>

Configure(n) == limit' = n /\ UNCHANGED <<alive, contextVars, crumbVars, layer>>

(* A decorated function is called, or a guard entered: the layer keeps its *)
(* own configuration, or the one of the process that it finds.             *)
Call(t) ==
    /\ layer[t] = 0
    /\ \E selected \in Limits \cup {limit} : layer' = [layer EXCEPT ![t] = selected]
    /\ UNCHANGED <<alive, contextVars, crumbVars, limit>>

(* Variant: one short.                                                     *)
TakenOneShort(t) == SubSeq(crumbs[t], 1, layer[t] - 1)

(* What a capture by that layer takes: the first of the breadcrumbs.       *)
Taken(t) == SubSeq(crumbs[t], 1, Min({layer[t], Len(crumbs[t])}))

(* The call ends, with a capture or without.                               *)
Leave(t) ==
    /\ layer[t] # 0
    /\ layer' = [layer EXCEPT ![t] = 0]
    /\ UNCHANGED <<alive, contextVars, crumbVars, limit>>

Next ==
    \/ \E n \in Limits \ {limit} : Configure(n)
    \/ \E t \in alive :
          \/ \E child \in Tasks, copied \in BOOLEAN : Spawn(t, child, copied)
          \/ \E keys \in SUBSET Keys \ {{}} : EnterBlock(t, keys)
          \/ \E k \in Keys : SetContext(t, k)
          \/ \E i \in DOMAIN tokens : Reset(t, i)
          \/ Clear(t) \/ Breadcrumb(t) \/ Call(t) \/ Leave(t)

Spec == Init /\ [][Next]_vars

-----------------------------------------------------------------------------
(* Properties.                                                             *)

Crumbs == [task : Tasks, n : Nat, limit : Limits]
Tokens == [task : Tasks, old : Nat, kind : {"block", "token", "none"}, open : BOOLEAN]
Settings == [keys : SUBSET Keys, token : Nat, clear : BOOLEAN]

(* Every variable has its type, every reference is to a dict made before,  *)
(* and no task has more breadcrumbs than some limit allows.                *)
TypeOK ==
    /\ alive \subseteq Tasks
    /\ dicts \in Seq([Keys -> Nat])
    /\ tokens \in Seq(Tokens) /\ Len(tokens) = Len(dicts)
    /\ \A i \in DOMAIN tokens : tokens[i].old < i
    /\ var \in [Tasks -> 0..Len(dicts)]
    /\ crumbs \in [Tasks -> Seq(Crumbs)] /\ said \in [Tasks -> Seq(Crumbs)]
    /\ \A t \in Tasks : \E n \in Limits : Len(crumbs[t]) <= n
    /\ limit \in Limits
    /\ layer \in [Tasks -> Limits \cup {0}]
    /\ base \in [Tasks -> [Keys -> Nat]]
    /\ settings \in [Tasks -> Seq(Settings)]
    /\ stale \in [Tasks -> BOOLEAN]

(* "Context uses contextvars and stays isolated across async tasks"        *)
(* (README.md): no step changes what two running tasks see, even of a dict *)
(* that both refer to.                                                     *)
Isolated ==
    [][Cardinality({t \in alive : Shown(t)' # Shown(t) \/ crumbs'[t] # crumbs[t]}) <= 1]_vars

(* What the settings in force in t add up to: of each key, the last one.   *)
Meaning(t) ==
    [k \in Keys |->
        LET s == settings[t]
            hits == {i \in DOMAIN s : s[i].clear \/ k \in s[i].keys}
        IN IF hits = {} THEN base[t][k]
           ELSE IF s[Max(hits)].clear THEN Absent ELSE s[Max(hits)].token]

(* A task sees what its settings in force add up to, however blocks, tokens *)
(* and clears nest and whichever are skipped or ended elsewhere; only a     *)
(* reset of something an earlier reset had ended already can break this.    *)
Scoped == \A t \in alive : ~stale[t] => Shown(t) = Meaning(t)

(* A task keeps the newest of its breadcrumbs, and drops none before a     *)
(* limit it has met is reached.                                            *)
CrumbsAreNewest ==
    \A t \in Tasks :
        /\ IsSuffix(crumbs[t], said[t])
        /\ crumbs[t] # said[t] => Len(crumbs[t]) >= Min({c.limit : c \in Range(said[t])})

(* A capture takes the oldest of the breadcrumbs that were kept, under the *)
(* limit of its layer: it leaves out the newest one only if that was kept  *)
(* under a higher limit than the layer's, which is the one of its own      *)
(* config= or that of the process when it was entered.                     *)
CaptureTakesNewest ==
    \A t \in Tasks : layer[t] # 0 /\ said[t] # <<>> =>
        \/ Last(said[t]).limit > layer[t]
        \/ Taken(t) # <<>> /\ Last(Taken(t)) = Last(said[t])
=============================================================================
