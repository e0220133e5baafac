----------------------------- MODULE ReplayRunner -----------------------------
(***************************************************************************)
(* A call that failed, from the replay.json its capture writes to the call *)
(* ReplayRunner.run makes of it, step by step.  Between the two the        *)
(* package may be damaged or lost, codecs come and go, and the function or *)
(* a class may have moved.  The runner has a configuration of its own,     *)
(* whose limits may be below those of the capture.  What the functions on  *)
(* values compute is left open here: ValueTree has them, Replay puts the   *)
(* two together.                                                           *)
(***************************************************************************)
EXTENDS Integers

CONSTANTS
    Values,             \* arguments of the failing call, in one value
    NoValue,            \* none of them
    Registrable,        \* codecs a program may register for one type_name
    NoCodec,            \* none of them
    Failed,             \* what a decoding that fails answers
    ToArguments(_),     \* redact, then encode: what arguments.json gets
    NothingCaptured,    \* what it gets with capture_arguments=False
    ToReplay(_, _),     \* encode with a codec, then redact_encoded
    Issue(_),           \* _find_replay_issue
    FromReplay(_, _, _),\* decode with a codec and a depth limit
    ImportedBy(_),      \* whether decode imports a module
    Sizes,              \* sizes a payload may have
    MaxPayload,         \* config.max_replay_payload_size of the capture
    Limits,             \* configurations of runners
    DefaultLimits,      \* the one of TraceSeedConfig()
    MaxEvents           \* bound on what happens between capture and replay

Codecs == Registrable \cup {NoCodec}

(* A configuration, as far as a runner looks at it: whether the package is *)
(* within its limits on archives, max_replay_payload_size, and the depth   *)
(* limit of decode.                                                        *)
Configurations == [files : BOOLEAN, payload : Nat, depth : Nat]

ASSUME RunnerAssumption ==
    /\ Sizes \subseteq Nat /\ MaxPayload \in Nat
    /\ Limits \subseteq Configurations /\ DefaultLimits \in Limits
    /\ NoValue \notin Values
    /\ NoCodec \notin Registrable
    /\ MaxEvents \in Nat
    /\ \A v \in Values, c \in Codecs :
          Issue(ToReplay(v, c)) \in BOOLEAN /\ ImportedBy(ToReplay(v, c)) \in BOOLEAN

VARIABLES
    codec,      \* the codec that is registered
    wrote,      \* the capture: its arguments, codec, case and size
    disk,       \* the package: replay.json, arguments.json, and if it is intact
    target,     \* whether the names still lead to the function and the classes
    run,        \* a ReplayRunner and its call of run or inspect
    events      \* what has happened since the capture

vars == <<codec, wrote, disk, target, run, events>>

(* The function cannot be imported, or it can, with capture_arguments or   *)
(* without.                                                                *)
Cases == {"not_importable", "importable", "arguments_off"}

NoCapture == [value |-> NoValue, codec |-> NoCodec, case |-> "not_importable", size |-> 0]
NoReplay == [present |-> FALSE, replayable |-> FALSE, arguments |-> NoValue, written |-> 0]
NoPackage == [there |-> FALSE, intact |-> TRUE, replay |-> NoReplay, arguments |-> NoValue]
NoRun == [step |-> "idle", mode |-> "inspect", codec |-> NoCodec, limits |-> DefaultLimits,
          package |-> NoPackage, imported |-> FALSE, arguments |-> NoValue]

(* inspect, run, and run with allow_code_execution=True.                   *)
Modes == {"inspect", "run", "authorized_run"}

Init ==
    /\ codec \in Codecs
    /\ wrote = NoCapture
    /\ disk = NoPackage
    /\ target = "there"
    /\ run = NoRun
    /\ events = 0

-----------------------------------------------------------------------------
(* Capture.                                                                *)

(* What replay.json holds: why there is no payload, or the payload.  It is *)
(* written with or without indentation, in another size than was measured. *)
Reason(written) == [NoReplay EXCEPT !.present = TRUE, !.written = written]
Payload(v, c, written) ==
    [present |-> TRUE, replayable |-> TRUE, arguments |-> ToReplay(v, c), written |-> written]

(* _build_replay: the payload, or a reason why there is none.              *)
BuildReplay(v, c, size, written) ==
    IF Issue(ToReplay(v, c)) \/ size > MaxPayload THEN Reason(written) ELSE Payload(v, c, written)

(* Only an importable function's package has a replay.json.                *)
Capture(v, case) ==
    /\ wrote = NoCapture
    /\ \E size, written \in Sizes :
          /\ wrote' = [value |-> v, codec |-> codec, case |-> case, size |-> size]
          /\ disk' = [there |-> TRUE, intact |-> TRUE,
                      replay |-> IF case = "not_importable" THEN NoReplay
                                 ELSE BuildReplay(v, codec, size, written),
                      arguments |-> IF case = "arguments_off" THEN NothingCaptured
                                    ELSE ToArguments(v)]
    /\ UNCHANGED <<codec, target, run, events>>

-----------------------------------------------------------------------------
(* The world between capture and replay.                                   *)

Event ==
    /\ wrote # NoCapture
    /\ events < MaxEvents
    /\ events' = events + 1
    /\ UNCHANGED <<wrote, run>>

(* A name that is taken is refused.                                        *)
Register(c) == Event /\ codec = NoCodec /\ codec' = c /\ UNCHANGED <<disk, target>>

Unregister == Event /\ codec # NoCodec /\ codec' = NoCodec /\ UNCHANGED <<disk, target>>

(* A hash no longer matches, or a good copy is put back; or the file goes. *)
ChangePackage ==
    /\ Event
    /\ disk.there
    /\ \E new \in {NoPackage, [disk EXCEPT !.intact = ~disk.intact]} : disk' = new
    /\ UNCHANGED <<codec, target>>

(* The function, or a class of an argument, is moved, renamed or changed.  *)
MoveTarget ==
    /\ Event
    /\ target = "there"
    /\ target' \in {"function_moved", "class_moved"}
    /\ UNCHANGED <<codec, disk>>

-----------------------------------------------------------------------------
(* ReplayRunner: each step goes on or ends the run with an error.          *)

Only == UNCHANGED <<codec, wrote, disk, target, events>>
Fail == run' = [run EXCEPT !.step = "failed"]
Step(from, guard, to) ==
    /\ run.step = from
    /\ IF guard THEN run' = [run EXCEPT !.step = to] ELSE Fail
    /\ Only

(* The runner copies the codecs when it is made, and has the configuration *)
(* it is given or the default one, whatever that of the capture was.       *)
NewRun(mode, limits) ==
    /\ run.step \in {"idle", "failed", "inspected", "called"}
    /\ wrote # NoCapture
    /\ run' = [NoRun EXCEPT !.step = "authorize", !.mode = mode, !.codec = codec,
                            !.limits = limits]
    /\ Only

(* traceseed replay --allow-code-execution: a process of its own, in which *)
(* nothing has registered a codec, and the default configuration.  Without *)
(* the option it ends at once.                                             *)
NewCommand ==
    /\ run.step \in {"idle", "failed", "inspected", "called"}
    /\ wrote # NoCapture
    /\ run' = [NoRun EXCEPT !.step = "authorize", !.mode = "authorized_run"]
    /\ Only

Authorize == Step("authorize", run.mode # "run", "load")

(* load_files rejects what is over one of the runner's limits on archives. *)
LoadFiles ==
    /\ run.step = "load"
    /\ run' = [run EXCEPT !.step = IF disk.there /\ run.limits.files THEN "verify" ELSE "failed",
                          !.package = disk]
    /\ Only

(* Variant: the hashes are those of the file as it is now.                 *)
VerifyDisk == Step("verify", disk.intact, "payload")

(* verify_files looks at the bytes that were loaded.                       *)
VerifyFiles == Step("verify", run.package.intact, "payload")

(* replay.json has to be there, and within the size limit as it is written.*)
LoadReplayData ==
    LET replay == run.package.replay IN
    Step("payload", replay.present /\ replay.written <= run.limits.payload, "schema")

(* run wants replayable to be true, inspect only to be a boolean.          *)
ValidateSchema ==
    IF run.mode = "inspect"
    THEN Step("schema", TRUE, "inspected")
    ELSE Step("schema", run.package.replay.replayable, "decode")

(* A class that is not what it was may be found all the same, or not, or   *)
(* refuse the fields.                                                      *)
MissingClass ==
    /\ target = "class_moved"
    /\ ImportedBy(run.package.replay.arguments)
    /\ run' = [run EXCEPT !.step = "failed", !.imported = TRUE]

(* Variant: the codecs are those that are registered by now.               *)
DecodeWithCurrent ==
    /\ run.step = "decode"
    /\ LET e == run.package.replay.arguments
           args == FromReplay(e, codec, run.limits.depth)
       IN \/ run' = [run EXCEPT !.step = IF args = Failed THEN "failed" ELSE "resolve",
                                !.imported = ImportedBy(e),
                                !.arguments = args]
          \/ MissingClass
    /\ Only

DecodeArguments ==
    /\ run.step = "decode"
    /\ LET e == run.package.replay.arguments
           args == FromReplay(e, run.codec, run.limits.depth)
       IN \/ run' = [run EXCEPT !.step = IF args = Failed THEN "failed" ELSE "resolve",
                                !.imported = ImportedBy(e),
                                !.arguments = args]
          \/ MissingClass
    /\ Only

ResolveAndCall ==
    /\ run.step = "resolve"
    /\ run' = [run EXCEPT !.step = IF target = "function_moved" THEN "failed" ELSE "called",
                          !.imported = TRUE]
    /\ Only

Next ==
    \/ \E v \in Values, case \in Cases : Capture(v, case)
    \/ \E c \in Registrable : Register(c)
    \/ Unregister \/ ChangePackage \/ MoveTarget
    \/ NewCommand \/ \E mode \in Modes, limits \in Limits : NewRun(mode, limits)
    \/ Authorize \/ LoadFiles \/ VerifyFiles \/ LoadReplayData \/ ValidateSchema
    \/ DecodeArguments \/ ResolveAndCall

Spec == Init /\ [][Next]_vars

-----------------------------------------------------------------------------
(* Properties.                                                             *)

Replays ==
    {NoReplay} \cup {Reason(written) : written \in Sizes}
        \cup {Payload(v, c, written) : v \in Values, c \in Codecs, written \in Sizes}

Packages ==
    [there : BOOLEAN, intact : BOOLEAN, replay : Replays,
     arguments : {NoValue, NothingCaptured} \cup {ToArguments(v) : v \in Values}]

Captures == [value : Values \cup {NoValue}, codec : Codecs, case : Cases, size : Sizes \cup {0}]

(* None, or what decode has made of what encode has made of a value.       *)
Readings ==
    {NoValue} \cup {FromReplay(ToReplay(v, c), d, limits.depth) :
                       v \in Values, c \in Codecs, d \in Codecs, limits \in Limits}

Steps == {"idle", "authorize", "load", "verify", "payload", "schema", "decode", "resolve",
          "called", "inspected", "failed"}

(* What is on disk and in memory is of the form some capture gives it.     *)
TypeOK ==
    /\ codec \in Codecs
    /\ wrote \in Captures
    /\ disk \in Packages
    /\ target \in {"there", "function_moved", "class_moved"}
    /\ run \in [step : Steps, mode : Modes, codec : Codecs, limits : Limits, package : Packages,
                imported : BOOLEAN, arguments : Readings]
    /\ events \in 0..MaxEvents

(* Nothing is imported, let alone called, that was not authorized and does *)
(* not come from verified bytes of a package that may be replayed, though  *)
(* the package changes while it is read.                                   *)
NothingBeforeVerified ==
    run.imported =>
        /\ run.mode = "authorized_run"
        /\ run.package.there /\ run.package.intact
        /\ run.package.replay.replayable

(* The answer of decoding what the capture has written.                    *)
ReadBack == FromReplay(ToReplay(wrote.value, wrote.codec), run.codec, run.limits.depth)

(* What is called is called with what decode makes of the arguments of the *)
(* one capture there was, in which nothing was found that forbids a replay.*)
CallIsOfTheCapture ==
    run.step = "called" =>
        /\ run.arguments = ReadBack /\ ReadBack # Failed
        /\ ~Issue(ToReplay(wrote.value, wrote.codec))

(* An authorized run fails for no other reason than these: the package was *)
(* gone, damaged or may not be replayed, it is over one of the limits of   *)
(* the runner, the function or a class has moved, or the arguments cannot  *)
(* be decoded with the codecs and the depth limit of the run.              *)
FailureExplained ==
    run.step = "failed" /\ run.mode = "authorized_run" =>
        \/ ~run.package.there \/ ~run.package.intact \/ ~run.package.replay.replayable
        \/ ~run.limits.files
        \/ run.package.replay.written > run.limits.payload
        \/ target # "there"
        \/ ReadBack = Failed
=============================================================================
