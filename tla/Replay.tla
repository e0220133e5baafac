-------------------------------- MODULE Replay --------------------------------
(***************************************************************************)
(* The replay of calls whose arguments are trees: ReplayRunner's steps on  *)
(* ValueTree's functions.                                                  *)
(***************************************************************************)
EXTENDS ReplayRunner, ValueTree

(* Variant: redact_encoded is left out.                                    *)
EncodedOnly(v, c) == Encode(v, 0, c)

(* replay.json: the arguments, positional ones as a list or keyword ones   *)
(* as a dict, in one tree.                                                 *)
Encoded(v, c) == Redact(Encode(v, 0, c), FALSE)

(* arguments.json: _redact_mapping of what _bind_arguments found, then     *)
(* encode.                                                                 *)
Arguments(v) ==
    LET redacted == [i \in DOMAIN v.items |-> RedactPlain(v.items[i], 0, i \in v.secret)]
    IN Encode(Tree("dict", redacted), 0, "none")

EmptyArguments == Leaf("dict")

(* The runner's functions on values are these.                             *)
ASSUME ReplayAssumption ==
    /\ Registrable = TreeCodecs /\ NoCodec = "none" /\ Failed = Failure
    /\ NothingCaptured = EmptyArguments
    /\ \A v \in Values :
          /\ PlainValue(v) /\ ToArguments(v) = Arguments(v)
          /\ \A c \in Codecs :
                /\ ToReplay(v, c) = Encoded(v, c)
                /\ Issue(ToReplay(v, c)) = HasReplayIssue(Encoded(v, c))
                /\ \A d \in Codecs, limits \in Limits :
                      FromReplay(ToReplay(v, c), d, limits.depth)
                          = Decode(Encoded(v, c), d, limits.depth)

-----------------------------------------------------------------------------
(* Properties.                                                             *)

(* _find_replay_issue sees a loss where there is none: in a text that has  *)
(* one of its marks, in a field truncated that is True, and in JSON nested *)
(* deeper than its safety depth.                                           *)
TakenForLoss(v, c) ==
    \/ Mentions(v, "marked_text")
    \/ Mentions(v, "flagged_dataclass")
    \/ JsonTooDeep(Encoded(v, c))

(* A package that says it can be replayed has lost nothing of the          *)
(* arguments: nothing was hidden, cut or lost on the way, whatever they    *)
(* are made of.  And a package of arguments that lose nothing says so, if  *)
(* it has room for them, but for the three cases of TakenForLoss.          *)
ReplayableIsLossless ==
    disk.there => (disk.replay.replayable <=>
        /\ wrote.case # "not_importable"
        /\ wrote.size <= MaxPayload
        /\ Lossless(wrote.value, wrote.codec)
        /\ ~TakenForLoss(wrote.value, wrote.codec))

(* What is called is called with the captured arguments, up to their base  *)
(* classes, unless the codec of one of them has changed since.             *)
CalledAsCaptured ==
    run.step = "called" =>
        \/ run.arguments = Normal(wrote.value)
        \/ run.codec # wrote.codec /\ Mentions(wrote.value, "custom")

(* arguments.json shows, at its place and sanitized, every part of the     *)
(* arguments that no sensitive name, pattern or limit hides, and no other: *)
(* the depth and width limits of the redaction and of the encoding that    *)
(* follows it taken together, the mark the redaction leaves in a dict, and *)
(* the key of a dict whose text is that of another.                        *)
ArgumentsSanitized ==
    disk.there /\ events = 0 /\ run = NoRun =>
        LET shown == {place \in Places(disk.arguments) : At(disk.arguments, place).kind
                          \notin {"redacted", "max_depth", "max_depth_text", "mark",
                                  "overwritten"}}
            v == wrote.value
        IN IF wrote.case = "arguments_off" THEN disk.arguments = EmptyArguments
           ELSE /\ shown = {place \in ShownPlaces(v) :
                               At(v, place).kind \notin {"secret_text", "secret_bytes"}}
                /\ \A place \in shown \ {<<>>} :
                      At(disk.arguments, place).kind =
                          BaseKind(PlainKind(At(v, place).kind))

(* The two redactions agree: a package that may be replayed keeps from its *)
(* arguments.json nothing but what replay.json has no name for - a         *)
(* positional argument whose parameter has a sensitive name, what a dict   *)
(* has under a key that is no text - or holds in base64.                   *)
RedactionsAgree ==
    disk.there /\ events = 0 /\ run = NoRun /\ disk.replay.replayable =>
        \A place \in Places(disk.arguments) :
            At(disk.arguments, place).kind = "redacted" =>
                \/ wrote.value.kind = "list" /\ Len(place) = 1 /\ place[1] \in wrote.value.secret
                \/ /\ place # <<>> /\ place[Len(place)] = 1
                   /\ At(wrote.value, SubSeq(place, 1, Len(place) - 1)).kind = "odd_dict"
                \/ At(wrote.value, place).kind = "secret_bytes"

(* An authorized run fails for no other reason than these: the package was *)
(* gone, damaged or may not be replayed; it is over one of the limits of   *)
(* the runner, which has a configuration of its own; the function or a     *)
(* class has moved; the codec of an argument has changed; or an argument   *)
(* has no way back.                                                        *)
FailsForAReason ==
    run.step = "failed" /\ run.mode = "authorized_run" =>
        \/ ~run.package.there \/ ~run.package.intact \/ ~run.package.replay.replayable
        \/ ~run.limits.files
        \/ run.package.replay.written > run.limits.payload
        \/ \E p \in Parts(wrote.value, 0) : p.depth >= run.limits.depth
        \/ target # "there"
        \/ run.codec # wrote.codec /\ Mentions(wrote.value, "custom")
        \/ \E kind \in {"sequence_subclass", "unbuildable_class", "unbuildable_enum"} :
              Mentions(wrote.value, kind)

(* "Replay is generated only when the callable is importable and all       *)
(* arguments are reconstructable" (README.md).                             *)
ReplayableIsReconstructable ==
    disk.there /\ disk.replay.replayable =>
        Decode(disk.replay.arguments, wrote.codec, 4 * MaxDepth) # Failure
=============================================================================
