------------------------------- MODULE MCReplay -------------------------------
(* One positional argument: a leaf of any kind, or a container of up to    *)
(* two leaves, the last of them under a sensitive name or not, or a        *)
(* container around such a container, or a container with an item too many,*)
(* or lists on and beyond the limits on depth.  And none to three          *)
(* arguments, positional or by keyword, the last of them of a sensitive    *)
(* name or not.  The value of an enum member may be anything.              *)
EXTENDS Replay

Number == Leaf("number")
Leaves == {Leaf(kind) : kind \in PlainLeaves} \cup {Tree(kind, <<Number>>) : kind \in Enums}
Empty == {Leaf(kind) : kind \in Containers}
Single == {Tree(kind, <<a>>) : kind \in Containers, a \in Leaves}
Pairs == {Tree(kind, <<a, b>>) : kind \in {"dict", "odd_dict"},
                                 a \in {Number, Leaf("custom")}, b \in Leaves}
Secret == {[p EXCEPT !.secret = {Len(p.items)}] :
             p \in {q \in Pairs \cup {Tree(kind, <<Number>>) : kind \in Keyed} :
                       q.kind \in Keyed}}
Inner == Empty \cup {Tree(kind, <<Number>>) : kind \in Containers}
               \cup {Tree("list", <<Leaf("custom")>>)}
Nested == {Tree(kind, <<q>>) : kind \in {"list", "dict", "dataclass"}, q \in Inner}

(* Four lists deep, and five.                                              *)
Around(v) == Tree("list", <<v>>)
Deep == {Around(Around(Around(leaf))) : leaf \in {Number, Leaf("bytearray"), Around(Number)}}
Wide == {Tree(kind, <<Number, Leaf("secret_text"), Number>>) :
            kind \in {"list", "dict", "odd_dict", "dataclass"}}
Calls == {Tree(kind, args) : kind \in {"list", "dict"},
             args \in {<<>>} \cup {<<a>> : a \in {Number, Leaf("secret_text"), Leaf("secret_bytes"),
                                                 Tree("dict", <<Number>>)}}
                  \cup {<<Number, Leaf("custom")>>, <<Number, Number, Number>>}}
MCValues ==
    {Tree("list", <<v>>) : v \in Leaves \cup Empty \cup Single \cup Pairs \cup Secret
                                     \cup Nested \cup Deep \cup Wide}
        \cup Calls
        \cup {Tree("list", <<Tree("enum", <<Leaf("custom")>>)>>)}
        \cup {[call EXCEPT !.secret = DOMAIN call.items \cap {Len(call.items)}] : call \in Calls}

(* The default configuration of a runner, and others with a limit that is  *)
(* lower, and one that is higher.                                          *)
MCDefault == [files |-> TRUE, payload |-> 2, depth |-> 20]
MCLimits == {MCDefault, [MCDefault EXCEPT !.files = FALSE], [MCDefault EXCEPT !.payload = 1],
             [MCDefault EXCEPT !.payload = 3], [MCDefault EXCEPT !.depth = 4]}

(* All sizes, limits and cases go with a few of the values only: what      *)
(* decodes, needs a codec, an import or some depth, has no way back or     *)
(* cannot be replayed.                                                     *)
FewValues ==
    {Tree("list", <<v>>) : v \in {Number, Leaf("custom"), Leaf("opaque"), Around(Around(Around(Number))),
                                  Leaf("sequence_subclass"), Tree("unbuildable_enum", <<Number>>),
                                  Tree("dataclass", <<Leaf("custom")>>)}}

UsualCapture(v) ==
    Capture(v, "importable") /\ wrote'.size = 2 /\ disk'.replay.written = 2

UsualLimits == IF wrote.value \in FewValues THEN Limits ELSE {DefaultLimits}

MCNext ==
    \/ \E v \in FewValues, case \in Cases : Capture(v, case)
    \/ \E v \in Values : UsualCapture(v)
    \/ \E c \in Registrable : Register(c)
    \/ Unregister \/ ChangePackage \/ MoveTarget
    \/ NewCommand \/ \E mode \in Modes, limits \in UsualLimits : NewRun(mode, limits)
    \/ Authorize \/ LoadFiles \/ VerifyFiles \/ LoadReplayData \/ ValidateSchema
    \/ DecodeArguments \/ ResolveAndCall

MCSpec == Init /\ [][MCNext]_vars
=============================================================================
