------------------------------- MODULE ValueTree -------------------------------
(***************************************************************************)
(* What SafeSerializer.encode, Redactor.redact_encoded, _find_replay_issue *)
(* and SafeSerializer.decode do to the arguments of a replayable call, and *)
(* what Redactor.redact and encode make of them for arguments.json.        *)
(*                                                                         *)
(* A value, and its encoding, is a tree: its kind, its items, and which of *)
(* its items stand under a sensitive key or field name.  What the code     *)
(* tells apart in a leaf is its kind only.  The items of a list of         *)
(* positional arguments are secret where the parameter has such a name.    *)
(* Keys of dicts are short and have no pattern in them.                    *)
(*                                                                         *)
(* The recursive methods are recursive functions f of a tree.              *)
(***************************************************************************)
EXTENDS Integers, Sequences

CONSTANTS
    MaxDepth,   \* config.max_depth
    MaxItems,   \* config.max_collection_items
    MaxJson,    \* the safety depth of _find_replay_issue, 128
    MaxHeight   \* bound on how deep values are, which the code does not have

ASSUME TreeAssumption ==
    MaxDepth \in Nat /\ MaxItems \in Nat \ {0} /\ MaxJson \in Nat /\ MaxHeight \in Nat

(* What arguments are made of.  Leaves: a "date" is any value written as   *)
(* an object with one text; "marked_text" has one of the marks of the      *)
(* redaction in it, such as "[REDACTED]", but nothing secret.  Bytes may   *)
(* be over the limit of texts as base64 only, as bytes though not as the   *)
(* text they are ("wide"), or even as that text ("long").                  *)
Bytes == {"bytearray", "secret_bytes", "base64_bytes", "wide_bytes", "long_bytes"}
PlainLeaves == {"number", "int_subclass", "date", "secret_text", "long_text", "marked_text",
                "cycle", "opaque", "custom"} \cup Bytes

(* Containers: those with keys or fields and others.  The first key of an  *)
(* "odd_dict" is no text, and str() of it is the second key if there is    *)
(* one: {1: a, '1': b}.  A field of a "flagged_dataclass" has the name     *)
(* truncated and is True.  Unbuildable classes, and enums, are local ones, *)
(* those of __main__, dataclasses with init=False fields, and composite    *)
(* flags.                                                                  *)
Keyed == {"dict", "odd_dict", "dict_subclass", "dataclass", "flagged_dataclass",
          "unbuildable_class"}
Containers == Keyed \cup {"list", "sequence_subclass"}

(* Enum members, around their values.                                      *)
Enums == {"enum", "unbuildable_enum"}

(* What encode and redact make of them.                                    *)
Unsafe == {"redacted", "cut_text", "cut_bytes", "max_depth", "circular_reference", "unresolved",
           "codec_error"}
Kinds == PlainLeaves \cup Containers \cup Enums
             \cup Unsafe \cup {"bytes", "codec_A", "codec_B"}
             \cup {"text", "circular_text", "repr_text", "max_depth_text", "mark", "overwritten"}

(* The trees of up to n levels.                                            *)
Over(S) == [kind : Kinds, items : Seq(S), secret : SUBSET Nat, truncated : BOOLEAN]
Levels[n \in 0..MaxHeight] == IF n = 0 THEN {} ELSE Over(Levels[n - 1])

Trees == Levels[MaxHeight]

Tree(kind, items) == [kind |-> kind, items |-> items, secret |-> {}, truncated |-> FALSE]
Leaf(kind) == Tree(kind, <<>>)
Failure == Leaf("failure")

(* Codecs a program may register for one type_name; "none" is no codec.    *)
TreeCodecs == {"codec_A", "codec_B", "broken_codec"}

(* encode of a leaf that is not kept as it is.  A "custom" value is of the *)
(* type the codecs are for; all other objects are "opaque"; "cycle" is a   *)
(* container met inside itself.                                            *)
EncodedName(kind, codec) ==
    CASE kind = "int_subclass" -> "number"
      [] kind = "long_text" -> "cut_text"
      [] kind = "bytearray" -> "bytes"
      [] kind \in {"wide_bytes", "long_bytes"} -> "base64_bytes"
      [] kind = "cycle" -> "circular_reference"
      [] kind = "custom" /\ codec = "broken_codec" -> "codec_error"
      [] kind = "custom" /\ codec \in {"codec_A", "codec_B"} -> codec
      [] kind = "custom" /\ codec \notin TreeCodecs -> "unresolved"
      [] kind = "opaque" -> "unresolved"
      [] OTHER -> kind

EncodedLeaf(kind, codec) ==
    [Leaf(EncodedName(kind, codec)) EXCEPT !.truncated = (kind \in {"wide_bytes", "long_bytes"})]

(* A subclass of dict is encoded as a dict, any other container under the  *)
(* name of its own class.                                                  *)
EncodedKind(kind) == IF kind = "dict_subclass" THEN "dict" ELSE kind

Kept(items) == IF Len(items) > MaxItems THEN MaxItems ELSE Len(items)

Encode(v, depth, codec) ==
    LET f[u \in Trees] == [d \in Nat |->
            IF d >= MaxDepth THEN Leaf("max_depth")
            ELSE IF u.items = <<>> THEN EncodedLeaf(EncodedKind(u.kind), codec)
            ELSE [kind |-> EncodedKind(u.kind),
                  items |-> [i \in 1..Kept(u.items) |-> f[u.items[i]][d + 1]],
                  secret |-> u.secret \cap 1..Kept(u.items),
                  truncated |-> Len(u.items) > MaxItems]]
    IN  f[v][depth]

(* The items redact_encoded knows to be under a sensitive name: it has no  *)
(* name for a key that is no text.                                         *)
Named(u) ==
    CASE u.kind \notin Keyed -> {}
      [] u.kind = "odd_dict" -> u.secret \ {1}
      [] OTHER -> u.secret

(* redact_text cuts long base64 too.                                       *)
RedactedKind(kind) == IF kind = "base64_bytes" THEN "cut_bytes" ELSE kind

(* Variant: the fields of a dataclass go without their names.              *)
RedactKeys(e, sensitive) ==
    LET f[u \in Trees] ==
            IF u.kind = "secret_text" THEN Leaf("redacted")
            ELSE [u EXCEPT !.kind = RedactedKind(u.kind),
                           !.items = [i \in DOMAIN u.items |->
                     IF u.kind = "dict" /\ i \in u.secret THEN Leaf("redacted")
                     ELSE f[u.items[i]]]]
    IN  IF sensitive THEN Leaf("redacted") ELSE f[e]

(* redact_encoded: bytes are base64 by then, and no pattern finds them.    *)
(* Its depth limit, 4 * MaxDepth, is beyond what encode leaves.            *)
Redact(e, sensitive) ==
    LET f[u \in Trees] ==
            IF u.kind = "secret_text" THEN Leaf("redacted")
            ELSE [u EXCEPT !.kind = RedactedKind(u.kind),
                           !.items = [i \in DOMAIN u.items |->
                     IF i \in Named(u) THEN Leaf("redacted") ELSE f[u.items[i]]]]
    IN  IF sensitive THEN Leaf("redacted") ELSE f[e]

(* redact, of a plain value: texts, and bytes as texts, are searched and   *)
(* cut, an unknown object is its repr.                                     *)
PlainKind(kind) ==
    CASE kind \in Keyed -> "dict"
      [] kind \in {"list", "sequence_subclass"} -> "list"
      [] kind \in {"secret_text", "secret_bytes"} -> "redacted"
      [] kind \in {"long_text", "long_bytes"} -> "cut_text"
      [] kind \in {"bytearray", "base64_bytes", "wide_bytes"} -> "text"
      [] kind = "cycle" -> "circular_text"
      [] kind \in Enums \cup {"date", "opaque", "custom"} -> "repr_text"
      [] OTHER -> kind

(* The value under the second key of an odd dict takes the place of the    *)
(* one under the first.  That place is kept here so that the other items   *)
(* have theirs; nothing is in it.                                          *)
Overwrites(u) == u.kind = "odd_dict" /\ Kept(u.items) > 1

(* Too many items leave a mark: at the end of a list; as a key of its own  *)
(* in a dict, where it comes before some keys in the order encode sorts by *)
(* and then takes the place of one, if none is free.                       *)
MarkedIf(cut, u, items) ==
    LET n == Len(items) IN
    CASE ~cut -> items
      [] cut /\ u.kind \notin Keyed -> Append(items, Leaf("mark"))
      [] cut /\ Overwrites(u) -> [items EXCEPT ![1] = Leaf("mark")]
      [] cut /\ u.kind \in Keyed /\ ~Overwrites(u) ->
             [i \in 1..n + 1 |-> IF i < n THEN items[i] ELSE IF i = n THEN Leaf("mark") ELSE items[n]]

(* Variant: the fields of a dataclass go without their names.              *)
RedactPlainKeys(v, depth, sensitive) ==
    LET f[u \in Trees] == [d \in Nat |->
            IF d >= MaxDepth THEN Leaf("max_depth_text")
            ELSE IF u.items = <<>> \/ u.kind \in Enums THEN Leaf(PlainKind(u.kind))
            ELSE Tree(PlainKind(u.kind),
                      MarkedIf(Len(u.items) > MaxItems, u,
                          [i \in 1..Kept(u.items) |->
                               IF i = 1 /\ Overwrites(u) THEN Leaf("overwritten")
                               ELSE IF u.kind # "dataclass" /\ i \in u.secret THEN Leaf("redacted")
                               ELSE f[u.items[i]][d + 1]]))]
    IN  IF sensitive THEN Leaf("redacted") ELSE f[v][depth]

RedactPlain(v, depth, sensitive) ==
    LET f[u \in Trees] == [d \in Nat |->
            IF d >= MaxDepth THEN Leaf("max_depth_text")
            ELSE IF u.items = <<>> \/ u.kind \in Enums THEN Leaf(PlainKind(u.kind))
            ELSE Tree(PlainKind(u.kind),
                      MarkedIf(Len(u.items) > MaxItems, u,
                          [i \in 1..Kept(u.items) |->
                               IF i = 1 /\ Overwrites(u) THEN Leaf("overwritten")
                               ELSE IF i \in u.secret THEN Leaf("redacted")
                               ELSE f[u.items[i]][d + 1]]))]
    IN  IF sensitive THEN Leaf("redacted") ELSE f[v][depth]

(* How an encoded value is written: a number or a text as it is, anything  *)
(* else as an object whose values are one level down and whose items - or  *)
(* fields, or pairs of keys and values, or the value of an enum member -   *)
(* are ItemLevels down.                                                    *)
WrittenAsIs == {"number", "secret_text", "marked_text", "cut_text", "redacted"}
ItemLevels(kind) ==
    CASE kind \in {"dict", "odd_dict"} -> 3
      [] kind \in Enums -> 1
      [] OTHER -> 2

JsonTooDeep(e) ==
    LET f[u \in Trees] == [level \in Nat |->
            IF \/ level > MaxJson
               \/ u.kind \notin WrittenAsIs /\ level + 1 > MaxJson
               \/ \E i \in DOMAIN u.items : f[u.items[i]][level + ItemLevels(u.kind)] = "deep"
            THEN "deep" ELSE "flat"]
    IN  f[e][0] = "deep"

(* What _find_replay_issue takes for a sign of a loss: a mark in a text,   *)
(* and any object in which truncated is true.                              *)
Suspicious == Unsafe \cup {"marked_text", "flagged_dataclass"}

HasReplayIssue(e) ==
    LET f[u \in Trees] ==
            IF \/ u.kind \in Suspicious
               \/ u.truncated
               \/ \E i \in DOMAIN u.items : f[u.items[i]] = "issue"
            THEN "issue" ELSE "none"
    IN  f[e] = "issue" \/ JsonTooDeep(e)

(* Kinds decode knows no way back from: names of classes it does not know  *)
(* (subclasses of list, tuple, set), and classes it cannot import or call, *)
(* or that have no member of the name.                                     *)
Irreversible == {"sequence_subclass", "unbuildable_class", "unbuildable_enum"} \cup Unsafe

(* The codec that has the name now decodes, be it the one that has encoded *)
(* or not; at worst it reads something else.                               *)
DecodedLeaf(kind, codec) ==
    IF kind \notin {"codec_A", "codec_B"} THEN Leaf(kind)
    ELSE IF codec \in {"none", "broken_codec"} THEN Failure
    ELSE IF codec = kind THEN Leaf("custom") ELSE Leaf("misread")

(* Variant: an unknown type is taken for the list of its items.            *)
DecodeUnknown(e, codec, limit) ==
    LET f[u \in Trees] == [d \in Nat |->
            IF d >= limit THEN Failure
            ELSE IF u.kind = "enum" THEN Leaf("enum")
            ELSE IF \/ u.kind \in Irreversible \ {"sequence_subclass"}
                    \/ \E i \in DOMAIN u.items : f[u.items[i]][d + 1] = Failure THEN Failure
            ELSE IF u.items = <<>> THEN DecodedLeaf(u.kind, codec)
            ELSE [u EXCEPT !.items = [i \in DOMAIN u.items |-> f[u.items[i]][d + 1]],
                           !.kind = IF u.kind = "sequence_subclass" THEN "list" ELSE u.kind]]
    IN  f[e][0]

(* decode has a depth limit of its own, 4 * max_depth of the reader.  An   *)
(* enum member is found by its name, its value is not decoded.             *)
Decode(e, codec, limit) ==
    LET f[u \in Trees] == [d \in Nat |->
            IF d >= limit THEN Failure
            ELSE IF u.kind = "enum" THEN Leaf("enum")
            ELSE IF \/ u.kind \in Irreversible
                    \/ \E i \in DOMAIN u.items : f[u.items[i]][d + 1] = Failure THEN Failure
            ELSE IF u.items = <<>> THEN DecodedLeaf(u.kind, codec)
            ELSE [u EXCEPT !.items = [i \in DOMAIN u.items |-> f[u.items[i]][d + 1]]]]
    IN  f[e][0]

(* decode imports the modules of enums and dataclasses.                    *)
Imports(e) ==
    LET f[u \in Trees] ==
            IF \/ u.kind \in Enums \cup {"dataclass", "flagged_dataclass", "unbuildable_class"}
               \/ \E i \in DOMAIN u.items : f[u.items[i]] = "imports"
            THEN "imports" ELSE "none"
    IN  f[e] = "imports"

-----------------------------------------------------------------------------
(* Reference definitions, of values alone.                                 *)

(* v and everything in it, with its depth there.                           *)
Parts(v, depth) ==
    LET f[u \in Trees] == [d \in Nat |->
            {[kind |-> u.kind, width |-> Len(u.items), secret |-> u.secret,
              truncated |-> u.truncated, depth |-> d]}
                \cup UNION {f[u.items[i]][d + 1] : i \in DOMAIN u.items}]
    IN  f[v][depth]

(* A tree of which all parts are such as a call has as its arguments.      *)
PlainPart(p) ==
    /\ p.kind \in PlainLeaves \cup Containers \cup Enums
    /\ p.kind \in PlainLeaves => p.width = 0
    /\ p.secret # {} => p.kind \in Keyed \/ p.depth = 0
    /\ p.kind \in Enums => p.width = 1
    /\ p.secret \subseteq 1..p.width
    /\ ~p.truncated

PlainValue(v) ==
    v \in Trees /\ v.kind \in {"list", "dict"} /\ \A p \in Parts(v, 0) : PlainPart(p)

(* Nothing of v would be hidden, cut or lost in replay.json.               *)
LosslessPart(p, codec) ==
    /\ p.depth < MaxDepth
    /\ p.width <= MaxItems
    /\ p.kind \in Keyed => p.secret = {} \/ (p.kind = "odd_dict" /\ p.secret = {1})
    /\ p.kind \notin {"secret_text", "long_text", "base64_bytes", "wide_bytes", "long_bytes",
                      "cycle", "opaque"}
    /\ p.kind = "custom" => codec \in {"codec_A", "codec_B"}

Lossless(v, codec) == \A p \in Parts(v, 0) : LosslessPart(p, codec)

(* The way to each part of a tree, and the part at its end.                *)
Places(v) ==
    LET f[u \in Trees] ==
            {<<>>} \cup UNION {{<<i>> \o place : place \in f[u.items[i]]} : i \in DOMAIN u.items}
    IN  f[v]

At(v, place) ==
    LET part[n \in 0..Len(place)] == IF n = 0 THEN v ELSE part[n - 1].items[place[n]]
    IN  part[Len(place)]

(* The items of a part that are shown: a mark in a dict takes the place of *)
(* one, unless a lost item leaves it its own.                              *)
Room(part) ==
    CASE part.kind \in Enums -> {}
      [] Overwrites(part) -> 2..MaxItems
      [] part.kind \in Keyed /\ ~Overwrites(part) /\ Len(part.items) > MaxItems -> 1..MaxItems - 1
      [] OTHER -> 1..MaxItems

(* The places of the arguments v that arguments.json may show: nothing on  *)
(* the way has a sensitive name, is too deep, one too many or overwritten. *)
ShownPlaces(v) ==
    {place \in Places(v) :
        /\ Len(place) < MaxDepth
        /\ \A n \in DOMAIN place :
              LET part == At(v, SubSeq(place, 1, n - 1)) IN
              /\ place[n] \notin part.secret
              /\ place[n] \in IF n = 1 THEN 1..MaxItems ELSE Room(part)}

Mentions(v, kind) == \E p \in Parts(v, 0) : p.kind = kind

(* v with the classes that an encoding does not keep replaced by the base  *)
(* classes it does keep; a member of an enum is told by its name.          *)
BaseKind(kind) ==
    CASE kind = "int_subclass" -> "number"
      [] kind = "bytearray" -> "bytes"
      [] kind = "dict_subclass" -> "dict"
      [] OTHER -> kind

Normal(v) ==
    LET f[u \in Trees] ==
            IF u.kind = "enum" THEN Leaf("enum")
            ELSE [u EXCEPT !.kind = BaseKind(u.kind),
                           !.items = [i \in DOMAIN u.items |-> f[u.items[i]]]]
    IN  f[v]
=============================================================================
