----------------------------- MODULE ExceptionTree -----------------------------
(***************************************************************************)
(* What build_exception_info makes of an exception, and what               *)
(* redact_exception_info and encode make of that: trees of ExceptionInfo.  *)
(*                                                                         *)
(* A heap h is the exception objects with their attributes, as the program *)
(* has left them; exceptions refer to each other as it pleases, in cycles  *)
(* too.  A situation s has the limits of a configuration.  The recursive   *)
(* functions are recursive functions of a number or of a tree.             *)
(***************************************************************************)
EXTENDS Integers, Sequences, FiniteSets

CONSTANTS
    Exceptions,
    Root,       \* the exception that is captured
    Nothing,    \* None; as a child, any object that is no exception
    Unreadable, \* an attribute that raises when it is read
    MaxHeight   \* bound on max_exception_depth, which the code does not have

ASSUME ExceptionAssumption ==
    /\ Root \in Exceptions
    /\ {Nothing, Unreadable} \cap Exceptions = {}
    /\ Nothing # Unreadable
    /\ MaxHeight \in Nat

Kinds == {"cause", "context", "child"}
Readings == {"raw", "clean", "limit", "max_depth", "gone"}

(* An ExceptionInfo: the exception it is of, what has become of its text,  *)
(* and its links.  One link is a cause or context, one child of a number.  *)
Link(kind, at, to) == [kind |-> kind, at |-> at, to |-> to]
LinksTo(S) == [kind : Kinds, at : Nat, to : S]

Levels[n \in 0..MaxHeight + 1] ==
    IF n = 0 THEN {}
    ELSE [of : Exceptions, text : Readings, links : SUBSET LinksTo(Levels[n - 1])]

Infos == Levels[MaxHeight + 1]

Node(e, text) == [of |-> e, text |-> text, links |-> {}]

(* The children: those of the first exceptionChildren that are exceptions. *)
ChildrenOf(h, s, e) ==
    LET group == IF h[e].children = Unreadable THEN <<>> ELSE h[e].children
        looked == IF Len(group) > s.exceptionChildren THEN s.exceptionChildren ELSE Len(group)
        kids[i \in 0..looked] ==
            IF i = 0 THEN <<>>
            ELSE IF group[i] = Nothing THEN kids[i - 1] ELSE Append(kids[i - 1], group[i])
    IN  kids[looked]

(* An attribute that cannot be read is None.                               *)
LinksOf(h, s, e) ==
    {Link("cause", 1, c) : c \in {h[e].cause} \cap Exceptions}
    \cup {Link("context", 1, c) : c \in {d \in {h[e].context} \cap Exceptions : ~h[e].suppress}}
    \cup {Link("child", i, ChildrenOf(h, s, e)[i]) : i \in DOMAIN ChildrenOf(h, s, e)}

(* Variant: the cause is remembered where context and children are built,  *)
(* though one exception may be met on several ways.                        *)
BuildSeenOnce(h, s, e) ==
    LET f[left \in 0..s.exceptionDepth] == [x \in Exceptions |-> [seen \in SUBSET Exceptions |->
            IF left = 0 \/ x \in seen THEN Node(x, "limit")
            ELSE [Node(x, "raw") EXCEPT !.links =
                     {[l EXCEPT !.to = f[left - 1][l.to][seen \cup {x} \cup
                          {m.to : m \in {k \in LinksOf(h, s, x) : k.kind = "cause" /\ l.kind # "cause"}}]] :
                         l \in LinksOf(h, s, x)}]]]
    IN  f[s.exceptionDepth][e][{}]

(* build_exception_info: a tree of ExceptionInfo, with a leaf in place of  *)
(* what is too deep or lies on the way to itself.                          *)
Build(h, s, e) ==
    LET f[left \in 0..s.exceptionDepth] == [x \in Exceptions |-> [seen \in SUBSET Exceptions |->
            IF left = 0 \/ x \in seen THEN Node(x, "limit")
            ELSE [Node(x, "raw") EXCEPT !.links =
                     {[l EXCEPT !.to = f[left - 1][l.to][seen \cup {x}]] : l \in LinksOf(h, s, x)}]]]
    IN  f[s.exceptionDepth][e][{}]

(* redact_exception_info.  Each info in the tree is an object of its own,  *)
(* so that it never meets one it has seen.                                 *)
Sanitize(s, info) ==
    LET f[u \in Infos] == [d \in Nat |->
            IF d >= s.exceptionDepth THEN Node(u.of, "max_depth")
            ELSE [of |-> u.of,
                  text |-> IF u.text = "raw" THEN "clean" ELSE u.text,
                  links |-> {[l EXCEPT !.to = f[l.to][d + 1]] :
                      l \in {k \in u.links : k.kind = "child" => k.at <= s.exceptionChildren}}]]
    IN  f[info][0]

-----------------------------------------------------------------------------
(* The place of a field among the fields of its dataclass: encode keeps    *)
(* the first maxItems.                                                     *)
Place == [message |-> 3, cause |-> 5, context |-> 6, child |-> 9,
          exception |-> 5, frames |-> 6, breadcrumbs |-> 10]

Keeps(s, field) == Place[field] <= s.maxItems
KeepsLink(s, l) == Keeps(s, l.kind) /\ l.at <= s.maxItems

(* A child is two levels deeper: the tuple is one.                         *)
Deeper(kind) == IF kind = "child" THEN 2 ELSE 1

(* Variant: every link is one level.                                       *)
EncodeFlat(s, info, depth) ==
    LET f[u \in Infos] == [d \in Nat |->
            IF d >= s.maxDepth THEN Node(u.of, "gone")
            ELSE [of |-> u.of,
                  text |-> IF d + 1 < s.maxDepth /\ Keeps(s, "message") THEN u.text ELSE "gone",
                  links |-> {[l EXCEPT !.to = f[l.to][d + 1]] :
                      l \in {k \in u.links : KeepsLink(s, k)}}]]
    IN  f[info][depth]

(* encode of an ExceptionInfo at some depth of its file.                   *)
Encode(s, info, depth) ==
    LET f[u \in Infos] == [d \in Nat |->
            IF d >= s.maxDepth THEN Node(u.of, "gone")
            ELSE [of |-> u.of,
                  text |-> IF d + 1 < s.maxDepth /\ Keeps(s, "message") THEN u.text ELSE "gone",
                  links |-> {[l EXCEPT !.to = f[l.to][d + Deeper(l.kind)]] :
                      l \in {k \in u.links : KeepsLink(s, k)}}]]
    IN  f[info][depth]

-----------------------------------------------------------------------------
(* What a record should hold, told from the exceptions themselves.         *)

Steps(s) == [kind : Kinds, at : 1..(1 + s.exceptionChildren), to : Exceptions]

LeadsOn(h, s, e, l) ==
    LET x == h[e] IN
    \/ l.kind = "cause" /\ l.at = 1 /\ x.cause = l.to
    \/ l.kind = "context" /\ l.at = 1 /\ x.context = l.to /\ ~x.suppress
    \/ /\ l.kind = "child"
       /\ x.children # Unreadable
       /\ \E i \in DOMAIN x.children :
             /\ i <= s.exceptionChildren
             /\ x.children[i] = l.to
             /\ l.at = Cardinality({j \in 1..i : x.children[j] # Nothing})

(* A way is a sequence of links from the root; it ends at an exception.    *)
End(way) == IF way = <<>> THEN Root ELSE way[Len(way)].to
Straight(way) == Cardinality({Root} \cup {way[i].to : i \in DOMAIN way}) = Len(way) + 1
Full(s, way) == Len(way) < s.exceptionDepth /\ Straight(way)

Ways(h, s) ==
    LET ways[n \in 0..s.exceptionDepth] ==
            IF n = 0 THEN {<<>>}
            ELSE UNION {{Append(way, l) : l \in {m \in Steps(s) : LeadsOn(h, s, End(way), m)}} :
                            way \in {w \in ways[n - 1] : Full(s, w)}}
    IN UNION {ways[n] : n \in 0..s.exceptionDepth}

Reading(s, way) ==
    CASE Full(s, way) -> "clean"
      [] ~Full(s, way) /\ Len(way) = s.exceptionDepth -> "max_depth"
      [] ~Full(s, way) /\ Len(way) # s.exceptionDepth -> "limit"

(* What a tree says at the end of each way.                                *)
Texts(info) ==
    LET f[u \in Infos] == [way \in Seq(LinksTo(Exceptions)) |->
            {<<way, u.text>>} \cup
                UNION {f[l.to][Append(way, Link(l.kind, l.at, l.to.of))] : l \in u.links}]
    IN  f[info][<<>>]

Shown(info) == {t \in Texts(info) : t[2] # "gone"}

(* The level of a file at which a way ends.                                *)
Level(way) == Len(way) + Cardinality({i \in DOMAIN way : way[i].kind = "child"})

Visible(s, way, depth) ==
    /\ depth + Level(way) + 1 < s.maxDepth
    /\ Keeps(s, "message")
    /\ \A i \in DOMAIN way : KeepsLink(s, way[i])
=============================================================================
