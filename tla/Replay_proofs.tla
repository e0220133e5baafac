----------------------------- MODULE Replay_proofs -----------------------------
(***************************************************************************)
(* Proofs about Replay.  First what the functions of ValueTree do to a     *)
(* tree of any size: that _find_replay_issue finds an issue exactly where  *)
(* something was lost, and that decode leads back from what encode wrote.  *)
(* Then that a run stays with the bytes it has verified and with the one   *)
(* capture they come from, whatever the functions compute.  Last, the two  *)
(* taken together.                                                         *)
(***************************************************************************)
EXTENDS Replay, SequenceTheorems, WellFoundedInduction, TLAPS

-----------------------------------------------------------------------------
(* Induction over trees: over the numbers up to MaxHeight, and so over the *)
(* levels of trees.                                                        *)

LEMMA SetInduction ==
    ASSUME NEW T \in SUBSET Nat, 0 \in T, \A n \in T : n + 1 \in T
    PROVE  T = Nat
<1> SUFFICES ASSUME T # Nat PROVE FALSE
  OBVIOUS
<1> DEFINE others == Nat \ T
           less == OpToRel(<, Nat)
<1>1. others # {} /\ others \subseteq Nat
  OBVIOUS
<1>2. PICK least \in others : \A n \in others : <<n, least>> \notin less
  <2>1. IsWellFoundedOn(less, Nat)
    BY NatLessThanWellFounded
  <2> HIDE DEF less, others
  <2> QED BY <1>1, <2>1, WFMin, Zenon
<1>3. least # 0 /\ least - 1 \in others /\ least - 1 < least
  OBVIOUS
<1>4. <<least - 1, least>> \in less
  BY <1>3 DEF OpToRel
<1> QED BY <1>2, <1>3, <1>4

(* What holds of no level, and of a level when it holds of the one below,  *)
(* holds of the last.                                                      *)
LEMMA LevelInduction ==
    ASSUME NEW T, 0 \in T, \A n \in 0..MaxHeight : n + 1 \in 0..MaxHeight /\ n \in T => n + 1 \in T
    PROVE  \A n \in 0..MaxHeight : n \in T
<1> DEFINE U == {n \in Nat : n \in 0..MaxHeight => n \in T}
<1>1. 0 \in U
  OBVIOUS
<1>2. ASSUME NEW n \in U PROVE n + 1 \in U
  <2>1. n + 1 \in 0..MaxHeight => n \in 0..MaxHeight
    BY TreeAssumption
  <2> QED BY <2>1
<1>3. U = Nat
  <2>1. U \in SUBSET Nat
    OBVIOUS
  <2> HIDE DEF U
  <2> QED BY <1>1, <1>2, <2>1, SetInduction
<1> QED BY <1>3

LEMMA LevelsForm ==
    /\ Levels[0] = {}
    /\ \A n \in 0..MaxHeight : n + 1 \in 0..MaxHeight => Levels[n + 1] = Over(Levels[n])
<1> DEFINE Layer(f, n) == IF n = 0 THEN {} ELSE Over(f[n - 1])
           T == {k \in 0..MaxHeight : \E f : f = [n \in 0..k |-> Layer(f, n)]}
<1>1. 0 \in T
  <2>1. \A n \in 0..0 : n = 0
    OBVIOUS
  <2>3. \E f : f = [n \in 0..0 |-> Layer(f, n)]
    <3> WITNESS [m \in 0..0 |-> {}]
    <3> QED BY <2>1
  <2> HIDE DEF Layer
  <2> QED BY <2>3, TreeAssumption
<1>2. ASSUME NEW k \in 0..MaxHeight, k + 1 \in 0..MaxHeight, k \in T PROVE k + 1 \in T
  <2>1. PICK f : f = [n \in 0..k |-> Layer(f, n)]
    BY <1>2
  <2> DEFINE g == [n \in 0..(k + 1) |-> Layer(f, n)]
  <2> HIDE DEF Layer
  <2>2. ASSUME NEW n \in 0..(k + 1) PROVE Layer(f, n) = Layer(g, n)
    <3>1. n # 0 => n - 1 \in 0..k /\ n - 1 \in 0..(k + 1)
      OBVIOUS
    <3>2. n # 0 => f[n - 1] = g[n - 1]
      BY <2>1, <3>1
    <3> HIDE DEF g
    <3> QED BY <3>2 DEF Layer
  <2>3. g = [n \in 0..(k + 1) |-> Layer(g, n)]
    BY <2>2
  <2> HIDE DEF g
  <2> QED BY <1>2, <2>3
<1>3. MaxHeight \in T
  <2> HIDE DEF T
  <2>1. MaxHeight \in 0..MaxHeight
    BY TreeAssumption
  <2> QED BY <1>1, <1>2, <2>1, LevelInduction
<1>4. \E f : f = [n \in 0..MaxHeight |-> Layer(f, n)]
  BY <1>3
<1>5. Levels = [n \in 0..MaxHeight |-> Layer(Levels, n)]
  BY <1>4, Zenon DEF Levels
<1> HIDE DEF Layer
<1>6. \A n \in 0..MaxHeight : Levels[n] = Layer(Levels, n)
  BY <1>5
<1>7. 0 \in 0..MaxHeight /\ \A n \in 0..MaxHeight : (n + 1) - 1 = n /\ n + 1 # 0
  BY TreeAssumption
<1> QED BY <1>6, <1>7 DEF Layer

LEMMA OverForm ==
    ASSUME NEW S, NEW u \in Over(S)
    PROVE  /\ u = [kind |-> u.kind, items |-> u.items, secret |-> u.secret, truncated |-> u.truncated]
           /\ u.kind \in Kinds /\ u.secret \in SUBSET Nat /\ u.truncated \in BOOLEAN
           /\ u.items \in Seq(S) /\ Len(u.items) \in Nat /\ DOMAIN u.items = 1..Len(u.items)
           /\ \A i \in DOMAIN u.items : u.items[i] \in S
           /\ Len(u.items) = 0 <=> u.items = <<>>
<1>1. /\ u = [kind |-> u.kind, items |-> u.items, secret |-> u.secret, truncated |-> u.truncated]
      /\ u.kind \in Kinds /\ u.secret \in SUBSET Nat /\ u.truncated \in BOOLEAN
      /\ u.items \in Seq(S)
  BY DEF Over
<1>2. Len(u.items) \in Nat /\ DOMAIN u.items = 1..Len(u.items)
  BY <1>1, LenProperties
<1>3. \A i \in DOMAIN u.items : u.items[i] \in S
  BY <1>1, <1>2, ElementOfSeq
<1>4. Len(u.items) = 0 <=> u.items = <<>>
  BY <1>1, EmptySeq
<1> QED BY <1>1, <1>2, <1>3, <1>4

LEMMA SeqOf ==
    ASSUME NEW S, NEW n \in Nat, NEW f, f = [i \in 1..n |-> f[i]], \A i \in 1..n : f[i] \in S
    PROVE  f \in Seq(S)
OBVIOUS

LEMMA OverGrows == ASSUME NEW S, NEW R, S \subseteq R PROVE Over(S) \subseteq Over(R)
<1> SUFFICES ASSUME NEW u \in Over(S) PROVE u \in Over(R)
  OBVIOUS
<1>1. u.items \in Seq(R)
  <2>1. u.items = [i \in 1..Len(u.items) |-> u.items[i]] /\ \A i \in 1..Len(u.items) : u.items[i] \in R
    BY OverForm, LenProperties
  <2> DEFINE F(i) == u.items[i]
  <2>2. Len(u.items) \in Nat /\ \A i \in 1..Len(u.items) : u.items[i] \in R
    BY <2>1, OverForm
  <2> QED BY <2>1, <2>2, IsASeq
<1> QED BY <1>1, OverForm DEF Over

LEMMA LevelsGrow ==
    ASSUME NEW n \in 0..MaxHeight, n + 1 \in 0..MaxHeight
    PROVE  Levels[n] \subseteq Levels[n + 1]
<1> DEFINE T == {k \in 0..MaxHeight : k + 1 \in 0..MaxHeight => Levels[k] \subseteq Levels[k + 1]}
<1>1. 0 \in T
  BY LevelsForm, TreeAssumption
<1>2. ASSUME NEW k \in 0..MaxHeight, k + 1 \in 0..MaxHeight, k \in T PROVE k + 1 \in T
  <2>1. ASSUME (k + 1) + 1 \in 0..MaxHeight PROVE Levels[k + 1] \subseteq Levels[(k + 1) + 1]
    <3>1. Levels[k + 1] = Over(Levels[k]) /\ Levels[(k + 1) + 1] = Over(Levels[k + 1])
      BY <1>2, <2>1, LevelsForm
    <3>2. Levels[k] \subseteq Levels[k + 1]
      BY <1>2
    <3> QED BY <3>1, <3>2, OverGrows
  <2> QED BY <1>2, <2>1
<1> HIDE DEF T
<1>3. n \in T
  BY <1>1, <1>2, LevelInduction
<1> QED BY <1>3 DEF T

LEMMA LevelsAreTrees == \A n \in 0..MaxHeight : Levels[n] \subseteq Trees
<1> DEFINE T == {k \in 0..MaxHeight : Levels[MaxHeight - k] \subseteq Trees}
<1>1. 0 \in T
  BY TreeAssumption DEF Trees
<1>2. ASSUME NEW k \in 0..MaxHeight, k + 1 \in 0..MaxHeight, k \in T PROVE k + 1 \in T
  <2> DEFINE n == MaxHeight - (k + 1)
  <2>1. n \in 0..MaxHeight /\ n + 1 \in 0..MaxHeight /\ n + 1 = MaxHeight - k
    BY <1>2, TreeAssumption
  <2>2. Levels[n] \subseteq Levels[n + 1]
    BY <2>1, LevelsGrow
  <2> QED BY <1>2, <2>1, <2>2
<1> SUFFICES ASSUME NEW n \in 0..MaxHeight PROVE Levels[n] \subseteq Trees
  OBVIOUS
<1>3. MaxHeight - n \in T
  <2>1. MaxHeight - n \in 0..MaxHeight
    BY TreeAssumption
  <2> HIDE DEF T
  <2> QED BY <1>1, <1>2, <2>1, LevelInduction
<1>4. MaxHeight - (MaxHeight - n) = n
  BY TreeAssumption
<1> QED BY <1>3, <1>4

LEMMA TreesOver == Trees \subseteq Over(Trees)
<1> SUFFICES ASSUME NEW u \in Trees PROVE u \in Over(Trees)
  OBVIOUS
<1>1. MaxHeight # 0
  BY LevelsForm DEF Trees
<1> DEFINE n == MaxHeight - 1
<1>2. n \in 0..MaxHeight /\ n + 1 = MaxHeight /\ n + 1 \in 0..MaxHeight
  BY <1>1, TreeAssumption
<1>3. Trees = Over(Levels[n])
  BY <1>2, LevelsForm DEF Trees
<1>4. Levels[n] \subseteq Trees
  BY <1>2, LevelsAreTrees
<1> HIDE DEF n
<1> QED BY <1>3, <1>4, OverGrows

(* Trees have parts that are trees.                                        *)
LEMMA TreeForm ==
    ASSUME NEW u \in Trees
    PROVE  /\ u = [kind |-> u.kind, items |-> u.items, secret |-> u.secret, truncated |-> u.truncated]
           /\ u.kind \in Kinds /\ u.secret \in SUBSET Nat /\ u.truncated \in BOOLEAN
           /\ u.items \in Seq(Trees) /\ Len(u.items) \in Nat /\ DOMAIN u.items = 1..Len(u.items)
           /\ \A i \in DOMAIN u.items : u.items[i] \in Trees
           /\ Len(u.items) = 0 <=> u.items = <<>>
<1>1. u \in Over(Trees)
  BY TreesOver
<1> QED BY <1>1, OverForm

(* What holds of a tree when it holds of its items, holds of all trees.    *)
LEMMA TreeInduction ==
    ASSUME NEW T,
           \A u \in Trees : (\A i \in DOMAIN u.items : u.items[i] \in T) => u \in T
    PROVE  Trees \subseteq T
<1> DEFINE U == {n \in 0..MaxHeight : Levels[n] \subseteq T}
<1>1. 0 \in U
  BY LevelsForm, TreeAssumption
<1>2. ASSUME NEW n \in 0..MaxHeight, n + 1 \in 0..MaxHeight, n \in U PROVE n + 1 \in U
  <2>1. SUFFICES ASSUME NEW u \in Levels[n + 1] PROVE u \in T
    BY <1>2
  <2>2. u \in Over(Levels[n]) /\ u \in Trees
    BY <1>2, LevelsForm, LevelsAreTrees
  <2>3. \A i \in DOMAIN u.items : u.items[i] \in Levels[n]
    BY <2>2, OverForm
  <2> QED BY <1>2, <2>2, <2>3
<1>3. MaxHeight \in U
  <2>1. MaxHeight \in 0..MaxHeight
    BY TreeAssumption
  <2> HIDE DEF U
  <2> QED BY <1>1, <1>2, <2>1, LevelInduction
<1> QED BY <1>3 DEF Trees
-----------------------------------------------------------------------------
(* The recursive functions of ValueTree, one step of each.                 *)

RedactedBy(f, u) ==
    IF u.kind = "secret_text" THEN Leaf("redacted")
    ELSE [u EXCEPT !.kind = RedactedKind(u.kind),
                   !.items = [i \in DOMAIN u.items |->
             IF i \in Named(u) THEN Leaf("redacted") ELSE f[u.items[i]]]]

EncodedBy(f, u, c) ==
    [d \in Nat |->
        IF d >= MaxDepth THEN Leaf("max_depth")
        ELSE IF u.items = <<>> THEN EncodedLeaf(EncodedKind(u.kind), c)
        ELSE [kind |-> EncodedKind(u.kind),
              items |-> [i \in 1..Kept(u.items) |-> f[u.items[i]][d + 1]],
              secret |-> u.secret \cap 1..Kept(u.items),
              truncated |-> Len(u.items) > MaxItems]]

SuspectBy(f, u) ==
    IF \/ u.kind \in Suspicious
       \/ u.truncated
       \/ \E i \in DOMAIN u.items : f[u.items[i]] = "issue"
    THEN "issue" ELSE "none"

DecodedBy(f, u, c, limit) ==
    [d \in Nat |->
        IF d >= limit THEN Failure
        ELSE IF u.kind = "enum" THEN Leaf("enum")
        ELSE IF \/ u.kind \in Irreversible
                \/ \E i \in DOMAIN u.items : f[u.items[i]][d + 1] = Failure THEN Failure
        ELSE IF u.items = <<>> THEN DecodedLeaf(u.kind, c)
        ELSE [u EXCEPT !.items = [i \in DOMAIN u.items |-> f[u.items[i]][d + 1]]]]

PartsBy(f, u) ==
    [d \in Nat |->
        {[kind |-> u.kind, width |-> Len(u.items), secret |-> u.secret,
          truncated |-> u.truncated, depth |-> d]}
            \cup UNION {f[u.items[i]][d + 1] : i \in DOMAIN u.items}]

NormalBy(f, u) ==
    IF u.kind = "enum" THEN Leaf("enum")
    ELSE [u EXCEPT !.kind = BaseKind(u.kind),
                   !.items = [i \in DOMAIN u.items |-> f[u.items[i]]]]

PlainBy(f, u) ==
    [d \in Nat |->
        IF d >= MaxDepth THEN Leaf("max_depth_text")
        ELSE IF u.items = <<>> \/ u.kind \in Enums THEN Leaf(PlainKind(u.kind))
        ELSE Tree(PlainKind(u.kind),
                  MarkedIf(Len(u.items) > MaxItems, u,
                      [i \in 1..Kept(u.items) |->
                           IF i = 1 /\ Overwrites(u) THEN Leaf("overwritten")
                           ELSE IF i \in u.secret THEN Leaf("redacted")
                           ELSE f[u.items[i]][d + 1]]))]

Below(i, places) == {<<i>> \o place : place \in places}
PlacesBy(f, u) == {<<>>} \cup UNION {Below(i, f[u.items[i]]) : i \in DOMAIN u.items}

(* A function that takes the step on one level, taken one step further, is *)
(* the same on the items of the next.                                      *)
LEMMA ItemsBelow ==
    ASSUME NEW n \in 0..MaxHeight, n + 1 \in 0..MaxHeight, NEW u \in Levels[n + 1]
    PROVE  /\ \A i \in DOMAIN u.items : u.items[i] \in Levels[n] /\ u.items[i] \in Levels[n + 1]
           /\ 1..Kept(u.items) \subseteq DOMAIN u.items
<1>1. u \in Over(Levels[n])
  BY LevelsForm
<1>2. Len(u.items) \in Nat /\ DOMAIN u.items = 1..Len(u.items)
  BY <1>1, OverForm
<1>3. \A i \in DOMAIN u.items : u.items[i] \in Levels[n]
  BY <1>1, OverForm
<1>4. 1..Kept(u.items) \subseteq DOMAIN u.items
  BY <1>2, TreeAssumption DEF Kept
<1> QED BY <1>3, <1>4, LevelsGrow

LEMMA RedactExtends ==
    ASSUME NEW n \in 0..MaxHeight, n + 1 \in 0..MaxHeight,
           NEW f, f = [u \in Levels[n] |-> RedactedBy(f, u)]
    PROVE  \E g : g = [u \in Levels[n + 1] |-> RedactedBy(g, u)]
<1> DEFINE g == [u \in Levels[n + 1] |-> RedactedBy(f, u)]
<1>1. \A e \in Levels[n + 1] : e \in Levels[n] => f[e] = g[e]
  OBVIOUS
<1> HIDE DEF g
<1>2. ASSUME NEW u \in Levels[n + 1] PROVE RedactedBy(f, u) = RedactedBy(g, u)
  <2>1. \A i \in DOMAIN u.items : f[u.items[i]] = g[u.items[i]]
    BY <1>1, ItemsBelow
  <2> QED BY <2>1 DEF RedactedBy
<1>3. g = [u \in Levels[n + 1] |-> RedactedBy(g, u)]
  BY <1>2 DEF g
<1> QED BY <1>3

LEMMA EncodeExtends ==
    ASSUME NEW c, NEW n \in 0..MaxHeight, n + 1 \in 0..MaxHeight,
           NEW f, f = [u \in Levels[n] |-> EncodedBy(f, u, c)]
    PROVE  \E g : g = [u \in Levels[n + 1] |-> EncodedBy(g, u, c)]
<1> DEFINE g == [u \in Levels[n + 1] |-> EncodedBy(f, u, c)]
<1>1. \A e \in Levels[n + 1] : e \in Levels[n] => f[e] = g[e]
  OBVIOUS
<1> HIDE DEF g
<1>2. ASSUME NEW u \in Levels[n + 1] PROVE EncodedBy(f, u, c) = EncodedBy(g, u, c)
  <2>1. \A i \in 1..Kept(u.items) : f[u.items[i]] = g[u.items[i]]
    BY <1>1, ItemsBelow
  <2> QED BY <2>1 DEF EncodedBy
<1>3. g = [u \in Levels[n + 1] |-> EncodedBy(g, u, c)]
  BY <1>2 DEF g
<1> QED BY <1>3

LEMMA SuspectExtends ==
    ASSUME NEW n \in 0..MaxHeight, n + 1 \in 0..MaxHeight,
           NEW f, f = [u \in Levels[n] |-> SuspectBy(f, u)]
    PROVE  \E g : g = [u \in Levels[n + 1] |-> SuspectBy(g, u)]
<1> DEFINE g == [u \in Levels[n + 1] |-> SuspectBy(f, u)]
<1>1. \A e \in Levels[n + 1] : e \in Levels[n] => f[e] = g[e]
  OBVIOUS
<1> HIDE DEF g
<1>2. ASSUME NEW u \in Levels[n + 1] PROVE SuspectBy(f, u) = SuspectBy(g, u)
  <2>1. \A i \in DOMAIN u.items : f[u.items[i]] = g[u.items[i]]
    BY <1>1, ItemsBelow
  <2> QED BY <2>1 DEF SuspectBy
<1>3. g = [u \in Levels[n + 1] |-> SuspectBy(g, u)]
  BY <1>2 DEF g
<1> QED BY <1>3

LEMMA DecodeExtends ==
    ASSUME NEW c, NEW limit, NEW n \in 0..MaxHeight, n + 1 \in 0..MaxHeight,
           NEW f, f = [u \in Levels[n] |-> DecodedBy(f, u, c, limit)]
    PROVE  \E g : g = [u \in Levels[n + 1] |-> DecodedBy(g, u, c, limit)]
<1> DEFINE g == [u \in Levels[n + 1] |-> DecodedBy(f, u, c, limit)]
<1>1. \A e \in Levels[n + 1] : e \in Levels[n] => f[e] = g[e]
  OBVIOUS
<1> HIDE DEF g
<1>2. ASSUME NEW u \in Levels[n + 1] PROVE DecodedBy(f, u, c, limit) = DecodedBy(g, u, c, limit)
  <2>1. \A i \in DOMAIN u.items : f[u.items[i]] = g[u.items[i]]
    BY <1>1, ItemsBelow
  <2>2. \A d : [i \in DOMAIN u.items |-> f[u.items[i]][d + 1]]
             = [i \in DOMAIN u.items |-> g[u.items[i]][d + 1]]
    BY <2>1
  <2>3. \A d : (\E i \in DOMAIN u.items : f[u.items[i]][d + 1] = Failure)
             <=> (\E i \in DOMAIN u.items : g[u.items[i]][d + 1] = Failure)
    BY <2>1
  <2> QED BY <2>2, <2>3 DEF DecodedBy
<1>3. g = [u \in Levels[n + 1] |-> DecodedBy(g, u, c, limit)]
  BY <1>2 DEF g
<1> QED BY <1>3

LEMMA PartsExtends ==
    ASSUME NEW n \in 0..MaxHeight, n + 1 \in 0..MaxHeight,
           NEW f, f = [u \in Levels[n] |-> PartsBy(f, u)]
    PROVE  \E g : g = [u \in Levels[n + 1] |-> PartsBy(g, u)]
<1> DEFINE g == [u \in Levels[n + 1] |-> PartsBy(f, u)]
<1>1. \A e \in Levels[n + 1] : e \in Levels[n] => f[e] = g[e]
  OBVIOUS
<1> HIDE DEF g
<1>2. ASSUME NEW u \in Levels[n + 1] PROVE PartsBy(f, u) = PartsBy(g, u)
  <2>1. \A i \in DOMAIN u.items : f[u.items[i]] = g[u.items[i]]
    BY <1>1, ItemsBelow
  <2>2. \A d : {f[u.items[i]][d + 1] : i \in DOMAIN u.items}
               = {g[u.items[i]][d + 1] : i \in DOMAIN u.items}
    BY <2>1
  <2> QED BY <2>2 DEF PartsBy
<1>3. g = [u \in Levels[n + 1] |-> PartsBy(g, u)]
  BY <1>2 DEF g
<1> QED BY <1>3

LEMMA NormalExtends ==
    ASSUME NEW n \in 0..MaxHeight, n + 1 \in 0..MaxHeight,
           NEW f, f = [u \in Levels[n] |-> NormalBy(f, u)]
    PROVE  \E g : g = [u \in Levels[n + 1] |-> NormalBy(g, u)]
<1> DEFINE g == [u \in Levels[n + 1] |-> NormalBy(f, u)]
<1>1. \A e \in Levels[n + 1] : e \in Levels[n] => f[e] = g[e]
  OBVIOUS
<1> HIDE DEF g
<1>2. ASSUME NEW u \in Levels[n + 1] PROVE NormalBy(f, u) = NormalBy(g, u)
  <2>1. \A i \in DOMAIN u.items : f[u.items[i]] = g[u.items[i]]
    BY <1>1, ItemsBelow
  <2> QED BY <2>1 DEF NormalBy
<1>3. g = [u \in Levels[n + 1] |-> NormalBy(g, u)]
  BY <1>2 DEF g
<1> QED BY <1>3

LEMMA PlainExtends ==
    ASSUME NEW n \in 0..MaxHeight, n + 1 \in 0..MaxHeight,
           NEW f, f = [u \in Levels[n] |-> PlainBy(f, u)]
    PROVE  \E g : g = [u \in Levels[n + 1] |-> PlainBy(g, u)]
<1> DEFINE g == [u \in Levels[n + 1] |-> PlainBy(f, u)]
<1>1. \A e \in Levels[n + 1] : e \in Levels[n] => f[e] = g[e]
  OBVIOUS
<1> HIDE DEF g
<1>2. ASSUME NEW u \in Levels[n + 1] PROVE PlainBy(f, u) = PlainBy(g, u)
  <2>1. \A i \in 1..Kept(u.items) : f[u.items[i]] = g[u.items[i]]
    BY <1>1, ItemsBelow
  <2>2. \A d : [i \in 1..Kept(u.items) |->
                   IF i = 1 /\ Overwrites(u) THEN Leaf("overwritten")
                   ELSE IF i \in u.secret THEN Leaf("redacted") ELSE f[u.items[i]][d + 1]]
             = [i \in 1..Kept(u.items) |->
                   IF i = 1 /\ Overwrites(u) THEN Leaf("overwritten")
                   ELSE IF i \in u.secret THEN Leaf("redacted") ELSE g[u.items[i]][d + 1]]
    BY <2>1
  <2> QED BY <2>2 DEF PlainBy
<1>3. g = [u \in Levels[n + 1] |-> PlainBy(g, u)]
  BY <1>2 DEF g
<1> QED BY <1>3

LEMMA PlacesExtends ==
    ASSUME NEW n \in 0..MaxHeight, n + 1 \in 0..MaxHeight,
           NEW f, f = [u \in Levels[n] |-> PlacesBy(f, u)]
    PROVE  \E g : g = [u \in Levels[n + 1] |-> PlacesBy(g, u)]
<1> DEFINE g == [u \in Levels[n + 1] |-> PlacesBy(f, u)]
<1>1. \A e \in Levels[n + 1] : e \in Levels[n] => f[e] = g[e]
  OBVIOUS
<1> HIDE DEF g
<1>2. ASSUME NEW u \in Levels[n + 1] PROVE PlacesBy(f, u) = PlacesBy(g, u)
  <2>1. \A i \in DOMAIN u.items : f[u.items[i]] = g[u.items[i]]
    BY <1>1, ItemsBelow
  <2>2. {Below(i, f[u.items[i]]) : i \in DOMAIN u.items} = {Below(i, g[u.items[i]]) : i \in DOMAIN u.items}
    BY <2>1
  <2> QED BY <2>2 DEF PlacesBy
<1>3. g = [u \in Levels[n + 1] |-> PlacesBy(g, u)]
  BY <1>2 DEF g
<1> QED BY <1>3

(* There are such functions on all trees.                                  *)
LEMMA RecursionsExist ==
    ASSUME NEW c, NEW limit
    PROVE  /\ \E f : f = [u \in Trees |-> RedactedBy(f, u)]
           /\ \E f : f = [u \in Trees |-> EncodedBy(f, u, c)]
           /\ \E f : f = [u \in Trees |-> SuspectBy(f, u)]
           /\ \E f : f = [u \in Trees |-> DecodedBy(f, u, c, limit)]
           /\ \E f : f = [u \in Trees |-> PartsBy(f, u)]
           /\ \E f : f = [u \in Trees |-> NormalBy(f, u)]
           /\ \E f : f = [u \in Trees |-> PlainBy(f, u)]
           /\ \E f : f = [u \in Trees |-> PlacesBy(f, u)]
<1> DEFINE Exist(S) ==
             /\ \E f : f = [u \in S |-> RedactedBy(f, u)]
             /\ \E f : f = [u \in S |-> EncodedBy(f, u, c)]
             /\ \E f : f = [u \in S |-> SuspectBy(f, u)]
             /\ \E f : f = [u \in S |-> DecodedBy(f, u, c, limit)]
             /\ \E f : f = [u \in S |-> PartsBy(f, u)]
             /\ \E f : f = [u \in S |-> NormalBy(f, u)]
             /\ \E f : f = [u \in S |-> PlainBy(f, u)]
             /\ \E f : f = [u \in S |-> PlacesBy(f, u)]
           T == {n \in 0..MaxHeight : Exist(Levels[n])}
<1>1. 0 \in T
  <2>1. Exist({})
    OBVIOUS
  <2>2. Levels[0] = {} /\ 0 \in 0..MaxHeight
    BY LevelsForm, TreeAssumption
  <2> HIDE DEF Exist
  <2>3. Exist(Levels[0])
    BY <2>1, <2>2, Zenon
  <2> QED BY <2>2, <2>3
<1>2. ASSUME NEW n \in 0..MaxHeight, n + 1 \in 0..MaxHeight, n \in T PROVE n + 1 \in T
  <2>1. Exist(Levels[n]) /\ n + 1 \in 0..MaxHeight
    BY <1>2
  <2>2. \E f : f = [u \in Levels[n + 1] |-> RedactedBy(f, u)]
    <3>1. PICK f : f = [u \in Levels[n] |-> RedactedBy(f, u)]
      BY <2>1, Zenon
    <3> HIDE DEF Exist, T
    <3> QED BY <2>1, <3>1, RedactExtends
  <2>3. \E f : f = [u \in Levels[n + 1] |-> EncodedBy(f, u, c)]
    <3>1. PICK f : f = [u \in Levels[n] |-> EncodedBy(f, u, c)]
      BY <2>1, Zenon
    <3> HIDE DEF Exist, T
    <3> QED BY <2>1, <3>1, EncodeExtends
  <2>4. \E f : f = [u \in Levels[n + 1] |-> SuspectBy(f, u)]
    <3>1. PICK f : f = [u \in Levels[n] |-> SuspectBy(f, u)]
      BY <2>1, Zenon
    <3> HIDE DEF Exist, T
    <3> QED BY <2>1, <3>1, SuspectExtends
  <2>5. \E f : f = [u \in Levels[n + 1] |-> DecodedBy(f, u, c, limit)]
    <3>1. PICK f : f = [u \in Levels[n] |-> DecodedBy(f, u, c, limit)]
      BY <2>1, Zenon
    <3> HIDE DEF Exist, T
    <3> QED BY <2>1, <3>1, DecodeExtends
  <2>6. \E f : f = [u \in Levels[n + 1] |-> PartsBy(f, u)]
    <3>1. PICK f : f = [u \in Levels[n] |-> PartsBy(f, u)]
      BY <2>1, Zenon
    <3> HIDE DEF Exist, T
    <3> QED BY <2>1, <3>1, PartsExtends
  <2>7. \E f : f = [u \in Levels[n + 1] |-> NormalBy(f, u)]
    <3>1. PICK f : f = [u \in Levels[n] |-> NormalBy(f, u)]
      BY <2>1, Zenon
    <3> HIDE DEF Exist, T
    <3> QED BY <2>1, <3>1, NormalExtends
  <2>8. \E f : f = [u \in Levels[n + 1] |-> PlainBy(f, u)]
    <3>1. PICK f : f = [u \in Levels[n] |-> PlainBy(f, u)]
      BY <2>1, Zenon
    <3> HIDE DEF Exist, T
    <3> QED BY <2>1, <3>1, PlainExtends
  <2>9. \E f : f = [u \in Levels[n + 1] |-> PlacesBy(f, u)]
    <3>1. PICK f : f = [u \in Levels[n] |-> PlacesBy(f, u)]
      BY <2>1, Zenon
    <3> HIDE DEF Exist, T
    <3> QED BY <2>1, <3>1, PlacesExtends
  <2>10. Exist(Levels[n + 1])
    BY <2>2, <2>3, <2>4, <2>5, <2>6, <2>7, <2>8, <2>9, Zenon
  <2> HIDE DEF Exist
  <2> QED BY <1>2, <2>10
<1>3. MaxHeight \in T
  <2>1. MaxHeight \in 0..MaxHeight
    BY TreeAssumption
  <2> HIDE DEF T
  <2> QED BY <1>1, <1>2, <2>1, LevelInduction
<1> QED BY <1>3 DEF Trees

LEMMA RedactRec ==
    ASSUME NEW u \in Trees
    PROVE  Redact(u, FALSE) =
               IF u.kind = "secret_text" THEN Leaf("redacted")
               ELSE [u EXCEPT !.kind = RedactedKind(u.kind),
                              !.items = [i \in DOMAIN u.items |->
                        IF i \in Named(u) THEN Leaf("redacted") ELSE Redact(u.items[i], FALSE)]]
<1> DEFINE f == CHOOSE f : f = [w \in Trees |-> RedactedBy(f, w)]
<1>1. f = [w \in Trees |-> RedactedBy(f, w)]
  BY RecursionsExist
<1>2. \A e : Redact(e, FALSE) = f[e]
  BY DEF Redact, RedactedBy
<1> HIDE DEF f
<1>3. f[u] = RedactedBy(f, u)
  BY <1>1, Zenon
<1> QED BY <1>2, <1>3 DEF RedactedBy

LEMMA EncodeRec ==
    ASSUME NEW c, NEW u \in Trees, NEW d \in Nat
    PROVE  Encode(u, d, c) =
               IF d >= MaxDepth THEN Leaf("max_depth")
               ELSE IF u.items = <<>> THEN EncodedLeaf(EncodedKind(u.kind), c)
               ELSE [kind |-> EncodedKind(u.kind),
                     items |-> [i \in 1..Kept(u.items) |-> Encode(u.items[i], d + 1, c)],
                     secret |-> u.secret \cap 1..Kept(u.items),
                     truncated |-> Len(u.items) > MaxItems]
<1> DEFINE f == CHOOSE f : f = [w \in Trees |-> EncodedBy(f, w, c)]
<1>1. f = [w \in Trees |-> EncodedBy(f, w, c)]
  BY RecursionsExist
<1>2. \A e, k : Encode(e, k, c) = f[e][k]
  BY DEF Encode, EncodedBy
<1> HIDE DEF f
<1>3. f[u] = EncodedBy(f, u, c)
  BY <1>1, Zenon
<1> QED BY <1>2, <1>3 DEF EncodedBy

(* What _find_replay_issue finds but for its safety depth.                 *)
Suspicions == CHOOSE f : f = [u \in Trees |-> SuspectBy(f, u)]
Suspect(e) == Suspicions[e] = "issue"

LEMMA IssueIs == \A e : HasReplayIssue(e) <=> Suspect(e) \/ JsonTooDeep(e)
BY DEF HasReplayIssue, Suspect, Suspicions, SuspectBy

LEMMA SuspectRec ==
    ASSUME NEW u \in Trees
    PROVE  Suspect(u) <=>
               \/ u.kind \in Suspicious
               \/ u.truncated
               \/ \E i \in DOMAIN u.items : Suspect(u.items[i])
<1>1. Suspicions = [w \in Trees |-> SuspectBy(Suspicions, w)]
  BY RecursionsExist DEF Suspicions
<1> HIDE DEF Suspicions
<1>2. Suspicions[u] = SuspectBy(Suspicions, u)
  BY <1>1, Zenon
<1> QED BY <1>2 DEF SuspectBy, Suspect

(* decode at a depth.                                                      *)
Decodings(c, limit) == CHOOSE f : f = [u \in Trees |-> DecodedBy(f, u, c, limit)]
DecodeAt(u, d, c, limit) == Decodings(c, limit)[u][d]

LEMMA DecodeIs == \A u, c, limit : Decode(u, c, limit) = DecodeAt(u, 0, c, limit)
BY DEF Decode, DecodeAt, Decodings, DecodedBy

AnyFails(u, d, c, limit) == \E i \in DOMAIN u.items : DecodeAt(u.items[i], d, c, limit) = Failure
DecodedItems(u, d, c, limit) ==
    [u EXCEPT !.items = [i \in DOMAIN u.items |-> DecodeAt(u.items[i], d, c, limit)]]

LEMMA DecodeRec ==
    ASSUME NEW c, NEW limit, NEW u \in Trees, NEW d \in Nat
    PROVE  DecodeAt(u, d, c, limit) =
               IF d >= limit THEN Failure
               ELSE IF u.kind = "enum" THEN Leaf("enum")
               ELSE IF u.kind \in Irreversible \/ AnyFails(u, d + 1, c, limit) THEN Failure
               ELSE IF u.items = <<>> THEN DecodedLeaf(u.kind, c)
               ELSE DecodedItems(u, d + 1, c, limit)
<1> DEFINE f == Decodings(c, limit)
<1>1. f = [w \in Trees |-> DecodedBy(f, w, c, limit)]
  BY RecursionsExist DEF Decodings
<1>2. \A e, k : DecodeAt(e, k, c, limit) = f[e][k]
  BY DEF DecodeAt
<1> HIDE DEF f
<1>3. f[u] = DecodedBy(f, u, c, limit)
  BY <1>1, Zenon
<1> QED BY <1>2, <1>3 DEF DecodedBy, AnyFails, DecodedItems

LEMMA PartsRec ==
    ASSUME NEW u \in Trees, NEW d \in Nat
    PROVE  \A p : p \in Parts(u, d) <=>
               \/ p = [kind |-> u.kind, width |-> Len(u.items), secret |-> u.secret,
                       truncated |-> u.truncated, depth |-> d]
               \/ \E i \in DOMAIN u.items : p \in Parts(u.items[i], d + 1)
<1> DEFINE f == CHOOSE f : f = [w \in Trees |-> PartsBy(f, w)]
<1>1. f = [w \in Trees |-> PartsBy(f, w)]
  BY RecursionsExist
<1>2. \A e, k : Parts(e, k) = f[e][k]
  BY DEF Parts, PartsBy
<1> HIDE DEF f
<1>3. f[u] = PartsBy(f, u)
  BY <1>1, Zenon
<1>4. Parts(u, d) = {[kind |-> u.kind, width |-> Len(u.items), secret |-> u.secret,
                      truncated |-> u.truncated, depth |-> d]}
                        \cup UNION {f[u.items[i]][d + 1] : i \in DOMAIN u.items}
  BY <1>2, <1>3 DEF PartsBy
<1>5. \A i : f[u.items[i]][d + 1] = Parts(u.items[i], d + 1)
  BY <1>2
<1> QED BY <1>4, <1>5

LEMMA NormalRec ==
    ASSUME NEW u \in Trees
    PROVE  Normal(u) =
               IF u.kind = "enum" THEN Leaf("enum")
               ELSE [u EXCEPT !.kind = BaseKind(u.kind),
                              !.items = [i \in DOMAIN u.items |-> Normal(u.items[i])]]
<1> DEFINE f == CHOOSE f : f = [w \in Trees |-> NormalBy(f, w)]
<1>1. f = [w \in Trees |-> NormalBy(f, w)]
  BY RecursionsExist
<1>2. \A e : Normal(e) = f[e]
  BY DEF Normal, NormalBy
<1> HIDE DEF f
<1>3. f[u] = NormalBy(f, u)
  BY <1>1, Zenon
<1> QED BY <1>2, <1>3 DEF NormalBy

(* The i-th item of what redact makes of u.                                *)
PlainItem(u, d, i) ==
    IF i = 1 /\ Overwrites(u) THEN Leaf("overwritten")
    ELSE RedactPlain(u.items[i], d + 1, i \in u.secret)

LEMMA PlainRec ==
    ASSUME NEW u \in Trees, NEW d \in Nat
    PROVE  RedactPlain(u, d, FALSE) =
               IF d >= MaxDepth THEN Leaf("max_depth_text")
               ELSE IF u.items = <<>> \/ u.kind \in Enums THEN Leaf(PlainKind(u.kind))
               ELSE Tree(PlainKind(u.kind),
                         MarkedIf(Len(u.items) > MaxItems, u,
                             [i \in 1..Kept(u.items) |-> PlainItem(u, d, i)]))
<1> DEFINE f == CHOOSE f : f = [w \in Trees |-> PlainBy(f, w)]
<1>1. f = [w \in Trees |-> PlainBy(f, w)]
  BY RecursionsExist
<1>2. \A e, k, s : RedactPlain(e, k, s) = IF s THEN Leaf("redacted") ELSE f[e][k]
  BY DEF RedactPlain, PlainBy
<1> HIDE DEF f
<1>3. f[u] = PlainBy(f, u)
  BY <1>1, Zenon
<1>4. [i \in 1..Kept(u.items) |-> PlainItem(u, d, i)]
          = [i \in 1..Kept(u.items) |->
                IF i = 1 /\ Overwrites(u) THEN Leaf("overwritten")
                ELSE IF i \in u.secret THEN Leaf("redacted") ELSE f[u.items[i]][d + 1]]
  BY <1>2 DEF PlainItem
<1>5. RedactPlain(u, d, FALSE) = f[u][d]
  BY <1>2
<1> QED BY <1>3, <1>4, <1>5 DEF PlainBy

LEMMA PlainSecret == \A u, d : RedactPlain(u, d, TRUE) = Leaf("redacted")
BY DEF RedactPlain

LEMMA PlacesRec ==
    ASSUME NEW u \in Trees
    PROVE  \A q : q \in Places(u) <=>
               \/ q = <<>>
               \/ \E i \in DOMAIN u.items : \E p \in Places(u.items[i]) : q = <<i>> \o p
<1> DEFINE f == CHOOSE f : f = [w \in Trees |-> PlacesBy(f, w)]
<1>1. f = [w \in Trees |-> PlacesBy(f, w)]
  BY RecursionsExist
<1>2. \A e : Places(e) = f[e]
  BY DEF Places, PlacesBy, Below
<1> HIDE DEF f
<1>3. f[u] = PlacesBy(f, u)
  BY <1>1, Zenon
<1>4. Places(u) = {<<>>} \cup UNION {Below(i, Places(u.items[i])) : i \in DOMAIN u.items}
  <2>1. {Below(i, f[u.items[i]]) : i \in DOMAIN u.items} = {Below(i, Places(u.items[i])) : i \in DOMAIN u.items}
    BY <1>2
  <2> QED BY <1>2, <1>3, <2>1 DEF PlacesBy
<1>5. \A q : q \in Places(u) <=> q = <<>> \/ \E i \in DOMAIN u.items : q \in Below(i, Places(u.items[i]))
  BY <1>4
<1>6. \A q, i, places : q \in Below(i, places) <=> \E p \in places : q = <<i>> \o p
  BY DEF Below
<1>7. ASSUME NEW q
      PROVE  (\E i \in DOMAIN u.items : q \in Below(i, Places(u.items[i])))
                 <=> \E i \in DOMAIN u.items : \E p \in Places(u.items[i]) : q = <<i>> \o p
  <2>1. \A i : q \in Below(i, Places(u.items[i])) <=> \E p \in Places(u.items[i]) : q = <<i>> \o p
    BY <1>6
  <2> QED BY <2>1, Zenon
<1> QED BY <1>5, <1>7, Zenon
-----------------------------------------------------------------------------
(* What is written of a value: its form, and that it is no higher.         *)

LEMMA KindNames ==
    /\ "redacted" \in Kinds /\ "max_depth" \in Kinds /\ "dict" \in Kinds
    /\ Unsafe \subseteq Kinds
    /\ {"number", "bytes", "base64_bytes", "codec_A", "codec_B"} \subseteq Kinds
    /\ {"redacted", "max_depth"} \subseteq Unsafe
BY DEF Kinds, Unsafe, PlainLeaves, Bytes, Containers, Keyed

LEMMA LeafOver ==
    ASSUME NEW S, NEW kind \in Kinds
    PROVE  /\ Leaf(kind) \in Over(S)
           /\ Leaf(kind).kind = kind /\ Leaf(kind).items = <<>> /\ Leaf(kind).secret = {}
           /\ Leaf(kind).truncated = FALSE /\ DOMAIN Leaf(kind).items = {}
<1>1. <<>> \in Seq(S) /\ DOMAIN <<>> = {}
  BY EmptySeq
<1> QED BY <1>1 DEF Leaf, Tree, Over

LEMMA LeafLevel ==
    ASSUME NEW n \in 0..MaxHeight, NEW u \in Levels[n], NEW kind \in Kinds
    PROVE  Leaf(kind) \in Levels[n]
<1>1. n # 0
  BY LevelsForm
<1> DEFINE below == n - 1
<1>2. below \in 0..MaxHeight /\ below + 1 = n
  BY <1>1, TreeAssumption
<1> HIDE DEF below
<1>3. Levels[n] = Over(Levels[below])
  BY <1>2, LevelsForm
<1>4. Leaf(kind) \in Over(Levels[below])
  BY LeafOver
<1> QED BY <1>3, <1>4

LEMMA TreesAreOver == ASSUME NEW u \in Trees PROVE \E S : Trees = Over(S)
<1>1. MaxHeight # 0
  BY LevelsForm DEF Trees
<1> DEFINE n == MaxHeight - 1
<1>2. n \in 0..MaxHeight /\ n + 1 = MaxHeight /\ n + 1 \in 0..MaxHeight
  BY <1>1, TreeAssumption
<1> QED BY <1>2, LevelsForm DEF Trees

LEMMA EncodedNames ==
    ASSUME NEW kind \in Kinds, NEW c
    PROVE  EncodedName(kind, c) \in Kinds
BY KindNames DEF EncodedName, Unsafe, TreeCodecs

LEMMA EncodedLeafOver ==
    ASSUME NEW S, NEW kind \in Kinds, NEW c
    PROVE  /\ EncodedLeaf(kind, c) \in Over(S)
           /\ EncodedLeaf(kind, c).kind = EncodedName(kind, c)
           /\ EncodedLeaf(kind, c).items = <<>>
           /\ EncodedLeaf(kind, c).secret = {}
           /\ EncodedLeaf(kind, c).truncated <=> kind \in {"wide_bytes", "long_bytes"}
<1> DEFINE e == Leaf(EncodedName(kind, c))
           truncated == (kind \in {"wide_bytes", "long_bytes"})
<1>1. e \in Over(S) /\ e.kind = EncodedName(kind, c) /\ e.items = <<>> /\ e.secret = {}
  BY EncodedNames, LeafOver
<1>2. truncated \in BOOLEAN
  OBVIOUS
<1>3. EncodedLeaf(kind, c) = [e EXCEPT !.truncated = truncated]
  BY DEF EncodedLeaf
<1> HIDE DEF e, truncated
<1>4. [e EXCEPT !.truncated = truncated] \in Over(S)
  BY <1>1, <1>2 DEF Over
<1>5. LET t == [e EXCEPT !.truncated = truncated] IN
      t.kind = e.kind /\ t.items = e.items /\ t.secret = e.secret /\ t.truncated = truncated
  BY <1>1 DEF Over
<1> QED BY <1>1, <1>3, <1>4, <1>5 DEF truncated

LEMMA EncodeLevel ==
    ASSUME NEW c, NEW n \in 0..MaxHeight, NEW u \in Levels[n], NEW d \in Nat
    PROVE  Encode(u, d, c) \in Levels[n]
<1> DEFINE T == {k \in 0..MaxHeight : \A w \in Levels[k], m \in Nat : Encode(w, m, c) \in Levels[k]}
<1>1. 0 \in T
  <2>1. \A w, m : w \in Levels[0] => Encode(w, m, c) \in Levels[0]
    BY LevelsForm
  <2>2. 0 \in 0..MaxHeight
    BY TreeAssumption
  <2> QED BY <2>1, <2>2
<1>2. ASSUME NEW k \in 0..MaxHeight, k + 1 \in 0..MaxHeight, k \in T PROVE k + 1 \in T
  <2>1. SUFFICES ASSUME NEW w \in Levels[k + 1], NEW m \in Nat
                 PROVE  Encode(w, m, c) \in Over(Levels[k])
    BY <1>2, LevelsForm
  <2>2. w \in Over(Levels[k]) /\ w \in Trees
    BY <1>2, LevelsForm, LevelsAreTrees
  <2>3. w.kind \in Kinds /\ EncodedKind(w.kind) \in Kinds /\ Len(w.items) \in Nat
    BY <2>2, OverForm, KindNames DEF EncodedKind
  <2>4. CASE m >= MaxDepth
    <3>1. Encode(w, m, c) = Leaf("max_depth")
      BY <2>2, <2>4, EncodeRec
    <3>2. Leaf("max_depth") \in Over(Levels[k])
      BY KindNames, LeafOver
    <3> QED BY <3>1, <3>2
  <2>5. CASE ~(m >= MaxDepth) /\ w.items = <<>>
    <3>1. Encode(w, m, c) = EncodedLeaf(EncodedKind(w.kind), c)
      BY <2>2, <2>5, EncodeRec
    <3>2. EncodedLeaf(EncodedKind(w.kind), c) \in Over(Levels[k])
      BY <2>3, EncodedLeafOver
    <3> QED BY <3>1, <3>2
  <2>6. CASE ~(m >= MaxDepth) /\ w.items # <<>>
    <3> DEFINE items == [i \in 1..Kept(w.items) |-> Encode(w.items[i], m + 1, c)]
    <3>1. Kept(w.items) \in Nat
      BY <2>3, TreeAssumption DEF Kept
    <3>2. \A i \in 1..Kept(w.items) : Encode(w.items[i], m + 1, c) \in Levels[k]
      <4>1. \A i \in 1..Kept(w.items) : w.items[i] \in Levels[k]
        BY <1>2, ItemsBelow
      <4>2. m + 1 \in Nat
        OBVIOUS
      <4> QED BY <1>2, <4>1, <4>2
    <3>3. items \in Seq(Levels[k])
      BY <3>1, <3>2, IsASeq
    <3>4. w.secret \cap 1..Kept(w.items) \in SUBSET Nat
      BY <2>2, OverForm
    <3>5. (Len(w.items) > MaxItems) \in BOOLEAN
      OBVIOUS
    <3>6. Encode(w, m, c) = [kind |-> EncodedKind(w.kind), items |-> items,
                                 secret |-> w.secret \cap 1..Kept(w.items),
                                 truncated |-> Len(w.items) > MaxItems]
      BY <2>2, <2>6, EncodeRec
    <3> DEFINE secret == w.secret \cap 1..Kept(w.items)
               truncated == Len(w.items) > MaxItems
               kind == EncodedKind(w.kind)
    <3>7. kind \in Kinds
      BY <2>3
    <3> HIDE DEF items, secret, truncated, kind
    <3>8. [kind |-> kind, items |-> items, secret |-> secret, truncated |-> truncated]
              \in Over(Levels[k])
      BY <3>3, <3>4, <3>5, <3>7 DEF Over, secret, truncated
    <3> QED BY <3>6, <3>8 DEF secret, truncated, kind
  <2> QED BY <2>4, <2>5, <2>6
<1> HIDE DEF T
<1>3. n \in T
  BY <1>1, <1>2, LevelInduction
<1> QED BY <1>3 DEF T

LEMMA EncodeTree ==
    ASSUME NEW c, NEW u \in Trees, NEW d \in Nat
    PROVE  Encode(u, d, c) \in Trees
<1>1. MaxHeight \in 0..MaxHeight
  BY TreeAssumption
<1> QED BY <1>1, EncodeLevel DEF Trees

LEMMA RedactedKinds ==
    ASSUME NEW kind \in Kinds
    PROVE  RedactedKind(kind) \in Kinds /\ (kind # "base64_bytes" => RedactedKind(kind) = kind)
BY DEF RedactedKind, Kinds, Unsafe

LEMMA RedactLevel ==
    ASSUME NEW n \in 0..MaxHeight, NEW u \in Levels[n]
    PROVE  Redact(u, FALSE) \in Levels[n]
<1> DEFINE T == {k \in 0..MaxHeight : \A w \in Levels[k] : Redact(w, FALSE) \in Levels[k]}
<1>1. 0 \in T
  <2>1. \A w : w \in Levels[0] => Redact(w, FALSE) \in Levels[0]
    BY LevelsForm
  <2>2. 0 \in 0..MaxHeight
    BY TreeAssumption
  <2> QED BY <2>1, <2>2
<1>2. ASSUME NEW k \in 0..MaxHeight, k + 1 \in 0..MaxHeight, k \in T PROVE k + 1 \in T
  <2>1. SUFFICES ASSUME NEW w \in Levels[k + 1] PROVE Redact(w, FALSE) \in Over(Levels[k])
    BY <1>2, LevelsForm
  <2>2. w \in Over(Levels[k]) /\ w \in Trees
    BY <1>2, LevelsForm, LevelsAreTrees
  <2>3. CASE w.kind = "secret_text"
    <3>1. Redact(w, FALSE) = Leaf("redacted")
      BY <2>2, <2>3, RedactRec
    <3>2. Leaf("redacted") \in Over(Levels[k])
      BY KindNames, LeafOver
    <3> QED BY <3>1, <3>2
  <2>4. CASE w.kind # "secret_text"
    <3> DEFINE items == [i \in DOMAIN w.items |->
                            IF i \in Named(w) THEN Leaf("redacted") ELSE Redact(w.items[i], FALSE)]
               kind == RedactedKind(w.kind)
    <3>1. Len(w.items) \in Nat /\ DOMAIN w.items = 1..Len(w.items)
      BY <2>2, OverForm
    <3>2. \A i \in DOMAIN w.items : w.items[i] \in Levels[k]
      BY <2>2, OverForm
    <3>3. \A i \in DOMAIN w.items : Redact(w.items[i], FALSE) \in Levels[k]
      BY <1>2, <3>2
    <3>4. \A i \in DOMAIN w.items : Leaf("redacted") \in Levels[k]
      <4>1. SUFFICES ASSUME NEW i \in DOMAIN w.items PROVE Leaf("redacted") \in Levels[k]
        OBVIOUS
      <4>2. w.items[i] \in Levels[k]
        BY <3>2
      <4> QED BY <4>2, KindNames, LeafLevel
    <3>5. items \in Seq(Levels[k])
      <4>1. \A i \in 1..Len(w.items) : items[i] \in Levels[k]
        BY <3>1, <3>3, <3>4
      <4>2. items = [i \in 1..Len(w.items) |-> items[i]]
        BY <3>1
      <4> HIDE DEF items
      <4> QED BY <3>1, <4>1, <4>2, SeqOf
    <3>6. Redact(w, FALSE) = [w EXCEPT !.kind = kind, !.items = items]
      BY <2>2, <2>4, RedactRec
    <3>7. kind \in Kinds
      BY <2>2, OverForm, RedactedKinds
    <3> HIDE DEF items, kind
    <3> QED BY <2>2, <3>5, <3>6, <3>7 DEF Over
  <2> QED BY <2>3, <2>4
<1> HIDE DEF T
<1>3. n \in T
  BY <1>1, <1>2, LevelInduction
<1> QED BY <1>3 DEF T

LEMMA RedactTree == ASSUME NEW u \in Trees PROVE Redact(u, FALSE) \in Trees
<1>1. MaxHeight \in 0..MaxHeight
  BY TreeAssumption
<1> QED BY <1>1, RedactLevel DEF Trees

(* A tree without items.                                                   *)
LEMMA BareTree ==
    ASSUME NEW e \in Trees, e.items = <<>>
    PROVE  /\ Redact(e, FALSE) = IF e.kind = "secret_text" THEN Leaf("redacted")
                                 ELSE [e EXCEPT !.kind = RedactedKind(e.kind)]
           /\ Suspect(e) <=> e.kind \in Suspicious \/ e.truncated
           /\ \A c, limit : \A d \in Nat :
                 DecodeAt(e, d, c, limit) = IF d >= limit THEN Failure
                                            ELSE IF e.kind = "enum" THEN Leaf("enum")
                                            ELSE IF e.kind \in Irreversible THEN Failure
                                            ELSE DecodedLeaf(e.kind, c)
           /\ Normal(e) = IF e.kind = "enum" THEN Leaf("enum") ELSE [e EXCEPT !.kind = BaseKind(e.kind)]
<1>1. DOMAIN e.items = {} /\ e = [kind |-> e.kind, items |-> e.items, secret |-> e.secret,
                                  truncated |-> e.truncated]
  BY EmptySeq, TreeForm
<1>2. \A f : DOMAIN f = {} /\ f = [i \in {} |-> f[i]] => f = e.items
  <2>1. e.items = [i \in {} |-> e.items[i]]
    BY <1>1, TreeForm
  <2> QED BY <2>1
<1>3. [i \in DOMAIN e.items |-> IF i \in Named(e) THEN Leaf("redacted")
                                ELSE Redact(e.items[i], FALSE)] = e.items
  BY <1>1, <1>2
<1>4. [i \in DOMAIN e.items |-> Normal(e.items[i])] = e.items
  BY <1>1, <1>2
<1>5. \A kind : [e EXCEPT !.kind = kind, !.items = e.items] = [e EXCEPT !.kind = kind]
  BY <1>1
<1>6. Redact(e, FALSE) = IF e.kind = "secret_text" THEN Leaf("redacted")
                         ELSE [e EXCEPT !.kind = RedactedKind(e.kind)]
  BY <1>3, <1>5, RedactRec
<1>7. Normal(e) = IF e.kind = "enum" THEN Leaf("enum") ELSE [e EXCEPT !.kind = BaseKind(e.kind)]
  BY <1>4, <1>5, NormalRec
<1>8. Suspect(e) <=> e.kind \in Suspicious \/ e.truncated
  BY <1>1, SuspectRec
<1>9. \A c, limit : \A d \in Nat :
         DecodeAt(e, d, c, limit) = IF d >= limit THEN Failure
                                    ELSE IF e.kind = "enum" THEN Leaf("enum")
                                    ELSE IF e.kind \in Irreversible THEN Failure
                                    ELSE DecodedLeaf(e.kind, c)
  <2>1. ASSUME NEW c, NEW limit, NEW d \in Nat
        PROVE  DecodeAt(e, d, c, limit) = IF d >= limit THEN Failure
                                          ELSE IF e.kind = "enum" THEN Leaf("enum")
                                          ELSE IF e.kind \in Irreversible THEN Failure
                                          ELSE DecodedLeaf(e.kind, c)
    <3>1. ~AnyFails(e, d + 1, c, limit)
      BY <1>1 DEF AnyFails
    <3> QED BY <3>1, DecodeRec
  <2> QED BY <2>1
<1> QED BY <1>6, <1>7, <1>8, <1>9

(* Its kind replaced, it is one still.                                     *)
LEMMA BareRekinded ==
    ASSUME NEW e \in Trees, e.items = <<>>, NEW kind \in Kinds
    PROVE  LET r == [e EXCEPT !.kind = kind] IN
           r \in Trees /\ r.kind = kind /\ r.items = <<>> /\ r.truncated = e.truncated
<1>1. PICK S : Trees = Over(S)
  BY TreesAreOver
<1> QED BY <1>1 DEF Over

LEMMA SameKind ==
    ASSUME NEW kind, NEW items, NEW secret, NEW truncated
    PROVE  LET e == [kind |-> kind, items |-> items, secret |-> secret, truncated |-> truncated] IN
           [e EXCEPT !.kind = kind] = e
OBVIOUS

LEMMA LeafIssue ==
    ASSUME NEW u \in Trees, NEW kind \in Kinds
    PROVE  /\ Leaf(kind) \in Trees
           /\ Suspect(Leaf(kind)) <=> kind \in Suspicious
           /\ kind \notin {"secret_text", "base64_bytes"} => Redact(Leaf(kind), FALSE) = Leaf(kind)
<1>1. Leaf(kind) \in Trees
  BY TreesAreOver, LeafOver
<1>2. Leaf(kind).items = <<>> /\ Leaf(kind).truncated = FALSE /\ Leaf(kind).kind = kind
  BY LeafOver
<1>3. [Leaf(kind) EXCEPT !.kind = kind] = Leaf(kind)
  BY SameKind DEF Leaf, Tree
<1>4. kind # "base64_bytes" => RedactedKind(kind) = kind
  BY RedactedKinds
<1> QED BY <1>1, <1>2, <1>3, <1>4, BareTree

(* What is written of a leaf.                                              *)
LEMMA EncodedLeafForm ==
    ASSUME NEW u \in Trees, NEW kind \in Kinds, NEW c
    PROVE  LET e == EncodedLeaf(kind, c) IN
           /\ e \in Trees /\ e.items = <<>> /\ e.secret = {}
           /\ e.kind = EncodedName(kind, c) /\ (e.truncated <=> kind \in {"wide_bytes", "long_bytes"})
<1>1. PICK S : Trees = Over(S)
  BY TreesAreOver
<1>2. EncodedLeaf(kind, c) \in Over(S)
  BY EncodedLeafOver, Zenon
<1>3. /\ EncodedLeaf(kind, c).kind = EncodedName(kind, c)
      /\ EncodedLeaf(kind, c).items = <<>> /\ EncodedLeaf(kind, c).secret = {}
      /\ EncodedLeaf(kind, c).truncated <=> kind \in {"wide_bytes", "long_bytes"}
  BY EncodedLeafOver, Zenon
<1> QED BY <1>1, <1>2, <1>3, Zenon

Branches == Containers \cup Enums
Marked == {"marked_text", "flagged_dataclass"}
HiddenKinds == {"secret_text", "long_text", "base64_bytes", "wide_bytes", "long_bytes", "cycle",
                "opaque"}
Encodable(kind, c) == kind = "custom" => c \in {"codec_A", "codec_B"}

(* What replay.json holds of a part u of the arguments at depth d.         *)
Encoding(u, d, c) == Redact(Encode(u, d, c), FALSE)

LEMMA EncodingTree ==
    ASSUME NEW c, NEW u \in Trees, NEW d \in Nat
    PROVE  Encoding(u, d, c) \in Trees
BY EncodeTree, RedactTree DEF Encoding

LEMMA EncodingTooDeep ==
    ASSUME NEW c, NEW u \in Trees, NEW d \in Nat, d >= MaxDepth
    PROVE  Suspect(Encoding(u, d, c))
<1>1. Encode(u, d, c) = Leaf("max_depth")
  BY EncodeRec
<1>2. "max_depth" \in Kinds /\ "max_depth" \in Suspicious
  BY KindNames DEF Suspicious
<1>3. Suspect(Leaf("max_depth")) /\ Redact(Leaf("max_depth"), FALSE) = Leaf("max_depth")
  BY <1>2, LeafIssue
<1> QED BY <1>1, <1>3 DEF Encoding

(* What is written of a tree with items.                                   *)
EncodedItems(u, d, c) ==
    [i \in 1..Kept(u.items) |-> IF i \in Named(u) THEN Leaf("redacted")
                                ELSE Encoding(u.items[i], d + 1, c)]

EncodedAs(e, u, d, c) ==
    /\ e.kind = EncodedKind(u.kind)
    /\ e.secret = u.secret \cap 1..Kept(u.items)
    /\ e.truncated <=> Len(u.items) > MaxItems
    /\ e.items = EncodedItems(u, d, c)

LEMMA EncodingForm ==
    ASSUME NEW c, NEW u \in Trees, NEW d \in Nat, d < MaxDepth, u.items # <<>>,
           u.kind \in Branches
    PROVE  EncodedAs(Encoding(u, d, c), u, d, c)
<1> DEFINE e == Encode(u, d, c)
           items == [i \in 1..Kept(u.items) |-> Encode(u.items[i], d + 1, c)]
           secret == u.secret \cap 1..Kept(u.items)
           truncated == Len(u.items) > MaxItems
           kind == EncodedKind(u.kind)
<1>1. e = [kind |-> kind, items |-> items, secret |-> secret, truncated |-> truncated]
  <2>1. ~(d >= MaxDepth)
    BY TreeAssumption
  <2> QED BY <2>1, EncodeRec
<1>2. e \in Trees
  BY EncodeTree
<1>3. DOMAIN items = 1..Kept(u.items)
  OBVIOUS
<1>4. kind # "secret_text" /\ RedactedKind(kind) = kind
  BY DEF EncodedKind, RedactedKind, Branches, Containers, Keyed, Enums
<1>5. \A i \in 1..Kept(u.items) : items[i] = Encode(u.items[i], d + 1, c)
  OBVIOUS
<1> HIDE DEF e, items, secret, truncated, kind
<1>6. e.kind = kind /\ e.items = items /\ e.secret = secret /\ e.truncated = truncated
  BY <1>1
<1>7. \A i \in 1..Kept(u.items) : i \in Named(e) <=> i \in Named(u)
  BY <1>6 DEF Named, kind, secret, EncodedKind, Keyed
<1> DEFINE shown == [i \in DOMAIN e.items |-> IF i \in Named(e) THEN Leaf("redacted")
                                              ELSE Redact(e.items[i], FALSE)]
<1>8. shown = EncodedItems(u, d, c)
  BY <1>3, <1>5, <1>6, <1>7 DEF Encoding, EncodedItems
<1> HIDE DEF shown
<1>9. Redact(e, FALSE) = [e EXCEPT !.kind = kind, !.items = shown]
  BY <1>2, <1>4, <1>6, RedactRec DEF shown
<1>10. LET r == [e EXCEPT !.kind = kind, !.items = shown] IN
       r.kind = kind /\ r.items = shown /\ r.secret = secret /\ r.truncated = truncated
  BY <1>1
<1> QED BY <1>8, <1>9, <1>10 DEF EncodedAs, Encoding, e, kind, secret, truncated

LEMMA EncodedLeafIssue ==
    ASSUME NEW u \in Trees, NEW kind \in PlainLeaves \cup Containers, NEW c
    PROVE  Suspect(Redact(EncodedLeaf(EncodedKind(kind), c), FALSE)) <=>
               kind \in HiddenKinds \cup Marked \/ ~Encodable(kind, c)
<1> DEFINE e == EncodedLeaf(EncodedKind(kind), c)
           name == EncodedName(EncodedKind(kind), c)
           cut == kind \in {"wide_bytes", "long_bytes"}
<1>1. EncodedKind(kind) \in Kinds /\ name \in Kinds
  BY EncodedNames DEF EncodedKind, Kinds, Containers, Keyed
<1>2. e \in Trees /\ e.items = <<>> /\ e.kind = name /\ (e.truncated <=> cut)
  BY <1>1, EncodedLeafForm DEF EncodedKind
<1>3. Suspect(Redact(e, FALSE)) <=>
          name \in Suspicious \cup {"secret_text", "base64_bytes"} \/ cut
  <2> HIDE DEF e, name, cut
  <2>1. CASE name = "secret_text"
    <3>1. Redact(e, FALSE) = Leaf("redacted")
      BY <1>2, <2>1, BareTree
    <3>2. Suspect(Leaf("redacted"))
      BY KindNames, LeafIssue DEF Suspicious
    <3> QED BY <2>1, <3>1, <3>2
  <2>2. CASE name # "secret_text"
    <3> DEFINE kept == RedactedKind(name)
               shown == [e EXCEPT !.kind = kept]
    <3>1. kept \in Kinds
      BY <1>1, RedactedKinds
    <3>2. Redact(e, FALSE) = shown
      BY <1>2, <2>2, BareTree
    <3>3. shown \in Trees /\ shown.kind = kept /\ shown.items = <<>> /\ shown.truncated = e.truncated
      <4> HIDE DEF kept
      <4> QED BY <1>2, <3>1, BareRekinded
    <3>4. Suspect(shown) <=> kept \in Suspicious \/ e.truncated
      <4> HIDE DEF kept, shown
      <4> QED BY <3>3, BareTree
    <3>5. kept \in Suspicious <=> name \in Suspicious \cup {"base64_bytes"}
      BY DEF RedactedKind, Suspicious, Unsafe
    <3> HIDE DEF kept, shown
    <3> QED BY <1>2, <2>2, <3>2, <3>4, <3>5
  <2> QED BY <2>1, <2>2
<1>4. name \in Suspicious \cup {"secret_text", "base64_bytes"} \/ cut <=>
          kind \in HiddenKinds \cup Marked \/ ~Encodable(kind, c)
  BY DEF EncodedName, EncodedKind, Suspicious, Unsafe, HiddenKinds, Marked, Encodable, PlainLeaves,
         Bytes, Containers, Keyed, TreeCodecs
<1> HIDE DEF e, name, cut
<1> QED BY <1>3, <1>4 DEF e

-----------------------------------------------------------------------------
(* A value is written without an issue exactly when it is lossless and     *)
(* nothing in it has a mark.                                               *)

Plainly(u, d) == \A p \in Parts(u, d) : PlainPart(p)
Losslessly(u, d, c) == \A p \in Parts(u, d) : LosslessPart(p, c)

FinePart(p, c) == LosslessPart(p, c) /\ p.kind \notin Marked
Finely(u, d, c) == \A p \in Parts(u, d) : FinePart(p, c)

Part(u, d) == [kind |-> u.kind, width |-> Len(u.items), secret |-> u.secret,
               truncated |-> u.truncated, depth |-> d]

LEMMA PartsSplit ==
    ASSUME NEW u \in Trees, NEW d \in Nat, NEW c
    PROVE  /\ Plainly(u, d) <=> /\ PlainPart(Part(u, d))
                                /\ \A i \in DOMAIN u.items : Plainly(u.items[i], d + 1)
           /\ Losslessly(u, d, c) <=>
                  /\ LosslessPart(Part(u, d), c)
                  /\ \A i \in DOMAIN u.items : Losslessly(u.items[i], d + 1, c)
           /\ Finely(u, d, c) <=> /\ FinePart(Part(u, d), c)
                                  /\ \A i \in DOMAIN u.items : Finely(u.items[i], d + 1, c)
<1>1. \A p : p \in Parts(u, d) <=>
               p = Part(u, d) \/ \E i \in DOMAIN u.items : p \in Parts(u.items[i], d + 1)
  BY PartsRec DEF Part
<1>2. Plainly(u, d) <=> /\ PlainPart(Part(u, d))
                        /\ \A i \in DOMAIN u.items : Plainly(u.items[i], d + 1)
  BY <1>1, Zenon DEF Plainly
<1>3. Losslessly(u, d, c) <=>
          /\ LosslessPart(Part(u, d), c)
          /\ \A i \in DOMAIN u.items : Losslessly(u.items[i], d + 1, c)
  BY <1>1, Zenon DEF Losslessly
<1>4. Finely(u, d, c) <=> /\ FinePart(Part(u, d), c)
                          /\ \A i \in DOMAIN u.items : Finely(u.items[i], d + 1, c)
  BY <1>1, Zenon DEF Finely
<1> QED BY <1>2, <1>3, <1>4

(* What has a name in a lossless part: nothing.                            *)
LEMMA NothingNamed ==
    ASSUME NEW u \in Trees
    PROVE  (u.kind \in Keyed => u.secret = {} \/ (u.kind = "odd_dict" /\ u.secret = {1}))
               <=> Named(u) = {}
BY DEF Named, Keyed

LEMMA PartForm ==
    ASSUME NEW u \in Trees, NEW d \in Nat, NEW c
    PROVE  /\ PlainPart(Part(u, d)) <=>
                  /\ u.kind \in PlainLeaves \cup Branches
                  /\ u.kind \in PlainLeaves => u.items = <<>>
                  /\ u.secret # {} => u.kind \in Keyed \/ d = 0
                  /\ u.kind \in Enums => Len(u.items) = 1
                  /\ u.secret \subseteq DOMAIN u.items
                  /\ ~u.truncated
           /\ LosslessPart(Part(u, d), c) <=>
                  /\ d < MaxDepth
                  /\ Len(u.items) <= MaxItems
                  /\ Named(u) = {}
                  /\ u.kind \notin HiddenKinds
                  /\ Encodable(u.kind, c)
           /\ FinePart(Part(u, d), c) <=>
                  LosslessPart(Part(u, d), c) /\ u.kind \notin Marked
<1>1. /\ Part(u, d).kind = u.kind /\ Part(u, d).width = Len(u.items)
      /\ Part(u, d).secret = u.secret /\ Part(u, d).truncated = u.truncated
      /\ Part(u, d).depth = d
  BY DEF Part
<1>2. DOMAIN u.items = 1..Len(u.items) /\ (Len(u.items) = 0 <=> u.items = <<>>)
  BY TreeForm
<1>3. FinePart(Part(u, d), c) <=> LosslessPart(Part(u, d), c) /\ u.kind \notin Marked
  BY <1>1 DEF FinePart
<1>4. PlainPart(Part(u, d)) <=>
                  /\ u.kind \in PlainLeaves \cup Branches
                  /\ u.kind \in PlainLeaves => u.items = <<>>
                  /\ u.secret # {} => u.kind \in Keyed \/ d = 0
                  /\ u.kind \in Enums => Len(u.items) = 1
                  /\ u.secret \subseteq DOMAIN u.items
                  /\ ~u.truncated
  BY <1>1, <1>2 DEF PlainPart, Branches
<1>5. LosslessPart(Part(u, d), c) <=>
                  /\ d < MaxDepth
                  /\ Len(u.items) <= MaxItems
                  /\ Named(u) = {}
                  /\ u.kind \notin HiddenKinds
                  /\ Encodable(u.kind, c)
  BY <1>1, NothingNamed DEF LosslessPart, HiddenKinds, Encodable
<1> QED BY <1>3, <1>4, <1>5

LEMMA SuspectIffLost ==
    ASSUME NEW c, NEW v \in Trees, NEW depth \in Nat, Plainly(v, depth)
    PROVE  Suspect(Encoding(v, depth, c)) <=> ~Finely(v, depth, c)
<1> DEFINE T == {u \in Trees : \A d \in Nat : Plainly(u, d) =>
                    (Suspect(Encoding(u, d, c)) <=> ~Finely(u, d, c))}
<1>1. ASSUME NEW u \in Trees, \A i \in DOMAIN u.items : u.items[i] \in T
      PROVE  u \in T
  <2>1. SUFFICES ASSUME NEW d \in Nat, Plainly(u, d)
                 PROVE  Suspect(Encoding(u, d, c)) <=> ~Finely(u, d, c)
    OBVIOUS
  <2>2. PlainPart(Part(u, d)) /\ \A i \in DOMAIN u.items : Plainly(u.items[i], d + 1)
    BY <2>1, PartsSplit
  <2>3. \A i \in DOMAIN u.items :
            Suspect(Encoding(u.items[i], d + 1, c)) <=> ~Finely(u.items[i], d + 1, c)
    <3>1. d + 1 \in Nat
      OBVIOUS
    <3> QED BY <1>1, <2>2, <3>1
  <2> HIDE DEF T
  <2>4. FinePart(Part(u, d), c) <=>
                  /\ d < MaxDepth
                  /\ Len(u.items) <= MaxItems
                  /\ Named(u) = {}
                  /\ u.kind \notin HiddenKinds
                  /\ Encodable(u.kind, c)
                  /\ u.kind \notin Marked
    BY PartForm
  <2>5. /\ u.kind \in PlainLeaves \cup Branches
        /\ u.kind \in PlainLeaves => u.items = <<>>
        /\ u.secret # {} => u.kind \in Keyed \/ d = 0
        /\ u.kind \in Enums => Len(u.items) = 1
        /\ u.secret \subseteq DOMAIN u.items
        /\ ~u.truncated
    BY <2>2, PartForm
  <2>6. Len(u.items) \in Nat /\ DOMAIN u.items = 1..Len(u.items) /\ (Len(u.items) = 0 <=> u.items = <<>>)
    BY TreeForm
  <2>7. Named(u) \subseteq u.secret
    BY DEF Named
  <2>8. CASE d >= MaxDepth
    <3>1. ~FinePart(Part(u, d), c)
      BY <2>1, <2>4, <2>8, TreeAssumption
    <3> QED BY <2>8, <3>1, PartsSplit, EncodingTooDeep
  <2>9. CASE d < MaxDepth /\ u.items = <<>>
    <3>1. Encoding(u, d, c) = Redact(EncodedLeaf(EncodedKind(u.kind), c), FALSE)
      <4>1. ~(d >= MaxDepth)
        BY <2>9, TreeAssumption
      <4> QED BY <2>9, <4>1, EncodeRec DEF Encoding
    <3>2. Len(u.items) = 0 /\ DOMAIN u.items = {} /\ Named(u) = {}
      BY <2>5, <2>6, <2>7, <2>9
    <3>3. u.kind \in PlainLeaves \cup Containers
      BY <2>5, <3>2 DEF Branches
    <3>4. Suspect(Encoding(u, d, c)) <=>
               u.kind \in HiddenKinds \cup Marked \/ ~Encodable(u.kind, c)
      BY <3>1, <3>3, EncodedLeafIssue
    <3>5. FinePart(Part(u, d), c) <=>
               u.kind \notin HiddenKinds \cup Marked /\ Encodable(u.kind, c)
      BY <2>1, <2>4, <2>9, <3>2, TreeAssumption
    <3>6. Finely(u, d, c) <=> FinePart(Part(u, d), c)
      BY <3>2, PartsSplit
    <3> QED BY <3>4, <3>5, <3>6
  <2>10. CASE d < MaxDepth /\ u.items # <<>>
    <3> DEFINE E == Encoding(u, d, c)
    <3>1. u.kind \in Branches
      BY <2>5, <2>10
    <3>2. /\ E.kind = EncodedKind(u.kind)
          /\ E.truncated <=> Len(u.items) > MaxItems
          /\ E.items = [i \in 1..Kept(u.items) |->
                  IF i \in Named(u) THEN Leaf("redacted") ELSE Encoding(u.items[i], d + 1, c)]
      <4>1. EncodedAs(E, u, d, c)
        BY <2>1, <2>10, <3>1, EncodingForm
      <4> HIDE DEF E
      <4> QED BY <4>1 DEF EncodedAs, EncodedItems
    <3>3. E \in Trees
      BY EncodingTree
    <3>4. E.kind \in Suspicious <=> u.kind \in Marked
      BY <3>1, <3>2 DEF EncodedKind, Branches, Containers, Keyed, Enums, Suspicious, Unsafe, Marked
    <3>5. Suspect(Leaf("redacted"))
      BY KindNames, LeafIssue DEF Suspicious
    <3> HIDE DEF E
    <3>6. Suspect(E) <=>
              \/ u.kind \in Marked
              \/ Len(u.items) > MaxItems
              \/ \E i \in 1..Kept(u.items) :
                    i \in Named(u) \/ Suspect(Encoding(u.items[i], d + 1, c))
      <4>1. Suspect(E) <=> \/ E.kind \in Suspicious
                           \/ E.truncated
                           \/ \E i \in DOMAIN E.items : Suspect(E.items[i])
        BY <3>3, SuspectRec
      <4>2. DOMAIN E.items = 1..Kept(u.items)
        BY <3>2
      <4>3. \A i \in 1..Kept(u.items) :
               Suspect(E.items[i]) <=>
                    i \in Named(u) \/ Suspect(Encoding(u.items[i], d + 1, c))
        BY <3>2, <3>5
      <4> QED BY <3>2, <3>4, <4>1, <4>2, <4>3
    <3>7. u.kind \notin HiddenKinds /\ Encodable(u.kind, c)
      BY <3>1 DEF HiddenKinds, Branches, Containers, Keyed, Enums, Encodable
    <3>8. FinePart(Part(u, d), c) <=>
              Len(u.items) <= MaxItems /\ Named(u) = {} /\ u.kind \notin Marked
      BY <2>4, <2>10, <3>7
    <3>9. CASE Len(u.items) > MaxItems
      <4>1. ~(Len(u.items) <= MaxItems)
        BY <2>6, <3>9, TreeAssumption
      <4> QED BY <3>6, <3>8, <3>9, <4>1, PartsSplit DEF E
    <3>10. CASE ~(Len(u.items) > MaxItems)
      <4>1. Len(u.items) <= MaxItems /\ Kept(u.items) = Len(u.items)
        BY <2>6, <3>10, TreeAssumption DEF Kept
      <4>2. Suspect(E) <=>
              \/ u.kind \in Marked
              \/ \E i \in DOMAIN u.items : i \in Named(u) \/ ~Finely(u.items[i], d + 1, c)
        BY <2>3, <2>6, <3>6, <3>10, <4>1
      <4>3. (\E i \in DOMAIN u.items : i \in Named(u)) <=> Named(u) # {}
        BY <2>5, <2>7
      <4>4. Finely(u, d, c) <=>
                /\ Named(u) = {} /\ u.kind \notin Marked
                /\ \A i \in DOMAIN u.items : Finely(u.items[i], d + 1, c)
        BY <3>8, <4>1, PartsSplit
      <4> QED BY <4>2, <4>3, <4>4 DEF E
    <3> QED BY <3>9, <3>10
  <2> QED BY <2>8, <2>9, <2>10, TreeAssumption
<1>2. v \in T
  <2> HIDE DEF T
  <2>1. Trees \subseteq T
    BY <1>1, TreeInduction
  <2> QED BY <2>1
<1> QED BY <1>2

LEMMA FineIsLossless ==
    ASSUME NEW v, NEW c
    PROVE  Finely(v, 0, c) <=>
               Lossless(v, c) /\ ~Mentions(v, "marked_text") /\ ~Mentions(v, "flagged_dataclass")
BY DEF Finely, FinePart, Marked, Lossless, Mentions

LEMMA IssueIffLost ==
    ASSUME NEW c, NEW v \in Trees, Plainly(v, 0)
    PROVE  HasReplayIssue(Encoded(v, c)) <=> ~Lossless(v, c) \/ TakenForLoss(v, c)
<1>1. Encoded(v, c) = Encoding(v, 0, c)
  BY DEF Encoded, Encoding
<1>2. HasReplayIssue(Encoded(v, c)) <=> ~Finely(v, 0, c) \/ JsonTooDeep(Encoded(v, c))
  BY <1>1, IssueIs, SuspectIffLost
<1> QED BY <1>2, FineIsLossless DEF TakenForLoss

-----------------------------------------------------------------------------
(* What decode makes of what is written of a lossless value.               *)

MentionsAt(u, d, kind) == \E p \in Parts(u, d) : p.kind = kind
Changed(u, d, c, now) == now # c /\ MentionsAt(u, d, "custom")
Lasting == {"sequence_subclass", "unbuildable_class", "unbuildable_enum"}
NoWayBack(u, d) == \E kind \in Lasting : MentionsAt(u, d, kind)
BeyondLimit(u, d, limit) == \E p \in Parts(u, d) : p.depth >= limit

LEMMA MentionsSplit ==
    ASSUME NEW u \in Trees, NEW d \in Nat, NEW kind
    PROVE  MentionsAt(u, d, kind) <=>
               u.kind = kind \/ \E i \in DOMAIN u.items : MentionsAt(u.items[i], d + 1, kind)
<1>1. \A p : p \in Parts(u, d) <=>
               p = Part(u, d) \/ \E i \in DOMAIN u.items : p \in Parts(u.items[i], d + 1)
  BY PartsRec DEF Part
<1>2. Part(u, d).kind = u.kind
  BY DEF Part
<1> QED BY <1>1, <1>2, Zenon DEF MentionsAt

LEMMA ReasonsSplit ==
    ASSUME NEW u \in Trees, NEW d \in Nat, NEW c, NEW now
    PROVE  /\ u.kind = "custom" /\ now # c => Changed(u, d, c, now)
           /\ \A i \in DOMAIN u.items :
                 Changed(u.items[i], d + 1, c, now) => Changed(u, d, c, now)
           /\ u.kind \in Lasting => NoWayBack(u, d)
           /\ \A i \in DOMAIN u.items : NoWayBack(u.items[i], d + 1) => NoWayBack(u, d)
BY MentionsSplit DEF Changed, NoWayBack

LEMMA BeyondSplit ==
    ASSUME NEW u \in Trees, NEW d \in Nat, NEW limit
    PROVE  /\ d >= limit => BeyondLimit(u, d, limit)
           /\ \A i \in DOMAIN u.items :
                 BeyondLimit(u.items[i], d + 1, limit) => BeyondLimit(u, d, limit)
<1>1. \A p : p \in Parts(u, d) <=>
               p = Part(u, d) \/ \E i \in DOMAIN u.items : p \in Parts(u.items[i], d + 1)
  BY PartsRec DEF Part
<1>2. Part(u, d).depth = d
  BY DEF Part
<1> QED BY <1>1, <1>2, Zenon DEF BeyondLimit

(* Back is a way back to u, or says why there is none.                     *)
ReadsBack(u, d, c, now, limit) ==
    LET back == DecodeAt(Encoding(u, d, c), d, now, limit) IN
    /\ back = Failure => Changed(u, d, c, now) \/ NoWayBack(u, d) \/ BeyondLimit(u, d, limit)
    /\ back # Failure => back = Normal(u) \/ Changed(u, d, c, now)

LEMMA KindReplaced ==
    ASSUME NEW k, NEW items, NEW secret, NEW truncated, NEW u,
           u = [kind |-> k, items |-> items, secret |-> secret, truncated |-> truncated], NEW base
    PROVE  [u EXCEPT !.kind = base] =
               [kind |-> base, items |-> items, secret |-> secret, truncated |-> truncated]
OBVIOUS

LEMMA ItemsReplaced ==
    ASSUME NEW k, NEW items, NEW secret, NEW truncated, NEW u,
           u = [kind |-> k, items |-> items, secret |-> secret, truncated |-> truncated], NEW others
    PROVE  [u EXCEPT !.items = others] =
               [kind |-> k, items |-> others, secret |-> secret, truncated |-> truncated]
OBVIOUS

LEMMA BothReplaced ==
    ASSUME NEW k, NEW items, NEW secret, NEW truncated, NEW u,
           u = [kind |-> k, items |-> items, secret |-> secret, truncated |-> truncated],
           NEW base, NEW others
    PROVE  [u EXCEPT !.kind = base, !.items = others] =
               [kind |-> base, items |-> others, secret |-> secret, truncated |-> truncated]
<1> DEFINE w == [u EXCEPT !.kind = base]
<1>1. [u EXCEPT !.kind = base, !.items = others] = [w EXCEPT !.items = others]
  OBVIOUS
<1>2. w = [kind |-> base, items |-> items, secret |-> secret, truncated |-> truncated]
  BY KindReplaced
<1> HIDE DEF w
<1>3. [w EXCEPT !.items = others] =
          [kind |-> base, items |-> others, secret |-> secret, truncated |-> truncated]
  BY <1>2, ItemsReplaced
<1> QED BY <1>1, <1>3

LEMMA TreeRekinded ==
    ASSUME NEW u \in Trees, NEW base
    PROVE  [u EXCEPT !.kind = base] =
               [kind |-> base, items |-> u.items, secret |-> u.secret, truncated |-> u.truncated]
BY TreeForm, KindReplaced

LEMMA FailureForm == Failure.kind = "failure" /\ \A kind : Leaf(kind).kind = kind
BY DEF Failure, Leaf, Tree

LEMMA LeafReadsBack ==
    ASSUME NEW c, NEW now, NEW limit, NEW u \in Trees, NEW d \in Nat, d < MaxDepth,
           u.items = <<>>, u.secret = {}, ~u.truncated,
           u.kind \in PlainLeaves \cup Containers, u.kind \notin HiddenKinds,
           Encodable(u.kind, c)
    PROVE  ReadsBack(u, d, c, now, limit)
<1> DEFINE kind == u.kind
           name == EncodedName(EncodedKind(kind), c)
           e == EncodedLeaf(EncodedKind(kind), c)
           back == DecodeAt(Encoding(u, d, c), d, now, limit)
<1>1. EncodedKind(kind) \in Kinds
  BY DEF EncodedKind, Kinds, Containers, Keyed
<1>2. e \in Trees /\ e.items = <<>> /\ e.kind = name
  BY <1>1, EncodedLeafForm
<1>3. name \notin {"secret_text", "base64_bytes", "enum"}
  BY DEF EncodedName, EncodedKind, HiddenKinds, Encodable, PlainLeaves, Bytes, Containers, Keyed,
         TreeCodecs
<1> HIDE DEF back
<1>4. SUFFICES ASSUME ~(d >= limit) PROVE ReadsBack(u, d, c, now, limit)
  <2>1. ASSUME d >= limit PROVE ReadsBack(u, d, c, now, limit)
    <3>1. Encoding(u, d, c) \in Trees
      BY EncodingTree
    <3>2. DecodeAt(Encoding(u, d, c), d, now, limit) = Failure
      BY <2>1, <3>1, DecodeRec
    <3> QED BY <2>1, <3>2, BeyondSplit DEF ReadsBack
  <2> QED BY <2>1
<1>5. back = IF name \in Irreversible THEN Failure ELSE DecodedLeaf(name, now)
  <2>1. Encode(u, d, c) = e
    <3>1. ~(d >= MaxDepth)
      BY TreeAssumption
    <3> QED BY <3>1, EncodeRec
  <2> HIDE DEF e, name
  <2>2. RedactedKind(name) = name
    BY <1>3 DEF RedactedKind
  <2>3. [e EXCEPT !.kind = name] = e
    BY <1>2, TreeForm
  <2>4. Encoding(u, d, c) = e
    BY <1>2, <1>3, <2>1, <2>2, <2>3, BareTree DEF Encoding
  <2>5. DecodeAt(e, d, now, limit) = IF name \in Irreversible THEN Failure ELSE DecodedLeaf(name, now)
    BY <1>4, <1>2, <1>3, BareTree
  <2> QED BY <2>4, <2>5 DEF back
<1>6. Normal(u) = Leaf(BaseKind(kind))
  <2>1. kind # "enum"
    BY DEF PlainLeaves, Bytes, Containers, Keyed
  <2>2. Normal(u) = [u EXCEPT !.kind = BaseKind(u.kind)]
    BY <2>1, BareTree
  <2> DEFINE base == BaseKind(u.kind)
  <2> HIDE DEF base
  <2>3. [u EXCEPT !.kind = base] =
            [kind |-> base, items |-> u.items, secret |-> u.secret, truncated |-> u.truncated]
    BY TreeRekinded
  <2>4. [u EXCEPT !.kind = base] =
            [kind |-> base, items |-> <<>>, secret |-> {}, truncated |-> u.truncated]
    BY <2>3, Zenon
  <2>5. u.truncated = FALSE
    BY TreeForm
  <2>6. [u EXCEPT !.kind = base] = Leaf(base)
    BY <2>4, <2>5, Zenon DEF Leaf, Tree
  <2> QED BY <2>2, <2>6 DEF base
<1>7. CASE kind = "custom"
  <2>1. name = c /\ c \in {"codec_A", "codec_B"} /\ BaseKind(kind) = "custom"
    BY <1>7 DEF EncodedName, EncodedKind, Encodable, TreeCodecs, BaseKind
  <2>2. CASE now = c
    <3>1. back = Leaf("custom")
      BY <1>5, <2>1, <2>2 DEF DecodedLeaf, Irreversible, Unsafe
    <3>2. back # Failure
      BY <3>1, FailureForm
    <3> QED BY <1>6, <2>1, <3>1, <3>2 DEF ReadsBack, back
  <2>3. CASE now # c
    BY <1>7, <2>3, ReasonsSplit DEF ReadsBack
  <2> QED BY <2>2, <2>3
<1>8. CASE kind \in Lasting
  <2>1. name = kind
    BY <1>8 DEF EncodedName, EncodedKind, Lasting
  <2>2. back = Failure
    BY <1>5, <1>8, <2>1 DEF Irreversible, Lasting
  <2> QED BY <1>8, <2>2, ReasonsSplit DEF ReadsBack, back
<1>9. CASE kind \notin {"custom"} \cup Lasting
  <2>1. name = BaseKind(kind) /\ name \notin Irreversible \cup {"codec_A", "codec_B", "failure"}
    BY <1>9 DEF EncodedName, EncodedKind, BaseKind, Irreversible, Unsafe, Lasting, HiddenKinds,
                PlainLeaves, Bytes, Containers, Keyed
  <2>2. back = Leaf(name)
    BY <1>5, <2>1 DEF DecodedLeaf
  <2>3. back # Failure
    BY <2>1, <2>2, FailureForm
  <2> QED BY <1>6, <2>1, <2>2, <2>3 DEF ReadsBack, back
<1> QED BY <1>7, <1>8, <1>9

LEMMA LosslessBranch ==
    ASSUME NEW c, NEW u \in Trees, NEW d \in Nat, d < MaxDepth,
           u.items # <<>>, u.kind \in Branches, u.secret \subseteq DOMAIN u.items,
           ~u.truncated, Len(u.items) <= MaxItems, Named(u) = {}
    PROVE  LET E == Encoding(u, d, c) IN
           /\ E \in Trees /\ E.kind = EncodedKind(u.kind)
           /\ E.items = [i \in DOMAIN u.items |-> Encoding(u.items[i], d + 1, c)]
           /\ E = [kind |-> EncodedKind(u.kind), items |-> E.items, secret |-> u.secret,
                   truncated |-> u.truncated]
<1> DEFINE E == Encoding(u, d, c)
<1>1. Len(u.items) \in Nat /\ DOMAIN u.items = 1..Len(u.items) /\ Len(u.items) # 0
  BY TreeForm
<1>2. Kept(u.items) = Len(u.items) /\ u.secret \cap 1..Kept(u.items) = u.secret
      /\ ~(Len(u.items) > MaxItems)
  BY <1>1, TreeAssumption DEF Kept
<1>3. /\ E.kind = EncodedKind(u.kind) /\ E.secret = u.secret /\ ~E.truncated
      /\ E.items = [i \in DOMAIN u.items |-> Encoding(u.items[i], d + 1, c)]
  <2>1. /\ E.kind = EncodedKind(u.kind)
        /\ E.secret = u.secret \cap 1..Kept(u.items)
        /\ E.truncated <=> Len(u.items) > MaxItems
        /\ E.items = EncodedItems(u, d, c)
    <3>1. EncodedAs(E, u, d, c)
      BY EncodingForm
    <3> HIDE DEF E
    <3> QED BY <3>1 DEF EncodedAs
  <2> HIDE DEF E
  <2>2. EncodedItems(u, d, c) = [i \in DOMAIN u.items |-> Encoding(u.items[i], d + 1, c)]
    BY <1>1, <1>2 DEF EncodedItems
  <2> QED BY <1>2, <2>1, <2>2
<1>4. E \in Trees
  BY EncodingTree
<1>5. E = [kind |-> EncodedKind(u.kind), items |-> E.items, secret |-> u.secret,
           truncated |-> u.truncated]
  <2> HIDE DEF E
  <2>1. E = [kind |-> E.kind, items |-> E.items, secret |-> E.secret, truncated |-> E.truncated]
        /\ E.truncated \in BOOLEAN
    BY <1>4, TreeForm
  <2>2. u.truncated \in BOOLEAN
    BY TreeForm
  <2>3. E.truncated = u.truncated
    BY <1>3, <2>1, <2>2
  <2> QED BY <1>3, <2>1, <2>3
<1> HIDE DEF E
<1> QED BY <1>3, <1>4, <1>5 DEF E

(* decode on a tree with items.                                            *)
LEMMA DecodeBranch ==
    ASSUME NEW e \in Trees, e.items # <<>>, NEW d \in Nat, NEW c, NEW limit, ~(d >= limit)
    PROVE  DecodeAt(e, d, c, limit) =
               IF e.kind = "enum" THEN Leaf("enum")
               ELSE IF e.kind \in Irreversible \/ AnyFails(e, d + 1, c, limit) THEN Failure
               ELSE DecodedItems(e, d + 1, c, limit)
BY DecodeRec

LEMMA BranchReadsBack ==
    ASSUME NEW c, NEW now, NEW limit, NEW u \in Trees, NEW d \in Nat, d < MaxDepth,
           u.items # <<>>, u.kind \in Branches,
           u.secret \subseteq DOMAIN u.items, ~u.truncated,
           Len(u.items) <= MaxItems, Named(u) = {},
           \A i \in DOMAIN u.items : ReadsBack(u.items[i], d + 1, c, now, limit)
    PROVE  ReadsBack(u, d, c, now, limit)
<1> DEFINE E == Encoding(u, d, c)
           back == DecodeAt(E, d, now, limit)
           inner(i) == DecodeAt(Encoding(u.items[i], d + 1, c), d + 1, now, limit)
           items == [i \in DOMAIN u.items |-> inner(i)]
<1>1. Len(u.items) \in Nat /\ DOMAIN u.items = 1..Len(u.items) /\ Len(u.items) # 0
  BY TreeForm
<1>2. /\ E \in Trees /\ E.kind = EncodedKind(u.kind)
      /\ E.items = [i \in DOMAIN u.items |-> Encoding(u.items[i], d + 1, c)]
      /\ E = [kind |-> EncodedKind(u.kind), items |-> E.items, secret |-> u.secret,
              truncated |-> u.truncated]
  BY LosslessBranch
<1>3. E \in Trees
  BY <1>2
<1>4. E = [kind |-> EncodedKind(u.kind), items |-> E.items, secret |-> u.secret,
           truncated |-> u.truncated]
  BY <1>2
<1>5. DOMAIN E.items = DOMAIN u.items /\ E.items # <<>>
      /\ \A i \in DOMAIN u.items : DecodeAt(E.items[i], d + 1, now, limit) = inner(i)
  <2>1. DOMAIN E.items = DOMAIN u.items
        /\ \A i \in DOMAIN u.items : E.items[i] = Encoding(u.items[i], d + 1, c)
    BY <1>2
  <2>2. E.items # <<>>
    BY <1>1, <2>1, EmptySeq
  <2> QED BY <2>1, <2>2
<1>6. SUFFICES ASSUME ~(d >= limit) PROVE ReadsBack(u, d, c, now, limit)
  <2>1. ASSUME d >= limit PROVE ReadsBack(u, d, c, now, limit)
    <3>1. back = Failure
      BY <1>3, <2>1, DecodeRec
    <3> QED BY <2>1, <3>1, BeyondSplit DEF ReadsBack
  <2> QED BY <2>1
<1>7. back = IF E.kind = "enum" THEN Leaf("enum")
             ELSE IF E.kind \in Irreversible \/ \E i \in DOMAIN u.items : inner(i) = Failure THEN Failure
             ELSE [E EXCEPT !.items = items]
  <2> HIDE DEF E, items, inner, back
  <2>1. back = IF E.kind = "enum" THEN Leaf("enum")
               ELSE IF E.kind \in Irreversible \/ AnyFails(E, d + 1, now, limit) THEN Failure
               ELSE DecodedItems(E, d + 1, now, limit)
    BY <1>3, <1>5, <1>6, DecodeBranch DEF back
  <2>2. DecodedItems(E, d + 1, now, limit) = [E EXCEPT !.items = items]
    <3>1. [i \in DOMAIN E.items |-> DecodeAt(E.items[i], d + 1, now, limit)] = items
      BY <1>5 DEF items
    <3> QED BY <3>1 DEF DecodedItems
  <2>3. AnyFails(E, d + 1, now, limit) <=> \E i \in DOMAIN u.items : inner(i) = Failure
    BY <1>5 DEF AnyFails
  <2> QED BY <2>1, <2>2, <2>3
<1>8. CASE u.kind = "enum"
  <2>1. back = Leaf("enum")
    BY <1>2, <1>7, <1>8 DEF EncodedKind
  <2>2. Normal(u) = Leaf("enum")
    BY <1>8, NormalRec
  <2>3. back # Failure
    BY <2>1, FailureForm
  <2> QED BY <2>1, <2>2, <2>3 DEF ReadsBack
<1>9. CASE u.kind \in Lasting
  <2>1. E.kind # "enum" /\ E.kind \in Irreversible
    BY <1>2, <1>9 DEF EncodedKind, Irreversible, Lasting
  <2>2. back = Failure
    BY <1>7, <2>1
  <2> QED BY <1>9, <2>2, ReasonsSplit DEF ReadsBack
<1>10. CASE u.kind \notin {"enum"} \cup Lasting
  <2>1. E.kind \notin Irreversible \cup {"enum", "failure"} /\ EncodedKind(u.kind) = BaseKind(u.kind)
    BY <1>2, <1>10 DEF EncodedKind, BaseKind, Branches, Containers, Keyed, Enums, Irreversible, Unsafe,
                        Lasting
  <2>2. CASE \E i \in DOMAIN u.items : inner(i) = Failure
    <3>1. PICK i \in DOMAIN u.items : inner(i) = Failure
      BY <2>2
    <3>2. \/ Changed(u.items[i], d + 1, c, now) \/ NoWayBack(u.items[i], d + 1)
          \/ BeyondLimit(u.items[i], d + 1, limit)
      BY <3>1 DEF ReadsBack
    <3>3. back = Failure
      BY <1>7, <2>1, <2>2
    <3>4. Changed(u, d, c, now) \/ NoWayBack(u, d) \/ BeyondLimit(u, d, limit)
      BY <3>2, ReasonsSplit, BeyondSplit
    <3> QED BY <3>3, <3>4 DEF ReadsBack
  <2>3. CASE \A i \in DOMAIN u.items : inner(i) # Failure
    <3>1. back = [E EXCEPT !.items = items]
      BY <1>7, <2>1, <2>3
    <3>2. back = [kind |-> EncodedKind(u.kind), items |-> items, secret |-> u.secret,
                  truncated |-> u.truncated]
      BY <1>4, <3>1, ItemsReplaced
    <3>3. back.kind = EncodedKind(u.kind)
      BY <3>2
    <3>4. back # Failure
      BY <1>2, <2>1, <3>3, FailureForm
    <3>5. CASE \E i \in DOMAIN u.items : Changed(u.items[i], d + 1, c, now)
      BY <3>4, <3>5, ReasonsSplit DEF ReadsBack
    <3>6. CASE \A i \in DOMAIN u.items : ~Changed(u.items[i], d + 1, c, now)
      <4>1. \A i \in DOMAIN u.items : inner(i) = Normal(u.items[i])
        BY <2>3, <3>6 DEF ReadsBack
      <4>2. items = [i \in DOMAIN u.items |-> Normal(u.items[i])]
        BY <4>1
      <4>3. Normal(u) = [u EXCEPT !.kind = BaseKind(u.kind), !.items = items]
        BY <1>10, <4>2, NormalRec
      <4>4. u = [kind |-> u.kind, items |-> u.items, secret |-> u.secret, truncated |-> u.truncated]
        BY TreeForm
      <4>5. Normal(u) = [kind |-> BaseKind(u.kind), items |-> items, secret |-> u.secret,
                         truncated |-> u.truncated]
        BY <4>3, <4>4, BothReplaced
      <4>6. back = Normal(u)
        BY <2>1, <3>2, <4>5
      <4> QED BY <3>4, <4>6 DEF ReadsBack
    <3> QED BY <3>5, <3>6
  <2> QED BY <2>2, <2>3
<1> QED BY <1>8, <1>9, <1>10

LEMMA LosslessReadsBack ==
    ASSUME NEW c, NEW now, NEW limit, NEW v \in Trees, NEW depth \in Nat,
           Plainly(v, depth), Losslessly(v, depth, c)
    PROVE  ReadsBack(v, depth, c, now, limit)
<1> DEFINE T == {u \in Trees : \A d \in Nat :
                    Plainly(u, d) /\ Losslessly(u, d, c) => ReadsBack(u, d, c, now, limit)}
<1>1. ASSUME NEW u \in Trees, \A i \in DOMAIN u.items : u.items[i] \in T
      PROVE  u \in T
  <2>1. SUFFICES ASSUME NEW d \in Nat, Plainly(u, d), Losslessly(u, d, c)
                 PROVE  ReadsBack(u, d, c, now, limit)
    OBVIOUS
  <2>2. /\ PlainPart(Part(u, d)) /\ \A i \in DOMAIN u.items : Plainly(u.items[i], d + 1)
        /\ LosslessPart(Part(u, d), c)
        /\ \A i \in DOMAIN u.items : Losslessly(u.items[i], d + 1, c)
    BY <2>1, PartsSplit
  <2>3. \A i \in DOMAIN u.items : ReadsBack(u.items[i], d + 1, c, now, limit)
    <3>1. d + 1 \in Nat
      BY <2>1
    <3> QED BY <1>1, <2>2, <3>1
  <2> HIDE DEF T
  <2>4. /\ d < MaxDepth
        /\ Len(u.items) <= MaxItems
        /\ Named(u) = {}
        /\ u.kind \notin HiddenKinds
        /\ Encodable(u.kind, c)
    BY <2>2, PartForm
  <2>5. /\ u.kind \in PlainLeaves \cup Branches
        /\ u.kind \in PlainLeaves => u.items = <<>>
        /\ u.secret # {} => u.kind \in Keyed \/ d = 0
        /\ u.kind \in Enums => Len(u.items) = 1
        /\ u.secret \subseteq DOMAIN u.items
        /\ ~u.truncated
    BY <2>2, PartForm
  <2>6. DOMAIN u.items = 1..Len(u.items) /\ (Len(u.items) = 0 <=> u.items = <<>>)
    BY TreeForm
  <2>7. CASE u.items = <<>>
    <3>1. u.secret = {} /\ u.kind \notin Enums
      BY <2>5, <2>6, <2>7
    <3>2. u.kind \in PlainLeaves \cup Containers
      BY <2>5, <3>1 DEF Branches
    <3> QED BY <2>1, <2>4, <2>5, <2>7, <3>1, <3>2, LeafReadsBack
  <2>8. CASE u.items # <<>>
    <3>1. u.kind \in Branches
      BY <2>5, <2>8
    <3> QED BY <2>1, <2>3, <2>4, <2>5, <2>8, <3>1, BranchReadsBack
  <2> QED BY <2>7, <2>8
<1>2. v \in T
  <2> HIDE DEF T
  <2>1. Trees \subseteq T
    BY <1>1, TreeInduction
  <2> QED BY <2>1
<1> QED BY <1>2

-----------------------------------------------------------------------------
(* The runner, whatever the functions compute.                             *)

(* What the capture may have put into replay.json. *)
Written ==
    IF wrote.case = "not_importable" THEN {NoReplay}
    ELSE {BuildReplay(wrote.value, wrote.codec, wrote.size, written) : written \in Sizes}

(* A package is the capture's, or it is none. *)
OfTheCapture(package) ==
    IF package.there THEN package.replay \in Written ELSE package.replay = NoReplay

NothingYet ==
    IF wrote = NoCapture THEN disk = NoPackage /\ run = NoRun ELSE wrote.value \in Values

(* How far a run has come, and what it has found out on the way. *)
Verified == {"payload", "schema", "decode", "resolve", "called", "inspected"}
ProgressAt(step) ==
    /\ step \in {"authorize", "load"} => run.package = NoPackage
    /\ step \in {"load", "verify"} \cup Verified => run.mode # "run"
    /\ step \in {"verify"} \cup Verified => run.package.there
    /\ step \in Verified => run.package.intact
    /\ step \in {"decode", "resolve", "called"} =>
          run.mode = "authorized_run" /\ run.package.replay.replayable
    /\ step \in {"resolve", "called"} => run.arguments = ReadBack /\ ReadBack # Failed

Progress == ProgressAt(run.step)

IInv ==
    /\ TypeOK
    /\ OfTheCapture(disk) /\ OfTheCapture(run.package)
    /\ NothingYet /\ Progress /\ NothingBeforeVerified /\ FailureExplained

-----------------------------------------------------------------------------
(* Facts about packages.                                                   *)

LEMMA ReasonForm ==
    ASSUME NEW written \in Sizes
    PROVE  Reason(written) \in Replays /\ Reason(written).replayable = FALSE
<1>1. Reason(written).replayable = FALSE
  BY DEF Reason, NoReplay
<1> QED BY <1>1 DEF Replays

LEMMA PayloadForm ==
    ASSUME NEW v \in Values, NEW c \in Codecs, NEW written \in Sizes
    PROVE  Payload(v, c, written) \in Replays
BY DEF Replays

(* The sizes a payload may have, and the limits on it.                     *)
LEMMA SizeForm ==
    ASSUME NEW replay \in Replays
    PROVE  replay.written \in Nat
<1>1. CASE replay = NoReplay
  BY <1>1 DEF NoReplay
<1>2. ASSUME NEW written \in Sizes, replay = Reason(written) PROVE replay.written \in Nat
  <2>1. Reason(written).written = written
    BY DEF Reason, NoReplay
  <2> QED BY <1>2, <2>1, RunnerAssumption
<1>3. ASSUME NEW v \in Values, NEW c \in Codecs, NEW written \in Sizes,
             replay = Payload(v, c, written)
      PROVE  replay.written \in Nat
  <2>1. Payload(v, c, written).written = written
    BY DEF Payload
  <2> QED BY <1>3, <2>1, RunnerAssumption
<1> QED BY <1>1, <1>2, <1>3 DEF Replays

LEMMA LimitForm ==
    ASSUME NEW limits \in Limits
    PROVE  limits.payload \in Nat /\ limits.depth \in Nat
BY RunnerAssumption DEF Configurations

LEMMA EventsForm == MaxEvents \in Nat
BY RunnerAssumption, Zenon

LEMMA SizesForm == \A n \in Sizes \cup {0} : n \in Nat
<1>1. \A n \in Sizes : n \in Nat
  BY RunnerAssumption
<1>2. 0 \in Nat
  OBVIOUS
<1> QED BY <1>1, <1>2, Zenon

LEMMA ReadingForm ==
    ASSUME NEW v \in Values, NEW c \in Codecs, NEW d \in Codecs, NEW limits \in Limits
    PROVE  FromReplay(ToReplay(v, c), d, limits.depth) \in Readings
BY DEF Readings

LEMMA Constants ==
    /\ NoReplay \in Replays /\ NoPackage \in Packages
    /\ NoReplay.replayable = FALSE /\ NoPackage.there = FALSE /\ NoPackage.replay = NoReplay
    /\ NoCapture.case = "not_importable"
    /\ NoCapture \in Captures
    /\ NoRun.step = "idle" /\ NoRun.package = NoPackage /\ NoRun.imported = FALSE
    /\ NoRun \in [step : Steps, mode : Modes, codec : Codecs, limits : Limits,
                  package : Packages, imported : BOOLEAN, arguments : Readings]
<1>1. NoReplay \in Replays /\ NoReplay.replayable = FALSE
  BY DEF Replays, NoReplay
<1>2. /\ NoPackage \in Packages
      /\ NoPackage.there = FALSE /\ NoPackage.replay = NoReplay
  BY <1>1 DEF Packages, NoPackage
<1>3. NoCapture \in Captures /\ NoCapture.case = "not_importable"
  BY DEF Captures, NoCapture, Codecs, Cases
<1>4. NoValue \in Readings /\ NoCodec \in Codecs
  BY DEF Readings, Codecs
<1>5. /\ NoRun.step = "idle" /\ NoRun.package = NoPackage /\ NoRun.imported = FALSE
      /\ NoRun \in [step : Steps, mode : Modes, codec : Codecs, limits : Limits,
                    package : Packages, imported : BOOLEAN, arguments : Readings]
  BY <1>2, <1>4, RunnerAssumption DEF NoRun, Steps, Modes
<1> QED BY <1>1, <1>2, <1>3, <1>5

(* Whatever is said of a replay.json that may be replayed, is said of what *)
(* encode has made of the arguments.                                       *)
LEMMA WrittenForm ==
    ASSUME TypeOK, NothingYet, NEW replay \in Written
    PROVE  /\ replay \in Replays
           /\ replay.replayable =>
                 /\ replay.present
                 /\ replay.arguments = ToReplay(wrote.value, wrote.codec)
                 /\ ~Issue(ToReplay(wrote.value, wrote.codec))
                 /\ wrote.value \in Values
<1>1. CASE wrote.case = "not_importable"
  <2>1. replay = NoReplay
    BY <1>1 DEF Written
  <2> QED BY <2>1, Constants
<1>2. CASE wrote.case # "not_importable"
  <2>1. PICK written \in Sizes :
            replay = BuildReplay(wrote.value, wrote.codec, wrote.size, written)
    BY <1>2 DEF Written
  <2>2. wrote.value \in Values /\ wrote.codec \in Codecs
    <3>1. wrote \in Captures
      BY DEF TypeOK
    <3>2. wrote # NoCapture
      BY <1>2, Constants
    <3>3. wrote.value \in Values
      BY <3>2 DEF NothingYet
    <3> QED BY <3>1, <3>3 DEF Captures
  <2> DEFINE refused == Issue(ToReplay(wrote.value, wrote.codec)) \/ wrote.size > MaxPayload
  <2>3. CASE refused
    <3>1. replay = Reason(written)
      BY <2>1, <2>3 DEF BuildReplay
    <3> QED BY <3>1, ReasonForm
  <2>4. CASE ~refused
    <3>1. replay = Payload(wrote.value, wrote.codec, written)
      BY <2>1, <2>4 DEF BuildReplay
    <3>2. replay \in Replays
      BY <2>2, <3>1, PayloadForm
    <3>3. replay.present /\ replay.arguments = ToReplay(wrote.value, wrote.codec)
      BY <3>1 DEF Payload
    <3> QED BY <2>2, <2>4, <3>2, <3>3
  <2> QED BY <2>3, <2>4
<1> QED BY <1>1, <1>2

(* What does not touch the capture leaves what it wrote.                   *)
LEMMA WrittenStays == ASSUME wrote' = wrote PROVE Written' = Written
BY DEF Written, BuildReplay, Payload, Reason, NoReplay

LEMMA ReadBackStays ==
    ASSUME wrote' = wrote, run'.codec = run.codec, run'.limits = run.limits
    PROVE  ReadBack' = ReadBack
BY DEF ReadBack

ExplainedAt(step) ==
    step = "failed" /\ run.mode = "authorized_run" =>
        \/ ~run.package.there \/ ~run.package.intact \/ ~run.package.replay.replayable
        \/ ~run.limits.files
        \/ run.package.replay.written > run.limits.payload
        \/ target # "there"
        \/ ReadBack = Failed

(* The package of a run, once it is loaded, is what the capture wrote.     *)
LEMMA Loaded ==
    ASSUME IInv, run.package.there
    PROVE  /\ run.package.replay \in Written
           /\ run.package.replay.replayable =>
                 /\ run.package.replay.present
                 /\ run.package.replay.arguments = ToReplay(wrote.value, wrote.codec)
                 /\ ~Issue(ToReplay(wrote.value, wrote.codec))
                 /\ wrote.value \in Values
<1>1. TypeOK /\ NothingYet /\ OfTheCapture(run.package)
  BY DEF IInv
<1>2. run.package.replay \in Written
  BY <1>1 DEF OfTheCapture
<1> QED BY <1>1, <1>2, WrittenForm

-----------------------------------------------------------------------------
(* A step of a run that goes on or fails keeps everything but, perhaps,    *)
(* Progress, and when it fails FailureExplained.                           *)

LEMMA StepFields ==
    ASSUME TypeOK, NEW s \in Steps, run' = [run EXCEPT !.step = s]
    PROVE  /\ run'.step = s /\ run'.mode = run.mode /\ run'.codec = run.codec
           /\ run'.package = run.package /\ run'.imported = run.imported
           /\ run'.limits = run.limits /\ run'.arguments = run.arguments
           /\ run' \in [step : Steps, mode : Modes, codec : Codecs, limits : Limits,
                        package : Packages, imported : BOOLEAN, arguments : Readings]
BY DEF TypeOK

LEMMA StepKeeps ==
    ASSUME IInv, run.step # "idle", NEW s \in Steps, run' = [run EXCEPT !.step = s], Only
    PROVE  /\ TypeOK' /\ OfTheCapture(disk)' /\ OfTheCapture(run.package)'
           /\ NothingYet' /\ NothingBeforeVerified'
           /\ ProgressAt(s) => Progress'
           /\ ExplainedAt(s) => FailureExplained'
<1>1. TypeOK /\ OfTheCapture(disk) /\ OfTheCapture(run.package) /\ NothingYet
      /\ NothingBeforeVerified /\ FailureExplained
  BY DEF IInv
<1>2. /\ codec' = codec /\ wrote' = wrote /\ disk' = disk
      /\ target' = target /\ events' = events
  BY DEF Only
<1>3. /\ run'.step = s /\ run'.mode = run.mode /\ run'.codec = run.codec
      /\ run'.package = run.package /\ run'.imported = run.imported
      /\ run'.limits = run.limits /\ run'.arguments = run.arguments
      /\ run' \in [step : Steps, mode : Modes, codec : Codecs, limits : Limits,
                   package : Packages, imported : BOOLEAN, arguments : Readings]
  BY <1>1, StepFields
<1>4. TypeOK'
  BY <1>1, <1>2, <1>3 DEF TypeOK
<1>5. Written' = Written
  BY <1>2, WrittenStays
<1>6. OfTheCapture(disk)' /\ OfTheCapture(run.package)'
  BY <1>1, <1>2, <1>3, <1>5 DEF OfTheCapture
<1>7. NothingYet'
  <2>1. wrote # NoCapture
    BY <1>1 DEF NothingYet, NoRun
  <2> QED BY <1>1, <1>2, <2>1 DEF NothingYet, NoCapture
<1>8. NothingBeforeVerified'
  BY <1>1, <1>3 DEF NothingBeforeVerified
<1>9. ReadBack' = ReadBack
  BY <1>2, <1>3, ReadBackStays
<1>10. ProgressAt(s) => Progress'
  BY <1>3, <1>9 DEF Progress, ProgressAt
<1>11. ExplainedAt(s) => FailureExplained'
  BY <1>2, <1>3, <1>9 DEF FailureExplained, ExplainedAt
<1> QED BY <1>4, <1>6, <1>7, <1>8, <1>10, <1>11

-----------------------------------------------------------------------------
(* The runner's steps.                                                     *)

LEMMA AuthorizeKeeps == ASSUME IInv, Authorize PROVE IInv'
<1> DEFINE s == IF run.mode # "run" THEN "load" ELSE "failed"
<1>1. run.step = "authorize"
  BY DEF Authorize, Step
<1>2. run' = [run EXCEPT !.step = s] /\ Only /\ s \in Steps
  BY DEF Authorize, Step, Fail, Steps
<1>3. Progress
  BY DEF IInv
<1> HIDE DEF s
<1>4. ProgressAt(s) /\ ExplainedAt(s)
  BY <1>1, <1>3 DEF s, Progress, ProgressAt, Verified, ExplainedAt
<1> QED BY <1>1, <1>2, <1>4, StepKeeps DEF IInv

LEMMA VerifyKeeps == ASSUME IInv, VerifyFiles PROVE IInv'
<1> DEFINE s == IF run.package.intact THEN "payload" ELSE "failed"
<1>1. run.step = "verify"
  BY DEF VerifyFiles, Step
<1>2. run' = [run EXCEPT !.step = s] /\ Only /\ s \in Steps
  BY DEF VerifyFiles, Step, Fail, Steps
<1>3. Progress
  BY DEF IInv
<1> HIDE DEF s
<1>4. ProgressAt(s) /\ ExplainedAt(s)
  BY <1>1, <1>3 DEF s, Progress, ProgressAt, Verified, ExplainedAt
<1> QED BY <1>1, <1>2, <1>4, StepKeeps DEF IInv

LEMMA LoadReplayKeeps == ASSUME IInv, LoadReplayData PROVE IInv'
<1> DEFINE replay == run.package.replay
           s == IF replay.present /\ replay.written <= run.limits.payload THEN "schema" ELSE "failed"
<1>1. run.step = "payload"
  BY DEF LoadReplayData, Step
<1>2. run' = [run EXCEPT !.step = s] /\ Only /\ s \in Steps
  BY DEF LoadReplayData, Step, Fail, Steps
<1>3. Progress
  BY DEF IInv
<1>4. replay.replayable => replay.present
  <2>1. run.package.there
    BY <1>1, <1>3 DEF Progress, ProgressAt, Verified
  <2> QED BY <2>1, Loaded
<1>5. replay.written \in Nat /\ run.limits.payload \in Nat
  <2>1. run.package \in Packages /\ run.limits \in Limits
    BY DEF IInv, TypeOK
  <2> QED BY <2>1, SizeForm, LimitForm DEF Packages
<1> HIDE DEF s
<1>6. ProgressAt(s)
  BY <1>1, <1>3 DEF s, Progress, ProgressAt, Verified
<1>7. ExplainedAt(s)
  <2>1. CASE replay.present /\ replay.written <= run.limits.payload
    BY <2>1 DEF s, ExplainedAt
  <2>2. CASE ~replay.present
    BY <1>4, <2>2 DEF ExplainedAt
  <2>3. CASE ~(replay.written <= run.limits.payload)
    <3>1. replay.written > run.limits.payload
      BY <1>5, <2>3
    <3> QED BY <3>1 DEF ExplainedAt
  <2> QED BY <2>1, <2>2, <2>3
<1> QED BY <1>1, <1>2, <1>6, <1>7, StepKeeps DEF IInv

LEMMA ValidateKeeps == ASSUME IInv, ValidateSchema PROVE IInv'
<1> DEFINE s == IF run.mode = "inspect" THEN "inspected"
                ELSE IF run.package.replay.replayable THEN "decode" ELSE "failed"
<1>1. run.step = "schema"
  BY DEF ValidateSchema, Step
<1>2. run' = [run EXCEPT !.step = s] /\ Only /\ s \in Steps
  BY DEF ValidateSchema, Step, Fail, Steps
<1>3. Progress
  BY DEF IInv
<1>4. run.mode \in Modes
  BY DEF IInv, TypeOK
<1> HIDE DEF s
<1>5. ProgressAt(s) /\ ExplainedAt(s)
  BY <1>1, <1>3, <1>4 DEF s, Progress, ProgressAt, Verified, ExplainedAt, Modes
<1> QED BY <1>1, <1>2, <1>5, StepKeeps DEF IInv

(* load_package_files has read the whole package at once, or nothing.      *)
LEMMA LoadKeeps == ASSUME IInv, LoadFiles PROVE IInv'
<1>1. TypeOK /\ OfTheCapture(disk) /\ NothingYet /\ NothingBeforeVerified /\ Progress
  BY DEF IInv
<1>2. run.step = "load"
  BY DEF LoadFiles
<1> DEFINE s == IF disk.there /\ run.limits.files THEN "verify" ELSE "failed"
<1>3. run' = [run EXCEPT !.step = s, !.package = disk] /\ s \in Steps
  BY DEF LoadFiles, Steps
<1>4. /\ codec' = codec /\ wrote' = wrote /\ disk' = disk
      /\ target' = target /\ events' = events
  BY DEF LoadFiles, Only
<1> HIDE DEF s
<1>5. /\ run'.step = s /\ run'.mode = run.mode /\ run'.package = disk
      /\ run'.limits = run.limits /\ run'.imported = run.imported
      /\ run' \in [step : Steps, mode : Modes, codec : Codecs, limits : Limits,
                   package : Packages, imported : BOOLEAN, arguments : Readings]
  BY <1>1, <1>3 DEF TypeOK
<1>6. TypeOK'
  BY <1>1, <1>4, <1>5 DEF TypeOK
<1>7. Written' = Written
  BY <1>4, WrittenStays
<1>8. OfTheCapture(disk)' /\ OfTheCapture(run.package)'
  BY <1>1, <1>4, <1>5, <1>7 DEF OfTheCapture
<1>9. NothingYet'
  <2>1. wrote # NoCapture
    BY <1>1, <1>2 DEF NothingYet, NoRun
  <2> QED BY <1>1, <1>4, <2>1 DEF NothingYet, NoCapture
<1>10. ~run.imported
  BY <1>1, <1>2, Constants DEF NothingBeforeVerified, Progress, ProgressAt
<1>11. NothingBeforeVerified'
  BY <1>5, <1>10 DEF NothingBeforeVerified
<1>12. FailureExplained'
  BY <1>5 DEF s, FailureExplained
<1>13. Progress'
  BY <1>1, <1>2, <1>5 DEF s, Progress, ProgressAt, Verified
<1> QED BY <1>6, <1>8, <1>9, <1>11, <1>12, <1>13 DEF IInv

(* decode is given what the capture wrote, and the codecs of the runner.   *)
LEMMA DecodeKeeps == ASSUME IInv, DecodeArguments PROVE IInv'
<1>1. TypeOK /\ OfTheCapture(disk) /\ OfTheCapture(run.package) /\ NothingYet /\ Progress
  BY DEF IInv
<1>2. run.step = "decode" /\ Only
  BY DEF DecodeArguments
<1>3. /\ run.package.there /\ run.package.intact /\ run.package.replay.replayable
      /\ run.mode = "authorized_run"
  BY <1>1, <1>2 DEF Progress, ProgressAt, Verified
<1>4. /\ run.package.replay.arguments = ToReplay(wrote.value, wrote.codec)
      /\ wrote.value \in Values
  BY <1>3, Loaded
<1>5. wrote.codec \in Codecs /\ run.codec \in Codecs /\ run.limits \in Limits
  BY <1>1 DEF TypeOK, Captures
<1>6. ReadBack \in Readings /\ ImportedBy(ToReplay(wrote.value, wrote.codec)) \in BOOLEAN
  BY <1>4, <1>5, ReadingForm, RunnerAssumption DEF ReadBack
<1>7. \/ run' = [run EXCEPT !.step = IF ReadBack = Failed THEN "failed" ELSE "resolve",
                            !.imported = ImportedBy(ToReplay(wrote.value, wrote.codec)),
                            !.arguments = ReadBack]
      \/ MissingClass
  BY <1>4 DEF DecodeArguments, ReadBack
<1>8. PICK s \in Steps, i \in BOOLEAN, args \in Readings :
          /\ run' = [run EXCEPT !.step = s, !.imported = i, !.arguments = args]
          /\ \/ s = "failed" /\ (ReadBack = Failed \/ target # "there")
             \/ s = "resolve" /\ args = ReadBack /\ ReadBack # Failed
  <2>1. CASE MissingClass
    <3>1. run' = [run EXCEPT !.step = "failed", !.imported = TRUE] /\ target # "there"
      BY <2>1 DEF MissingClass
    <3>2. run.arguments \in Readings
      BY <1>1 DEF TypeOK
    <3>3. run' = [run EXCEPT !.step = "failed", !.imported = TRUE, !.arguments = run.arguments]
      BY <1>1, <3>1 DEF TypeOK
    <3> QED BY <3>1, <3>2, <3>3 DEF Steps
  <2>2. CASE ~MissingClass
    <3>1. run' = [run EXCEPT !.step = IF ReadBack = Failed THEN "failed" ELSE "resolve",
                             !.imported = ImportedBy(ToReplay(wrote.value, wrote.codec)),
                             !.arguments = ReadBack]
      BY <1>7, <2>2
    <3>2. ASSUME ReadBack = Failed
          PROVE  run' = [run EXCEPT !.step = "failed",
                                    !.imported = ImportedBy(ToReplay(wrote.value, wrote.codec)),
                                    !.arguments = ReadBack]
      BY <3>1, <3>2
    <3>3. ASSUME ReadBack # Failed
          PROVE  run' = [run EXCEPT !.step = "resolve",
                                    !.imported = ImportedBy(ToReplay(wrote.value, wrote.codec)),
                                    !.arguments = ReadBack]
      BY <3>1, <3>3
    <3>4. "failed" \in Steps /\ "resolve" \in Steps
      BY DEF Steps
    <3> QED BY <1>6, <3>2, <3>3, <3>4
  <2> QED BY <2>1, <2>2
<1>9. /\ run'.step = s /\ run'.mode = run.mode /\ run'.codec = run.codec
      /\ run'.package = run.package /\ run'.limits = run.limits /\ run'.arguments = args
      /\ run' \in [step : Steps, mode : Modes, codec : Codecs, limits : Limits,
                   package : Packages, imported : BOOLEAN, arguments : Readings]
  BY <1>1, <1>8 DEF TypeOK
<1>10. /\ codec' = codec /\ wrote' = wrote /\ disk' = disk
       /\ target' = target /\ events' = events
  BY <1>2 DEF Only
<1>11. TypeOK'
  BY <1>1, <1>9, <1>10 DEF TypeOK
<1>12. Written' = Written /\ ReadBack' = ReadBack
  BY <1>9, <1>10, WrittenStays, ReadBackStays
<1>13. OfTheCapture(disk)' /\ OfTheCapture(run.package)'
  BY <1>1, <1>9, <1>10, <1>12 DEF OfTheCapture
<1>14. NothingYet'
  <2>1. wrote # NoCapture
    BY <1>1, <1>2 DEF NothingYet, NoRun
  <2> QED BY <1>1, <1>10, <2>1 DEF NothingYet, NoCapture
<1>15. NothingBeforeVerified'
  BY <1>3, <1>9 DEF NothingBeforeVerified
<1>16. Progress'
  BY <1>3, <1>8, <1>9, <1>12 DEF Progress, ProgressAt, Verified
<1>17. FailureExplained'
  BY <1>8, <1>9, <1>10, <1>12 DEF FailureExplained
<1> QED BY <1>11, <1>13, <1>14, <1>15, <1>16, <1>17 DEF IInv

LEMMA ResolveKeeps == ASSUME IInv, ResolveAndCall PROVE IInv'
<1>1. TypeOK /\ OfTheCapture(disk) /\ OfTheCapture(run.package) /\ NothingYet /\ Progress
  BY DEF IInv
<1>2. run.step = "resolve" /\ Only
  BY DEF ResolveAndCall
<1>3. /\ run.package.there /\ run.package.intact /\ run.package.replay.replayable
      /\ run.mode = "authorized_run" /\ run.arguments = ReadBack /\ ReadBack # Failed
  BY <1>1, <1>2 DEF Progress, ProgressAt, Verified
<1> DEFINE s == IF target = "function_moved" THEN "failed" ELSE "called"
<1>4. run' = [run EXCEPT !.step = s, !.imported = TRUE] /\ s \in Steps
  BY DEF ResolveAndCall, Steps
<1> HIDE DEF s
<1>5. /\ run'.step = s /\ run'.mode = run.mode /\ run'.codec = run.codec
      /\ run'.package = run.package /\ run'.limits = run.limits
      /\ run'.arguments = run.arguments
      /\ run' \in [step : Steps, mode : Modes, codec : Codecs, limits : Limits,
                   package : Packages, imported : BOOLEAN, arguments : Readings]
  BY <1>1, <1>4 DEF TypeOK
<1>6. /\ codec' = codec /\ wrote' = wrote /\ disk' = disk
      /\ target' = target /\ events' = events
  BY <1>2 DEF Only
<1>7. TypeOK'
  BY <1>1, <1>5, <1>6 DEF TypeOK
<1>8. Written' = Written /\ ReadBack' = ReadBack
  BY <1>5, <1>6, WrittenStays, ReadBackStays
<1>9. OfTheCapture(disk)' /\ OfTheCapture(run.package)'
  BY <1>1, <1>5, <1>6, <1>8 DEF OfTheCapture
<1>10. NothingYet'
  <2>1. wrote # NoCapture
    BY <1>1, <1>2 DEF NothingYet, NoRun
  <2> QED BY <1>1, <1>6, <2>1 DEF NothingYet, NoCapture
<1>11. NothingBeforeVerified'
  BY <1>3, <1>5 DEF NothingBeforeVerified
<1>12. Progress'
  BY <1>3, <1>5, <1>8 DEF s, Progress, ProgressAt, Verified
<1>13. FailureExplained'
  BY <1>1, <1>5, <1>6 DEF s, FailureExplained, TypeOK
<1> QED BY <1>7, <1>9, <1>10, <1>11, <1>12, <1>13 DEF IInv

(* A run that has just started has found out nothing.                      *)
LEMMA StartKeeps ==
    ASSUME IInv, wrote # NoCapture, Only, NEW mode \in Modes, NEW c \in Codecs, NEW l \in Limits,
           run' = [NoRun EXCEPT !.step = "authorize", !.mode = mode, !.codec = c, !.limits = l]
    PROVE  IInv'
<1>1. TypeOK /\ OfTheCapture(disk) /\ NothingYet
  BY DEF IInv
<1>2. /\ codec' = codec /\ wrote' = wrote /\ disk' = disk
      /\ target' = target /\ events' = events
  BY DEF Only
<1>3. /\ run'.step = "authorize" /\ run'.package = NoPackage /\ run'.imported = FALSE
      /\ run' \in [step : Steps, mode : Modes, codec : Codecs, limits : Limits,
                   package : Packages, imported : BOOLEAN, arguments : Readings]
  BY Constants DEF Steps
<1>4. TypeOK'
  BY <1>1, <1>2, <1>3 DEF TypeOK
<1>5. Written' = Written
  BY <1>2, WrittenStays
<1>6. OfTheCapture(disk)' /\ OfTheCapture(run.package)'
  BY <1>1, <1>2, <1>3, <1>5, Constants DEF OfTheCapture
<1>7. NothingYet'
  BY <1>1, <1>2 DEF NothingYet, NoCapture
<1>8. Progress' /\ NothingBeforeVerified' /\ FailureExplained'
  BY <1>3 DEF Progress, ProgressAt, Verified, NothingBeforeVerified, FailureExplained
<1> QED BY <1>4, <1>6, <1>7, <1>8 DEF IInv

LEMMA NewRunKeeps ==
    ASSUME IInv, NEW mode \in Modes, NEW limits \in Limits, NewRun(mode, limits)
    PROVE  IInv'
<1>1. codec \in Codecs
  BY DEF IInv, TypeOK
<1> QED BY <1>1, StartKeeps DEF NewRun

LEMMA NewCommandKeeps == ASSUME IInv, NewCommand PROVE IInv'
<1>1. "authorized_run" \in Modes /\ NoCodec \in Codecs /\ DefaultLimits \in Limits
  BY RunnerAssumption DEF Modes, Codecs
<1>2. run' = [NoRun EXCEPT !.step = "authorize", !.mode = "authorized_run", !.codec = NoCodec,
                           !.limits = DefaultLimits]
  <2>1. run' = [NoRun EXCEPT !.step = "authorize", !.mode = "authorized_run"]
    BY DEF NewCommand
  <2>2. NoRun.codec = NoCodec /\ NoRun.limits = DefaultLimits
    BY DEF NoRun
  <2>3. NoRun = [NoRun EXCEPT !.codec = NoCodec, !.limits = DefaultLimits]
    BY <2>2, Constants
  <2> QED BY <2>1, <2>2, Constants
<1> QED BY <1>1, <1>2, StartKeeps DEF NewCommand

-----------------------------------------------------------------------------
(* The capture, and what happens after it.                                 *)

LEMMA CaptureKeeps ==
    ASSUME IInv, NEW v \in Values, NEW case \in Cases, Capture(v, case)
    PROVE  IInv'
<1>1. TypeOK /\ NothingYet
  BY DEF IInv
<1>2. /\ wrote = NoCapture
      /\ codec' = codec /\ target' = target /\ run' = run /\ events' = events
  BY DEF Capture
<1> DEFINE args == IF case = "arguments_off" THEN NothingCaptured ELSE ToArguments(v)
           replayOf(size, written) ==
               IF case = "not_importable" THEN NoReplay ELSE BuildReplay(v, codec, size, written)
<1>3. PICK size \in Sizes, written \in Sizes :
          /\ wrote' = [value |-> v, codec |-> codec, case |-> case, size |-> size]
          /\ disk' = [there |-> TRUE, intact |-> TRUE, replay |-> replayOf(size, written),
                      arguments |-> args]
  BY DEF Capture
<1>4. run = NoRun
  BY <1>1, <1>2 DEF NothingYet
<1>5. /\ wrote' \in Captures
      /\ wrote'.value = v /\ wrote'.codec = codec /\ wrote'.case = case /\ wrote'.size = size
  BY <1>3, <1>1 DEF TypeOK, Captures
<1>6. wrote' # NoCapture
  <2>1. NoCapture.value = NoValue
    BY DEF NoCapture
  <2>2. NoValue \notin Values
    BY RunnerAssumption
  <2> QED BY <1>5, <2>1, <2>2
<1> DEFINE replay == replayOf(size, written)
<1>7. disk' = [there |-> TRUE, intact |-> TRUE, replay |-> replay, arguments |-> args]
  BY <1>3
<1>8. replay \in Replays
  <2>1. codec \in Codecs
    BY <1>1 DEF TypeOK
  <2>2. replay \in {NoReplay, Reason(written), Payload(v, codec, written)}
    BY DEF BuildReplay
  <2>3. /\ NoReplay \in Replays /\ Reason(written) \in Replays
        /\ Payload(v, codec, written) \in Replays
    BY <2>1, Constants, ReasonForm, PayloadForm
  <2> QED BY <2>2, <2>3, Zenon
<1>9. args \in {NoValue, NothingCaptured} \cup {ToArguments(w) : w \in Values}
  OBVIOUS
<1>10. replay \in Written'
  <2>1. CASE case = "not_importable"
    BY <1>5, <2>1 DEF Written, NoReplay
  <2>2. CASE case # "not_importable"
    <3>1. Written' = {BuildReplay(v, codec, size, n) : n \in Sizes}
      BY <1>5, <2>2 DEF Written, BuildReplay, Reason, Payload, NoReplay
    <3>2. replay = BuildReplay(v, codec, size, written)
      BY <2>2
    <3> HIDE DEF replay
    <3> QED BY <3>1, <3>2
  <2> QED BY <2>1, <2>2
<1> HIDE DEF replay, args
<1>11. disk' \in Packages /\ disk'.there = TRUE /\ disk'.replay = replay
  BY <1>7, <1>8, <1>9 DEF Packages
<1>12. TypeOK'
  BY <1>1, <1>2, <1>5, <1>11 DEF TypeOK
<1>13. OfTheCapture(disk)' /\ OfTheCapture(run.package)'
  BY <1>2, <1>4, <1>10, <1>11, Constants DEF OfTheCapture
<1>14. NothingYet'
  BY <1>5, <1>6 DEF NothingYet, NoCapture
<1>15. run'.step = "idle" /\ run'.imported = FALSE
  BY <1>2, <1>4, Constants
<1>16. Progress' /\ NothingBeforeVerified' /\ FailureExplained'
  BY <1>15 DEF Progress, ProgressAt, Verified, NothingBeforeVerified, FailureExplained
<1> QED BY <1>12, <1>13, <1>14, <1>16 DEF IInv

(* What happens after the capture leaves the run alone, and of the package *)
(* what it says.                                                           *)
LEMMA EventKeeps ==
    ASSUME IInv, Event, codec' \in Codecs, disk' \in Packages, OfTheCapture(disk'),
           target' = target \/ target' \in {"function_moved", "class_moved"}
    PROVE  IInv'
<1>1. /\ TypeOK /\ OfTheCapture(run.package) /\ NothingYet
      /\ Progress /\ NothingBeforeVerified /\ FailureExplained
  BY DEF IInv
<1>2. wrote # NoCapture /\ wrote' = wrote /\ run' = run /\ events' \in 0..MaxEvents
  <2>1. events \in 0..MaxEvents
    BY <1>1 DEF TypeOK
  <2> QED BY <2>1, EventsForm DEF Event
<1>3. TypeOK'
  BY <1>1, <1>2 DEF TypeOK
<1>4. Written' = Written /\ ReadBack' = ReadBack
  BY <1>2, WrittenStays, ReadBackStays
<1>5. OfTheCapture(disk)' /\ OfTheCapture(run.package)'
  BY <1>1, <1>2, <1>4 DEF OfTheCapture
<1>6. NothingYet'
  BY <1>1, <1>2 DEF NothingYet, NoCapture
<1>7. Progress' /\ NothingBeforeVerified'
  BY <1>1, <1>2, <1>4 DEF Progress, ProgressAt, Verified, NothingBeforeVerified
<1>8. FailureExplained'
  BY <1>1, <1>2, <1>4 DEF FailureExplained
<1> QED BY <1>3, <1>5, <1>6, <1>7, <1>8 DEF IInv

LEMMA RegisterKeeps == ASSUME IInv, NEW c \in Registrable, Register(c) PROVE IInv'
<1>1. Event /\ codec' = c /\ disk' = disk /\ target' = target
  BY DEF Register
<1>2. codec' \in Codecs /\ disk' \in Packages /\ OfTheCapture(disk')
  BY <1>1 DEF IInv, TypeOK, Codecs
<1> QED BY <1>1, <1>2, EventKeeps

LEMMA UnregisterKeeps == ASSUME IInv, Unregister PROVE IInv'
<1>1. Event /\ codec' = NoCodec /\ disk' = disk /\ target' = target
  BY DEF Unregister
<1>2. codec' \in Codecs /\ disk' \in Packages /\ OfTheCapture(disk')
  BY <1>1 DEF IInv, TypeOK, Codecs
<1> QED BY <1>1, <1>2, EventKeeps

LEMMA ChangePackageKeeps == ASSUME IInv, ChangePackage PROVE IInv'
<1>1. TypeOK /\ OfTheCapture(disk)
  BY DEF IInv
<1>2. PICK new \in {NoPackage, [disk EXCEPT !.intact = ~disk.intact]} : disk' = new
  BY DEF ChangePackage
<1>3. Event /\ disk.there /\ codec' = codec /\ target' = target
  BY DEF ChangePackage
<1>4. disk \in Packages /\ codec \in Codecs
  BY <1>1 DEF TypeOK
<1>5. CASE disk' = NoPackage
  BY <1>3, <1>4, <1>5, Constants, EventKeeps DEF OfTheCapture
<1>6. CASE disk' = [disk EXCEPT !.intact = ~disk.intact]
  <2>1. disk' \in Packages /\ disk'.there = disk.there /\ disk'.replay = disk.replay
    BY <1>4, <1>6 DEF Packages
  <2>2. OfTheCapture(disk')
    BY <1>1, <2>1 DEF OfTheCapture
  <2> QED BY <1>3, <1>4, <2>1, <2>2, EventKeeps
<1> QED BY <1>2, <1>5, <1>6

LEMMA MoveTargetKeeps == ASSUME IInv, MoveTarget PROVE IInv'
<1>1. Event /\ codec' = codec /\ disk' = disk /\ target' \in {"function_moved", "class_moved"}
  BY DEF MoveTarget
<1>2. codec' \in Codecs /\ disk' \in Packages /\ OfTheCapture(disk')
  BY <1>1 DEF IInv, TypeOK
<1> QED BY <1>1, <1>2, EventKeeps

-----------------------------------------------------------------------------
(* The inductive invariant, and what follows from it.                      *)

LEMMA InitIInv == ASSUME Init PROVE IInv
<1>1. wrote = NoCapture /\ disk = NoPackage /\ run = NoRun
  BY DEF Init
<1>2. TypeOK
  <2>1. codec \in Codecs /\ target \in {"there", "function_moved", "class_moved"} /\ events = 0
    BY DEF Init
  <2>2. events \in 0..MaxEvents
    BY <2>1, EventsForm
  <2> QED BY <1>1, <2>1, <2>2, Constants DEF TypeOK
<1>3. OfTheCapture(disk) /\ OfTheCapture(run.package) /\ NothingYet
  BY <1>1, Constants DEF OfTheCapture, NothingYet
<1>4. run.step = "idle" /\ run.imported = FALSE
  BY <1>1, Constants
<1>5. Progress /\ NothingBeforeVerified /\ FailureExplained
  BY <1>4 DEF Progress, ProgressAt, Verified, NothingBeforeVerified, FailureExplained
<1> QED BY <1>2, <1>3, <1>5 DEF IInv

LEMMA StutterKeeps == ASSUME IInv, UNCHANGED vars PROVE IInv'
<1>1. /\ codec' = codec /\ wrote' = wrote /\ disk' = disk
      /\ target' = target /\ run' = run /\ events' = events
  BY DEF vars
<1>2. Written' = Written /\ ReadBack' = ReadBack
  BY <1>1, WrittenStays, ReadBackStays
<1>3. TypeOK' /\ NothingYet'
  BY <1>1 DEF IInv, TypeOK, NothingYet, NoCapture
<1>4. OfTheCapture(disk)' /\ OfTheCapture(run.package)'
  BY <1>1, <1>2 DEF IInv, OfTheCapture
<1>5. Progress' /\ NothingBeforeVerified' /\ FailureExplained'
  BY <1>1, <1>2 DEF IInv, Progress, ProgressAt, Verified, NothingBeforeVerified, FailureExplained
<1> QED BY <1>3, <1>4, <1>5 DEF IInv

LEMMA NextIInv == ASSUME IInv, [Next]_vars PROVE IInv'
<1>1. CASE \E v \in Values, case \in Cases : Capture(v, case)
  BY <1>1, CaptureKeeps
<1>2. CASE \E c \in Registrable : Register(c)
  BY <1>2, RegisterKeeps
<1>3. CASE Unregister
  BY <1>3, UnregisterKeeps
<1>4. CASE ChangePackage
  BY <1>4, ChangePackageKeeps
<1>5. CASE MoveTarget
  BY <1>5, MoveTargetKeeps
<1>6. CASE NewCommand
  BY <1>6, NewCommandKeeps
<1>7. CASE \E mode \in Modes, limits \in Limits : NewRun(mode, limits)
  BY <1>7, NewRunKeeps
<1>8. CASE Authorize
  BY <1>8, AuthorizeKeeps
<1>9. CASE LoadFiles
  BY <1>9, LoadKeeps
<1>10. CASE VerifyFiles
  BY <1>10, VerifyKeeps
<1>11. CASE LoadReplayData
  BY <1>11, LoadReplayKeeps
<1>12. CASE ValidateSchema
  BY <1>12, ValidateKeeps
<1>13. CASE DecodeArguments
  BY <1>13, DecodeKeeps
<1>14. CASE ResolveAndCall
  BY <1>14, ResolveKeeps
<1>15. CASE UNCHANGED vars
  BY <1>15, StutterKeeps
<1> QED BY <1>1, <1>2, <1>3, <1>4, <1>5, <1>6, <1>7, <1>8, <1>9, <1>10, <1>11, <1>12,
           <1>13, <1>14, <1>15 DEF Next

LEMMA Inductive == Spec => []IInv
<1>1. Init => IInv
  BY InitIInv
<1>2. IInv /\ [Next]_vars => IInv'
  BY NextIInv
<1> QED BY <1>1, <1>2, PTL DEF Spec

(* Every package is one a capture wrote, and a run works on values that    *)
(* decode has made of what encode has written.                             *)
THEOREM Typing == Spec => []TypeOK
<1>1. IInv => TypeOK
  BY DEF IInv
<1> QED BY <1>1, Inductive, PTL

(* Nothing is imported or called that was not authorized and whose bytes   *)
(* were not verified, however often and whenever the package changes.      *)
THEOREM NothingUnverified == Spec => []NothingBeforeVerified
<1>1. IInv => NothingBeforeVerified
  BY DEF IInv
<1> QED BY <1>1, Inductive, PTL

(* What a run calls the function with is what decode makes of what encode  *)
(* has written of the captured arguments, and no issue was found in that.  *)
THEOREM CallFromTheCapture == Spec => []CallIsOfTheCapture
<1>1. IInv => CallIsOfTheCapture
  <2>1. SUFFICES ASSUME IInv, run.step = "called" PROVE CallIsOfTheCapture
    BY DEF CallIsOfTheCapture
  <2>2. Progress
    BY <2>1 DEF IInv
  <2>3. /\ run.package.there /\ run.package.replay.replayable
        /\ run.arguments = ReadBack /\ ReadBack # Failed
    BY <2>1, <2>2 DEF Progress, ProgressAt, Verified
  <2>4. ~Issue(ToReplay(wrote.value, wrote.codec))
    BY <2>1, <2>3, Loaded
  <2> QED BY <2>3, <2>4 DEF CallIsOfTheCapture
<1> QED BY <1>1, Inductive, PTL

(* An authorized run fails only because the package was gone, damaged or   *)
(* may not be replayed, is over a limit of the runner's own configuration, *)
(* the function or a class has moved, or decode has no answer for what was *)
(* written.                                                                *)
THEOREM FailureHasAReason == Spec => []FailureExplained
<1>1. IInv => FailureExplained
  BY DEF IInv
<1> QED BY <1>1, Inductive, PTL

-----------------------------------------------------------------------------
(* The runner on trees.                                                    *)

(* What the assumptions say of the arguments of a call.                    *)
LEMMA ArgumentsForm ==
    ASSUME NEW v \in Values
    PROVE  v \in Trees /\ Plainly(v, 0)
BY ReplayAssumption DEF PlainValue, Plainly

(* _find_replay_issue finds something exactly if something was lost, or    *)
(* seems to be.                                                            *)
LEMMA IssueMeansLost ==
    ASSUME NEW v \in Values, NEW c \in Codecs
    PROVE  Issue(ToReplay(v, c)) <=> ~Lossless(v, c) \/ TakenForLoss(v, c)
<1>1. v \in Trees /\ Plainly(v, 0)
  BY ArgumentsForm
<1>2. Issue(ToReplay(v, c)) = HasReplayIssue(Encoded(v, c))
  BY ReplayAssumption
<1> QED BY <1>1, <1>2, IssueIffLost

(* What decode answers to what was written without loss.                   *)
LEMMA WayBack ==
    ASSUME NEW v \in Values, NEW c \in Codecs, NEW now \in Codecs, NEW limits \in Limits,
           ~Issue(ToReplay(v, c))
    PROVE  LET back == FromReplay(ToReplay(v, c), now, limits.depth)
               changed == now # c /\ Mentions(v, "custom")
           IN  /\ back = Failed => \/ changed
                                   \/ \E kind \in Lasting : Mentions(v, kind)
                                   \/ \E p \in Parts(v, 0) : p.depth >= limits.depth
               /\ back # Failed => back = Normal(v) \/ changed
<1> DEFINE limit == limits.depth
<1>1. v \in Trees /\ Plainly(v, 0) /\ 0 \in Nat
  BY ArgumentsForm
<1>2. Losslessly(v, 0, c)
  BY IssueMeansLost DEF Lossless, Losslessly
<1>3. ReadsBack(v, 0, c, now, limit)
  BY <1>1, <1>2, LosslessReadsBack
<1>4. FromReplay(ToReplay(v, c), now, limit) = Decode(Encoding(v, 0, c), now, limit)
      /\ Failed = Failure
  BY ReplayAssumption DEF Encoded, Encoding
<1>5. Decode(Encoding(v, 0, c), now, limit) = DecodeAt(Encoding(v, 0, c), 0, now, limit)
  BY DecodeIs
<1>6. \A kind : MentionsAt(v, 0, kind) <=> Mentions(v, kind)
  BY DEF Mentions, MentionsAt
<1>7. /\ Changed(v, 0, c, now) <=> now # c /\ Mentions(v, "custom")
      /\ NoWayBack(v, 0) <=> \E kind \in Lasting : Mentions(v, kind)
      /\ BeyondLimit(v, 0, limit) <=> \E p \in Parts(v, 0) : p.depth >= limit
  BY <1>6 DEF Changed, NoWayBack, BeyondLimit
<1> HIDE DEF limit
<1>8. LET back == FromReplay(ToReplay(v, c), now, limit) IN
      /\ back = Failed => Changed(v, 0, c, now) \/ NoWayBack(v, 0) \/ BeyondLimit(v, 0, limit)
      /\ back # Failed => back = Normal(v) \/ Changed(v, 0, c, now)
  BY <1>3, <1>4, <1>5 DEF ReadsBack
<1> QED BY <1>7, <1>8 DEF limit

(* A package says it can be replayed exactly when nothing of the arguments *)
(* was hidden, cut or lost, however large and deep they are, and nothing   *)
(* in them is mistaken for a loss.                                         *)
THEOREM ReplayableExactly == Spec => []ReplayableIsLossless
<1>1. IInv => ReplayableIsLossless
  <2>1. SUFFICES ASSUME IInv, disk.there PROVE ReplayableIsLossless
    BY DEF ReplayableIsLossless
  <2>2. TypeOK /\ NothingYet /\ disk.replay \in Written
    BY <2>1 DEF IInv, OfTheCapture
  <2>3. wrote.value \in Values /\ wrote.codec \in Codecs /\ wrote.size \in Nat
    <3>1. wrote # NoCapture
      BY <2>1, <2>2, Constants DEF NothingYet
    <3>2. wrote.value \in Values
      BY <2>2, <3>1 DEF NothingYet
    <3>3. wrote.codec \in Codecs /\ wrote.size \in Sizes \cup {0}
      <4>1. wrote \in Captures
        BY <2>2 DEF TypeOK
      <4> QED BY <4>1 DEF Captures
    <3> QED BY <3>2, <3>3, SizesForm, Zenon
  <2>4. Issue(ToReplay(wrote.value, wrote.codec))
            <=> ~Lossless(wrote.value, wrote.codec) \/ TakenForLoss(wrote.value, wrote.codec)
    BY <2>3, IssueMeansLost
  <2>5. disk.replay.replayable <=>
            /\ wrote.case # "not_importable"
            /\ ~(wrote.size > MaxPayload)
            /\ ~Issue(ToReplay(wrote.value, wrote.codec))
    <3>1. CASE wrote.case = "not_importable"
      BY <2>2, <3>1, Constants DEF Written
    <3>2. CASE wrote.case # "not_importable"
      <4>1. PICK written \in Sizes :
                disk.replay = BuildReplay(wrote.value, wrote.codec, wrote.size, written)
        BY <2>2, <3>2 DEF Written
      <4>2. /\ Reason(written).replayable = FALSE
            /\ Payload(wrote.value, wrote.codec, written).replayable = TRUE
        BY ReasonForm DEF Payload
      <4> QED BY <3>2, <4>1, <4>2 DEF BuildReplay
    <3> QED BY <3>1, <3>2
  <2>6. wrote.size <= MaxPayload <=> ~(wrote.size > MaxPayload)
    BY <2>3, RunnerAssumption
  <2> QED BY <2>4, <2>5, <2>6 DEF ReplayableIsLossless
<1> QED BY <1>1, Inductive, PTL

(* What is called is called with the captured arguments, up to their base  *)
(* classes, unless the codec of one of them has changed since.             *)
THEOREM CallWithTheArguments == Spec => []CalledAsCaptured
<1>1. IInv => CalledAsCaptured
  <2>1. SUFFICES ASSUME IInv, run.step = "called" PROVE CalledAsCaptured
    BY DEF CalledAsCaptured
  <2>2. Progress /\ TypeOK
    BY <2>1 DEF IInv
  <2>3. /\ run.package.there /\ run.package.replay.replayable
        /\ run.arguments = ReadBack /\ ReadBack # Failed
    BY <2>1, <2>2 DEF Progress, ProgressAt, Verified
  <2>4. wrote.value \in Values /\ ~Issue(ToReplay(wrote.value, wrote.codec))
    BY <2>1, <2>3, Loaded
  <2>5. wrote.codec \in Codecs /\ run.codec \in Codecs /\ run.limits \in Limits
    BY <2>2 DEF TypeOK, Captures
  <2>6. \/ ReadBack = Normal(wrote.value)
        \/ run.codec # wrote.codec /\ Mentions(wrote.value, "custom")
    BY <2>3, <2>4, <2>5, WayBack DEF ReadBack
  <2> QED BY <2>3, <2>6 DEF CalledAsCaptured
<1> QED BY <1>1, Inductive, PTL

(* An authorized run fails only because the package was gone, damaged or   *)
(* may not be replayed, is over a limit of the runner's own configuration, *)
(* the function or a class has moved, the codec of an argument changed, or *)
(* an argument has no way back.                                            *)
THEOREM FailureOfTrees == Spec => []FailsForAReason
<1>1. IInv => FailsForAReason
  <2>1. SUFFICES ASSUME IInv, run.step = "failed", run.mode = "authorized_run",
                        run.package.there, run.package.replay.replayable
                 PROVE  FailsForAReason
    BY DEF FailsForAReason
  <2>2. FailureExplained /\ TypeOK
    BY <2>1 DEF IInv
  <2>3. wrote.value \in Values /\ ~Issue(ToReplay(wrote.value, wrote.codec))
    BY <2>1, Loaded
  <2>4. wrote.codec \in Codecs /\ run.codec \in Codecs /\ run.limits \in Limits
    BY <2>2 DEF TypeOK, Captures
  <2>5. ReadBack = Failed =>
            \/ run.codec # wrote.codec /\ Mentions(wrote.value, "custom")
            \/ \E kind \in Lasting : Mentions(wrote.value, kind)
            \/ \E p \in Parts(wrote.value, 0) : p.depth >= run.limits.depth
    BY <2>3, <2>4, WayBack DEF ReadBack
  <2> QED BY <2>1, <2>2, <2>5 DEF FailureExplained, FailsForAReason, Lasting
<1> QED BY <1>1, Inductive, PTL

-----------------------------------------------------------------------------
(* Places in trees: what At finds there, and what a longer path adds.      *)

(* At, one item at a time, from the root on.                               *)
WayBy(f, v, q, n) == IF n = 0 THEN v ELSE f[n - 1].items[q[n]]

LEMMA WaysExist ==
    ASSUME NEW v, NEW q
    PROVE  \A k \in Nat : \E f : f = [n \in 0..k |-> WayBy(f, v, q, n)]
<1> DEFINE T == {k \in Nat : \E f : f = [n \in 0..k |-> WayBy(f, v, q, n)]}
<1>1. 0 \in T
  <2>1. \A n \in 0..0 : n = 0
    OBVIOUS
  <2>2. \E f : f = [n \in 0..0 |-> WayBy(f, v, q, n)]
    <3> WITNESS [m \in 0..0 |-> v]
    <3> QED BY <2>1 DEF WayBy
  <2> QED BY <2>2
<1>2. ASSUME NEW k \in T PROVE k + 1 \in T
  <2>1. k \in Nat /\ k + 1 \in Nat
    OBVIOUS
  <2>2. PICK f : f = [n \in 0..k |-> WayBy(f, v, q, n)]
    OBVIOUS
  <2> DEFINE g == [n \in 0..(k + 1) |-> WayBy(f, v, q, n)]
  <2>3. ASSUME NEW n \in 0..(k + 1) PROVE WayBy(f, v, q, n) = WayBy(g, v, q, n)
    <3>1. n # 0 => n - 1 \in 0..k /\ n - 1 \in 0..(k + 1)
      BY <2>1
    <3>2. n # 0 => f[n - 1] = g[n - 1]
      BY <2>2, <3>1
    <3> HIDE DEF g
    <3> QED BY <3>2 DEF WayBy
  <2>4. g = [n \in 0..(k + 1) |-> WayBy(g, v, q, n)]
    BY <2>3
  <2> HIDE DEF g
  <2> QED BY <2>1, <2>4
<1>3. T = Nat
  <2>1. T \in SUBSET Nat
    OBVIOUS
  <2> HIDE DEF T
  <2> QED BY <1>1, <1>2, <2>1, SetInduction
<1> QED BY <1>3

(* f is the way from v to its part at q.                                   *)
IsWay(f, v, q) ==
    /\ f[0] = v
    /\ \A n \in 1..Len(q) : f[n] = f[n - 1].items[q[n]]

(* At, which folds over the path, is where that way ends.                  *)
LEMMA AtIsWay ==
    ASSUME NEW v, NEW q, Len(q) \in Nat
    PROVE  \E f : IsWay(f, v, q) /\ At(v, q) = f[Len(q)]
<1> DEFINE f == CHOOSE f : f = [n \in 0..Len(q) |-> WayBy(f, v, q, n)]
<1>1. f = [n \in 0..Len(q) |-> WayBy(f, v, q, n)]
  BY WaysExist
<1>2. At(v, q) = f[Len(q)]
  BY DEF At, WayBy
<1> HIDE DEF f
<1>3. \A n \in 0..Len(q) : f[n] = WayBy(f, v, q, n)
  BY <1>1
<1>4. IsWay(f, v, q)
  BY <1>3 DEF IsWay, WayBy
<1> QED BY <1>2, <1>4

LEMMA AtEmpty == ASSUME NEW v PROVE At(v, <<>>) = v
<1>1. Len(<<>>) = 0
  OBVIOUS
<1> QED BY <1>1, AtIsWay DEF IsWay

LEMMA Longer ==
    ASSUME NEW p \in Seq(Nat), NEW i \in Nat
    PROVE  /\ <<i>> \o p \in Seq(Nat) /\ Len(p) \in Nat /\ Len(<<i>> \o p) = Len(p) + 1
           /\ (<<i>> \o p)[1] = i /\ \A n \in 1..Len(p) : (<<i>> \o p)[n + 1] = p[n]
           /\ DOMAIN p = 1..Len(p) /\ DOMAIN (<<i>> \o p) = 1..Len(p) + 1
OBVIOUS

(* The part at a longer path is a part of the item the path starts with.   *)
LEMMA AtItem ==
    ASSUME NEW v, NEW p \in Seq(Nat), NEW i \in Nat
    PROVE  At(v, <<i>> \o p) = At(v.items[i], p)
<1> DEFINE q == <<i>> \o p
<1>1. /\ Len(p) \in Nat /\ Len(q) = Len(p) + 1 /\ q[1] = i
      /\ \A n \in 1..Len(p) : q[n + 1] = p[n]
  BY Longer
<1> HIDE DEF q
<1>2. PICK f : IsWay(f, v, q) /\ At(v, q) = f[Len(q)]
  BY <1>1, AtIsWay
<1>3. PICK g : IsWay(g, v.items[i], p) /\ At(v.items[i], p) = g[Len(p)]
  BY <1>1, AtIsWay
<1> DEFINE T == {n \in Nat : n \in 0..Len(p) => g[n] = f[n + 1]}
<1>4. 0 \in T
  <2>1. f[1] = f[0].items[q[1]] /\ f[0] = v
    <3>1. 1 \in 1..Len(q) /\ 1 - 1 = 0
      BY <1>1
    <3> QED BY <1>2, <3>1 DEF IsWay
  <2>2. g[0] = v.items[i]
    BY <1>3 DEF IsWay
  <2> QED BY <1>1, <2>1, <2>2
<1>5. ASSUME NEW n \in T PROVE n + 1 \in T
  <2>1. SUFFICES ASSUME n + 1 \in 0..Len(p) PROVE g[n + 1] = f[(n + 1) + 1]
    OBVIOUS
  <2>2. n \in Nat /\ g[n] = f[n + 1] /\ n + 1 \in 1..Len(p) /\ (n + 1) + 1 \in 1..Len(q)
        /\ (n + 1) - 1 = n /\ ((n + 1) + 1) - 1 = n + 1
    BY <1>1, <2>1
  <2>3. g[n + 1] = g[n].items[p[n + 1]]
    BY <1>3, <2>2 DEF IsWay
  <2>4. f[(n + 1) + 1] = f[n + 1].items[q[(n + 1) + 1]]
    BY <1>2, <2>2 DEF IsWay
  <2>5. q[(n + 1) + 1] = p[n + 1]
    BY <1>1, <2>2
  <2> QED BY <2>2, <2>3, <2>4, <2>5
<1>6. Len(p) \in T
  <2>1. T \in SUBSET Nat
    OBVIOUS
  <2> HIDE DEF T
  <2> QED BY <1>1, <1>4, <1>5, <2>1, SetInduction
<1>7. g[Len(p)] = f[Len(p) + 1]
  BY <1>1, <1>6
<1> QED BY <1>1, <1>2, <1>3, <1>7 DEF q

(* A place is a path of numbers: the empty one, or an item and a place in  *)
(* it.                                                                     *)
LEMMA PlacesAreSeqs == ASSUME NEW u \in Trees PROVE Places(u) \subseteq Seq(Nat)
<1> DEFINE T == {w \in Trees : Places(w) \subseteq Seq(Nat)}
<1>1. ASSUME NEW w \in Trees, \A i \in DOMAIN w.items : w.items[i] \in T
      PROVE  w \in T
  <2>1. SUFFICES ASSUME NEW q \in Places(w) PROVE q \in Seq(Nat)
    OBVIOUS
  <2>2. CASE q = <<>>
    BY <2>2, EmptySeq
  <2>3. CASE \E i \in DOMAIN w.items : \E p \in Places(w.items[i]) : q = <<i>> \o p
    <3>0. PICK i \in DOMAIN w.items : \E p \in Places(w.items[i]) : q = <<i>> \o p
      BY <2>3
    <3>1. PICK p \in Places(w.items[i]) : q = <<i>> \o p
      BY <3>0
    <3>2. i \in Nat
      BY TreeForm
    <3>3. p \in Seq(Nat)
      BY <1>1, <3>1
    <3> QED BY <3>1, <3>2, <3>3, Longer
  <2> QED BY <2>1, <2>2, <2>3, PlacesRec
<1>2. Trees \subseteq T
  <2> HIDE DEF T
  <2> QED BY <1>1, TreeInduction
<1> QED BY <1>2

LEMMA Shorter ==
    ASSUME NEW q \in Seq(Nat), q # <<>>
    PROVE  \E i \in Nat : \E p \in Seq(Nat) : q = <<i>> \o p
<1>1. Head(q) \in Nat /\ Tail(q) \in Seq(Nat) /\ q = <<Head(q)>> \o Tail(q)
  OBVIOUS
<1> QED BY <1>1

(* A path has one first number and one rest.                               *)
LEMMA SameStart ==
    ASSUME NEW i \in Nat, NEW j \in Nat, NEW p \in Seq(Nat), NEW r \in Seq(Nat), <<i>> \o p = <<j>> \o r
    PROVE  i = j /\ p = r
<1> DEFINE q == <<i>> \o p
           s == <<j>> \o r
<1>1. q = s
  OBVIOUS
<1>2. /\ i = q[1] /\ Len(q) = Len(p) + 1 /\ Len(p) \in Nat
      /\ \A n \in 1..Len(p) : q[n + 1] = p[n]
  BY Longer
<1>3. /\ j = s[1] /\ Len(s) = Len(r) + 1 /\ Len(r) \in Nat
      /\ \A n \in 1..Len(r) : s[n + 1] = r[n]
  BY Longer
<1> HIDE DEF q, s
<1>4. i = j /\ Len(p) = Len(r)
  BY <1>1, <1>2, <1>3
<1>5. \A n \in 1..Len(p) : p[n] = r[n]
  BY <1>1, <1>2, <1>3, <1>4
<1>6. p = r
  BY <1>4, <1>5, SeqEqual
<1> QED BY <1>4, <1>6

LEMMA PlacesSplit ==
    ASSUME NEW u \in Trees, NEW i \in Nat, NEW p \in Seq(Nat)
    PROVE  <<i>> \o p \in Places(u) <=> i \in DOMAIN u.items /\ p \in Places(u.items[i])
<1> DEFINE q == <<i>> \o p
<1>1. q # <<>>
  BY Longer
<1>2. ASSUME NEW j \in DOMAIN u.items, NEW r \in Places(u.items[j]), q = <<j>> \o r
      PROVE  i \in DOMAIN u.items /\ p \in Places(u.items[i])
  <2>1. j \in Nat /\ u.items[j] \in Trees
    BY TreeForm
  <2>2. r \in Seq(Nat)
    BY <2>1, PlacesAreSeqs
  <2>3. i = j /\ p = r
    BY <1>2, <2>1, <2>2, SameStart
  <2> QED BY <2>3
<1> HIDE DEF q
<1>3. q \in Places(u) <=> \E j \in DOMAIN u.items : \E r \in Places(u.items[j]) : q = <<j>> \o r
  BY <1>1, PlacesRec
<1> QED BY <1>2, <1>3 DEF q

(* What is shown of an encoding.                                           *)
Unshown == {"redacted", "max_depth", "max_depth_text", "mark", "overwritten"}
ShownAt(e, q) == q \in Places(e) /\ At(e, q).kind \notin Unshown

LEMMA ShownSplit ==
    ASSUME NEW e \in Trees
    PROVE  /\ ShownAt(e, <<>>) <=> e.kind \notin Unshown
           /\ \A i \in Nat, p \in Seq(Nat) :
                 ShownAt(e, <<i>> \o p) <=> i \in DOMAIN e.items /\ ShownAt(e.items[i], p)
<1>1. <<>> \in Places(e) /\ At(e, <<>>) = e
  BY PlacesRec, AtEmpty
<1>2. ASSUME NEW i \in Nat, NEW p \in Seq(Nat)
      PROVE  ShownAt(e, <<i>> \o p) <=> i \in DOMAIN e.items /\ ShownAt(e.items[i], p)
  <2>1. <<i>> \o p \in Places(e) <=> i \in DOMAIN e.items /\ p \in Places(e.items[i])
    BY PlacesSplit
  <2>2. At(e, <<i>> \o p) = At(e.items[i], p)
    BY AtItem
  <2> QED BY <2>1, <2>2, Zenon DEF ShownAt
<1> QED BY <1>1, <1>2, Zenon DEF ShownAt

(* What may be shown of a value.                                           *)
OnTheWay(u, q, first) ==
    \A n \in DOMAIN q :
        LET part == At(u, SubSeq(q, 1, n - 1)) IN
        /\ q[n] \notin part.secret
        /\ q[n] \in IF n = 1 THEN first ELSE Room(part)
Visible(u, d, q) == q \in Places(u) /\ d + Len(q) < MaxDepth /\ OnTheWay(u, q, Room(u))

(* The starts of a longer path.                                            *)
LEMMA FirstOfLonger ==
    ASSUME NEW p \in Seq(Nat), NEW i \in Nat
    PROVE  /\ SubSeq(<<i>> \o p, 1, 0) = <<>>
           /\ \A n \in 1..Len(p) : /\ SubSeq(<<i>> \o p, 1, n) = <<i>> \o SubSeq(p, 1, n - 1)
                                   /\ SubSeq(p, 1, n - 1) \in Seq(Nat)
OBVIOUS

(* What OnTheWay asks of a path it asks of its first number, and of the    *)
(* rest.                                                                   *)
LEMMA WaySplit ==
    ASSUME NEW u, NEW i \in Nat, NEW p \in Seq(Nat), NEW first
    PROVE  OnTheWay(u, <<i>> \o p, first) <=>
               i \notin u.secret /\ i \in first /\ OnTheWay(u.items[i], p, Room(u.items[i]))
<1> DEFINE q == <<i>> \o p
           w == u.items[i]
           Within(part, k, room) == k \notin part.secret /\ k \in room
           Passes(v, r, n, least) == LET part == At(v, SubSeq(r, 1, n - 1)) IN
                                     Within(part, r[n], IF n = 1 THEN least ELSE Room(part))
<1>1. /\ Len(p) \in Nat /\ DOMAIN p = 1..Len(p) /\ DOMAIN q = 1..Len(p) + 1
      /\ q[1] = i /\ \A n \in 1..Len(p) : q[n + 1] = p[n]
  BY Longer
<1>2. Passes(u, q, 1, first) <=> Within(u, i, first)
  <2>1. SubSeq(q, 1, 1 - 1) = <<>>
    BY FirstOfLonger
  <2>2. At(u, SubSeq(q, 1, 1 - 1)) = u
    BY <2>1, AtEmpty
  <2> HIDE DEF q, Within
  <2> QED BY <1>1, <2>2
<1>3. ASSUME NEW n \in 1..Len(p)
      PROVE  Passes(u, q, n + 1, first) <=> Passes(w, p, n, Room(w))
  <2>1. SubSeq(q, 1, (n + 1) - 1) = <<i>> \o SubSeq(p, 1, n - 1) /\ SubSeq(p, 1, n - 1) \in Seq(Nat)
    <3>1. (n + 1) - 1 = n
      OBVIOUS
    <3> QED BY <3>1, FirstOfLonger
  <2>2. At(u, SubSeq(q, 1, (n + 1) - 1)) = At(w, SubSeq(p, 1, n - 1))
    BY <2>1, AtItem
  <2>3. q[n + 1] = p[n] /\ n + 1 # 1
    BY <1>1
  <2>4. n = 1 => At(w, SubSeq(p, 1, n - 1)) = w
    <3>1. n = 1 => SubSeq(p, 1, n - 1) = <<>>
      OBVIOUS
    <3> QED BY <3>1, AtEmpty
  <2> HIDE DEF q, w, Within
  <2>5. Passes(u, q, n + 1, first) <=>
            LET part == At(w, SubSeq(p, 1, n - 1)) IN Within(part, p[n], Room(part))
    BY <2>2, <2>3
  <2>6. Passes(w, p, n, Room(w)) <=>
            LET part == At(w, SubSeq(p, 1, n - 1)) IN Within(part, p[n], Room(part))
    BY <2>4
  <2> QED BY <2>5, <2>6
<1>4. OnTheWay(u, q, first) <=> \A n \in DOMAIN q : Passes(u, q, n, first)
  BY DEF OnTheWay
<1>5. OnTheWay(w, p, Room(w)) <=> \A n \in DOMAIN p : Passes(w, p, n, Room(w))
  BY DEF OnTheWay
<1> HIDE DEF Passes, q, w
<1>6. \A n \in DOMAIN q : n = 1 \/ \E m \in 1..Len(p) : n = m + 1
  <2>1. \A n \in DOMAIN q : n = 1 \/ (n - 1 \in 1..Len(p) /\ n = (n - 1) + 1)
    BY <1>1
  <2> QED BY <2>1
<1>7. 1 \in DOMAIN q /\ \A m \in 1..Len(p) : m + 1 \in DOMAIN q
  BY <1>1
<1>8. (\A n \in DOMAIN q : Passes(u, q, n, first)) <=>
          Passes(u, q, 1, first) /\ \A m \in 1..Len(p) : Passes(u, q, m + 1, first)
  BY <1>6, <1>7, Zenon
<1> QED BY <1>1, <1>2, <1>3, <1>4, <1>5, <1>8 DEF q, w

(* What may be shown of an item is what may be shown of it one level down. *)
LEMMA VisibleSplit ==
    ASSUME NEW u \in Trees, NEW d \in Nat
    PROVE  /\ Visible(u, d, <<>>) <=> d < MaxDepth
           /\ \A i \in Nat, p \in Seq(Nat) :
                 Visible(u, d, <<i>> \o p) <=>
                     /\ i \in DOMAIN u.items /\ i \notin u.secret /\ i \in Room(u)
                     /\ Visible(u.items[i], d + 1, p)
<1>1. Visible(u, d, <<>>) <=> d < MaxDepth
  <2>1. <<>> \in Places(u)
    BY PlacesRec
  <2>2. DOMAIN <<>> = {} /\ d + Len(<<>>) = d
    OBVIOUS
  <2>3. OnTheWay(u, <<>>, Room(u))
    BY <2>2 DEF OnTheWay
  <2> QED BY <2>1, <2>2, <2>3 DEF Visible
<1>2. ASSUME NEW i \in Nat, NEW p \in Seq(Nat)
      PROVE  Visible(u, d, <<i>> \o p) <=>
                 /\ i \in DOMAIN u.items /\ i \notin u.secret /\ i \in Room(u)
                 /\ Visible(u.items[i], d + 1, p)
  <2>1. <<i>> \o p \in Places(u) <=> i \in DOMAIN u.items /\ p \in Places(u.items[i])
    BY PlacesSplit
  <2>2. d + Len(<<i>> \o p) = (d + 1) + Len(p)
    BY Longer
  <2>3. OnTheWay(u, <<i>> \o p, Room(u)) <=>
            i \notin u.secret /\ i \in Room(u) /\ OnTheWay(u.items[i], p, Room(u.items[i]))
    BY WaySplit
  <2> QED BY <2>1, <2>2, <2>3, Zenon DEF Visible
<1> QED BY <1>1, <1>2

(* The places arguments.json has to show, item by item.                    *)
LEMMA ShownPlacesSplit ==
    ASSUME NEW v \in Trees
    PROVE  /\ <<>> \in ShownPlaces(v) <=> 0 < MaxDepth
           /\ \A i \in Nat, p \in Seq(Nat) :
                 <<i>> \o p \in ShownPlaces(v) <=>
                     /\ i \in DOMAIN v.items /\ i \notin v.secret /\ i <= MaxItems
                     /\ Visible(v.items[i], 1, p)
<1>1. \A q : q \in ShownPlaces(v) <=>
                 q \in Places(v) /\ Len(q) < MaxDepth /\ OnTheWay(v, q, 1..MaxItems)
  BY Zenon DEF ShownPlaces, OnTheWay
<1>2. <<>> \in ShownPlaces(v) <=> 0 < MaxDepth
  <2>1. <<>> \in Places(v)
    BY PlacesRec
  <2>2. DOMAIN <<>> = {} /\ Len(<<>>) = 0
    OBVIOUS
  <2>3. OnTheWay(v, <<>>, 1..MaxItems)
    BY <2>2 DEF OnTheWay
  <2> QED BY <1>1, <2>1, <2>2, <2>3
<1>3. ASSUME NEW i \in Nat, NEW p \in Seq(Nat)
      PROVE  <<i>> \o p \in ShownPlaces(v) <=>
                 /\ i \in DOMAIN v.items /\ i \notin v.secret /\ i <= MaxItems
                 /\ Visible(v.items[i], 1, p)
  <2>1. <<i>> \o p \in Places(v) <=> i \in DOMAIN v.items /\ p \in Places(v.items[i])
    BY PlacesSplit
  <2>2. Len(<<i>> \o p) = 1 + Len(p)
    BY Longer
  <2>3. OnTheWay(v, <<i>> \o p, 1..MaxItems) <=>
            i \notin v.secret /\ i \in 1..MaxItems /\ OnTheWay(v.items[i], p, Room(v.items[i]))
    BY WaySplit
  <2>4. i \in DOMAIN v.items => (i \in 1..MaxItems <=> i <= MaxItems)
    BY TreeForm, TreeAssumption
  <2> QED BY <1>1, <2>1, <2>2, <2>3, <2>4, Zenon DEF Visible
<1> QED BY <1>2, <1>3


-----------------------------------------------------------------------------
(* What redact makes of a tree.                                            *)

(* redact leaves a tree of plain kinds.                                    *)
LEMMA PlainKinds ==
    ASSUME NEW kind \in Kinds
    PROVE  PlainKind(kind) \in Kinds
BY DEF PlainKind, Kinds, Unsafe, PlainLeaves, Bytes, Containers, Keyed

LEMMA PlainNames ==
    {"redacted", "mark", "overwritten", "max_depth_text", "max_depth", "dict"} \subseteq Kinds
BY DEF Kinds, Unsafe, Containers, Keyed

(* The items something else takes the place of: the value under the first  *)
(* key of an odd dict, and the last item of another cut dict.              *)
Covered(u, i) ==
    \/ i = 1 /\ Overwrites(u)
    \/ Len(u.items) > MaxItems /\ u.kind \in Keyed /\ ~Overwrites(u) /\ i = Kept(u.items)

(* How many items are kept.                                                *)
LEMMA KeptOf ==
    ASSUME NEW n \in Nat, NEW items, Len(items) = n
    PROVE  Kept(items) \in Nat /\ Kept(items) <= MaxItems /\ Kept(items) <= n
           /\ (n > MaxItems => Kept(items) = MaxItems) /\ (n <= MaxItems => Kept(items) = n)
           /\ (n # 0 => Kept(items) # 0)
BY TreeAssumption DEF Kept

(* A cut sequence gets the mark as one more item, a cut dict in place of   *)
(* one.                                                                    *)
LEMMA MarkedForm ==
    ASSUME NEW S, NEW items \in Seq(S), items # <<>>, Leaf("mark") \in S, NEW u,
           Len(items) = Kept(u.items), Overwrites(u) => items[1] = Leaf("overwritten")
    PROVE  LET marked == MarkedIf(Len(u.items) > MaxItems, u, items)
               n == Len(items)
           IN  /\ marked \in Seq(S)
               /\ Len(marked) = IF Len(u.items) > MaxItems /\ ~Overwrites(u) THEN n + 1 ELSE n
               /\ \A i \in 1..n :
                     IF Covered(u, i) THEN marked[i] \in {Leaf("mark"), Leaf("overwritten")}
                     ELSE marked[i] = items[i]
<1> DEFINE n == Len(items)
           mark == Leaf("mark")
           cut == Len(u.items) > MaxItems
<1>1. n \in Nat /\ n # 0 /\ items = [i \in 1..n |-> items[i]] /\ \A i \in 1..n : items[i] \in S
  BY EmptySeq, LenProperties, ElementOfSeq
<1>2. CASE ~cut
  <2>1. MarkedIf(cut, u, items) = items
    BY <1>2, Zenon DEF MarkedIf
  <2>2. \A i \in 1..n : Covered(u, i) => items[i] = Leaf("overwritten")
    BY <1>2 DEF Covered
  <2> QED BY <1>2, <2>1, <2>2
<1>3. CASE cut /\ u.kind \in Keyed /\ ~Overwrites(u)
  <2> DEFINE value(i) == IF i < n THEN items[i] ELSE IF i = n THEN mark ELSE items[n]
             marked == [i \in 1..n + 1 |-> value(i)]
  <2>1. MarkedIf(cut, u, items) = marked
    BY <1>3, Zenon DEF MarkedIf
  <2>2. \A i : Covered(u, i) <=> i = n
    BY <1>3 DEF Covered
  <2> HIDE DEF n, mark
  <2>3. \A i \in 1..n + 1 : value(i) \in S
    BY <1>1 DEF mark
  <2>4. n + 1 \in Nat
    BY <1>1
  <2> HIDE DEF value
  <2>5. marked \in Seq(S)
    BY <2>3, <2>4, IsASeq
  <2>6. Len(marked) = n + 1 /\ \A i \in 1..n : marked[i] = value(i)
    BY <1>1, <2>4, <2>5, LenProperties
  <2> HIDE DEF marked
  <2>7. \A i \in 1..n : marked[i] = IF i = n THEN mark ELSE items[i]
    BY <1>1, <2>6 DEF value
  <2> QED BY <1>3, <2>1, <2>2, <2>5, <2>6, <2>7 DEF n, mark
<1>4. CASE cut /\ u.kind \notin Keyed
  <2> DEFINE marked == Append(items, mark)
  <2>1. ~Overwrites(u)
    BY <1>4 DEF Overwrites, Keyed
  <2>2. MarkedIf(cut, u, items) = marked
    BY <1>4, <2>1, Zenon DEF MarkedIf
  <2>3. /\ marked \in Seq(S) /\ Len(marked) = n + 1
        /\ \A i \in 1..n : marked[i] = items[i]
    BY AppendProperties
  <2>4. \A i : ~Covered(u, i)
    BY <1>4, <2>1 DEF Covered
  <2> HIDE DEF marked
  <2> QED BY <1>4, <2>1, <2>2, <2>3, <2>4
<1>5. CASE cut /\ Overwrites(u)
  <2> DEFINE marked == [items EXCEPT ![1] = mark]
  <2>1. u.kind \in Keyed
    BY <1>5 DEF Overwrites, Keyed
  <2>2. MarkedIf(cut, u, items) = marked
    BY <1>5, <2>1, Zenon DEF MarkedIf
  <2>3. /\ marked \in Seq(S) /\ Len(marked) = n
        /\ \A i \in 1..n : marked[i] = IF i = 1 THEN mark ELSE items[i]
    BY <1>1, ExceptSeq
  <2>4. \A i : Covered(u, i) <=> i = 1
    BY <1>5 DEF Covered
  <2> HIDE DEF marked
  <2> QED BY <1>5, <2>2, <2>3, <2>4
<1> QED BY <1>2, <1>3, <1>4, <1>5

(* The items redact keeps, and the mark.                                   *)
PlainItems(u, d) == [i \in 1..Kept(u.items) |-> PlainItem(u, d, i)]
PlainMarked(u, d) == MarkedIf(Len(u.items) > MaxItems, u, PlainItems(u, d))

(* The items of what redact returns, one by one.                           *)
LEMMA PlainItemsForm ==
    ASSUME NEW S, NEW u \in Trees, u.items # <<>>, NEW d \in Nat, Leaf("mark") \in S,
           Leaf("overwritten") \in S,
           \A i \in 1..Kept(u.items) : RedactPlain(u.items[i], d + 1, i \in u.secret) \in S
    PROVE  /\ PlainMarked(u, d) \in Seq(S)
           /\ Len(PlainMarked(u, d)) =
                  IF Len(u.items) > MaxItems /\ ~Overwrites(u) THEN Kept(u.items) + 1
                  ELSE Kept(u.items)
           /\ \A i \in 1..Kept(u.items) :
                  IF Covered(u, i) THEN PlainMarked(u, d)[i] \in {Leaf("mark"), Leaf("overwritten")}
                  ELSE PlainMarked(u, d)[i] = RedactPlain(u.items[i], d + 1, i \in u.secret)
<1> DEFINE n == Kept(u.items)
           items == PlainItems(u, d)
<1>1. n \in Nat /\ n # 0
  BY TreeForm, KeptOf
<1>2. \A i \in 1..n : PlainItem(u, d, i) \in S
  BY DEF PlainItem
<1>3. items = [i \in 1..n |-> PlainItem(u, d, i)]
  BY DEF PlainItems
<1> HIDE DEF n, items
<1>4. items \in Seq(S)
  BY <1>1, <1>2, <1>3, IsASeq
<1>5. Len(items) = n /\ items # <<>> /\ \A i \in 1..n : items[i] = PlainItem(u, d, i)
  BY <1>1, <1>3, <1>4, LenProperties, EmptySeq
<1>6. Overwrites(u) => items[1] = Leaf("overwritten")
  BY <1>1, <1>5 DEF PlainItem
<1>7. LET marked == MarkedIf(Len(u.items) > MaxItems, u, items) IN
      /\ marked \in Seq(S)
      /\ Len(marked) = IF Len(u.items) > MaxItems /\ ~Overwrites(u) THEN n + 1 ELSE n
      /\ \A i \in 1..n :
            IF Covered(u, i) THEN marked[i] \in {Leaf("mark"), Leaf("overwritten")}
            ELSE marked[i] = items[i]
  BY <1>4, <1>5, <1>6, MarkedForm DEF n
<1>8. \A i \in 1..n : ~Covered(u, i) => items[i] = RedactPlain(u.items[i], d + 1, i \in u.secret)
  BY <1>5 DEF Covered, PlainItem
<1>9. PlainMarked(u, d) = MarkedIf(Len(u.items) > MaxItems, u, items)
  BY DEF PlainMarked, items
<1> QED BY <1>7, <1>8, <1>9 DEF n

(* redact makes a tree no higher: what it returns of a level is in that    *)
(* level.                                                                  *)
LEMMA PlainLevel ==
    ASSUME NEW n \in 0..MaxHeight, NEW u \in Levels[n], NEW d \in Nat, NEW s \in BOOLEAN
    PROVE  RedactPlain(u, d, s) \in Levels[n]
<1> DEFINE T == {k \in 0..MaxHeight : \A w \in Levels[k], m \in Nat, t \in BOOLEAN :
                                          RedactPlain(w, m, t) \in Levels[k]}
<1>1. 0 \in T
  <2>1. \A w, m, t : w \in Levels[0] => RedactPlain(w, m, t) \in Levels[0]
    BY LevelsForm
  <2>2. 0 \in 0..MaxHeight
    BY TreeAssumption
  <2> QED BY <2>1, <2>2
<1>2. ASSUME NEW k \in 0..MaxHeight, k + 1 \in 0..MaxHeight, k \in T PROVE k + 1 \in T
  <2>1. SUFFICES ASSUME NEW w \in Levels[k + 1], NEW m \in Nat, NEW t \in BOOLEAN
                 PROVE  RedactPlain(w, m, t) \in Over(Levels[k])
    BY <1>2, LevelsForm
  <2>2. w \in Over(Levels[k]) /\ w \in Trees
    BY <1>2, LevelsForm, LevelsAreTrees
  <2>3. w.kind \in Kinds /\ PlainKind(w.kind) \in Kinds /\ Len(w.items) \in Nat
    BY <2>2, OverForm, PlainKinds
  <2>4. CASE t
    <3>1. RedactPlain(w, m, t) = Leaf("redacted")
      BY <2>4, PlainSecret
    <3>2. Leaf("redacted") \in Over(Levels[k])
      BY PlainNames, LeafOver
    <3> QED BY <3>1, <3>2
  <2>5. CASE ~t /\ m >= MaxDepth
    <3>1. RedactPlain(w, m, t) = Leaf("max_depth_text")
      BY <2>2, <2>5, PlainRec
    <3>2. Leaf("max_depth_text") \in Over(Levels[k])
      BY PlainNames, LeafOver
    <3> QED BY <3>1, <3>2
  <2>6. CASE ~t /\ ~(m >= MaxDepth) /\ (w.items = <<>> \/ w.kind \in Enums)
    <3>1. RedactPlain(w, m, t) = Leaf(PlainKind(w.kind))
      BY <2>2, <2>6, PlainRec
    <3>2. Leaf(PlainKind(w.kind)) \in Over(Levels[k])
      BY <2>3, LeafOver
    <3> QED BY <3>1, <3>2
  <2>7. CASE ~t /\ ~(m >= MaxDepth) /\ ~(w.items = <<>> \/ w.kind \in Enums)
    <3>1. RedactPlain(w, m, t) = Tree(PlainKind(w.kind), PlainMarked(w, m))
      BY <2>2, <2>7, PlainRec DEF PlainMarked, PlainItems
    <3>2. \A i \in 1..Kept(w.items) : w.items[i] \in Levels[k]
      BY <1>2, ItemsBelow
    <3>3. \A i \in 1..Kept(w.items) : RedactPlain(w.items[i], m + 1, i \in w.secret) \in Levels[k]
      <4>1. m + 1 \in Nat /\ \A i : (i \in w.secret) \in BOOLEAN
        OBVIOUS
      <4> QED BY <1>2, <3>2, <4>1
    <3>4. Leaf("mark") \in Levels[k] /\ Leaf("overwritten") \in Levels[k]
      <4>1. Kept(w.items) \in Nat /\ Kept(w.items) # 0
        BY <2>2, <2>3, <2>7, OverForm, KeptOf
      <4>2. w.items[1] \in Levels[k]
        BY <3>2, <4>1
      <4> QED BY <4>2, PlainNames, LeafLevel
    <3>5. PlainMarked(w, m) \in Seq(Levels[k])
      BY <2>2, <2>7, <3>3, <3>4, PlainItemsForm
    <3>6. Tree(PlainKind(w.kind), PlainMarked(w, m)) \in Over(Levels[k])
      BY <2>3, <3>5 DEF Tree, Over
    <3> QED BY <3>1, <3>6
  <2> QED BY <2>4, <2>5, <2>6, <2>7
<1> HIDE DEF T
<1>3. n \in T
  BY <1>1, <1>2, LevelInduction
<1> QED BY <1>3 DEF T

LEMMA PlainTree ==
    ASSUME NEW u \in Trees, NEW d \in Nat, NEW s \in BOOLEAN
    PROVE  RedactPlain(u, d, s) \in Trees
<1>1. MaxHeight \in 0..MaxHeight
  BY TreeAssumption
<1> QED BY <1>1, PlainLevel DEF Trees


-----------------------------------------------------------------------------
(* What arguments.json shows of an argument.                               *)

(* An argument, redacted and then encoded, as arguments.json has it at the *)
(* depth below.                                                            *)
Shown(u, d, s) == Encode(RedactPlain(u, d, s), d + 1, "none")

LEMMA ShownTree ==
    ASSUME NEW u \in Trees, NEW d \in Nat, NEW s \in BOOLEAN
    PROVE  Shown(u, d, s) \in Trees
BY PlainTree, EncodeTree DEF Shown

LEMMA LeafInTrees == ASSUME NEW u \in Trees, NEW kind \in Kinds PROVE Leaf(kind) \in Trees
<1>1. MaxHeight \in 0..MaxHeight
  BY TreeAssumption
<1> QED BY <1>1, LeafLevel DEF Trees

(* A leaf in the place of something stays one.                             *)
LEMMA UnshownLeaf ==
    ASSUME NEW kind \in {"redacted", "mark", "overwritten", "max_depth_text"}, NEW d \in Nat, NEW u \in Trees
    PROVE  LET e == Encode(Leaf(kind), d, "none") IN
           e \in Trees /\ e.kind \in Unshown /\ e.items = <<>>
<1>1. kind \in Kinds /\ "max_depth" \in Kinds
  BY PlainNames
<1>2. Leaf(kind) \in Trees /\ Leaf(kind).kind = kind /\ Leaf(kind).items = <<>>
  BY <1>1, LeafInTrees, LeafOver
<1>3. Encode(Leaf(kind), d, "none") \in Trees
  BY <1>2, EncodeTree
<1>4. CASE d >= MaxDepth
  <2>1. Encode(Leaf(kind), d, "none") = Leaf("max_depth")
    BY <1>2, <1>4, EncodeRec
  <2>2. Leaf("max_depth").kind = "max_depth" /\ Leaf("max_depth").items = <<>>
    BY <1>1, LeafOver
  <2> QED BY <1>3, <2>1, <2>2 DEF Unshown
<1>5. CASE ~(d >= MaxDepth)
  <2>1. Encode(Leaf(kind), d, "none") = EncodedLeaf(kind, "none")
    <3>1. EncodedKind(kind) = kind
      BY DEF EncodedKind
    <3> QED BY <1>2, <1>5, <3>1, EncodeRec
  <2>2. EncodedLeaf(kind, "none").kind = EncodedName(kind, "none")
        /\ EncodedLeaf(kind, "none").items = <<>>
    BY <1>1, EncodedLeafOver
  <2>3. EncodedName(kind, "none") = kind
    BY DEF EncodedName
  <2> QED BY <1>3, <2>1, <2>2, <2>3 DEF Unshown
<1> QED BY <1>4, <1>5

(* Encode on a container, in terms of its items.                           *)
LEMMA EncodeBranch ==
    ASSUME NEW c, NEW u \in Trees, NEW d \in Nat, d < MaxDepth, u.items # <<>>
    PROVE  /\ Encode(u, d, c).kind = EncodedKind(u.kind)
           /\ Encode(u, d, c).items = [i \in 1..Kept(u.items) |-> Encode(u.items[i], d + 1, c)]
<1> DEFINE e == Encode(u, d, c)
           items == [i \in 1..Kept(u.items) |-> Encode(u.items[i], d + 1, c)]
           secret == u.secret \cap 1..Kept(u.items)
           truncated == Len(u.items) > MaxItems
           kind == EncodedKind(u.kind)
<1>1. e = [kind |-> kind, items |-> items, secret |-> secret, truncated |-> truncated]
  <2>1. ~(d >= MaxDepth)
    BY TreeAssumption
  <2> QED BY <2>1, EncodeRec
<1> HIDE DEF e, items, secret, truncated, kind
<1>2. e.kind = kind /\ e.items = items
  BY <1>1
<1> QED BY <1>2 DEF e, items, kind

(* redact on a container, in terms of its items.                           *)
LEMMA PlainBranch ==
    ASSUME NEW u \in Trees, NEW d \in Nat, d < MaxDepth, u.items # <<>>, u.kind \notin Enums
    PROVE  /\ RedactPlain(u, d, FALSE) = Tree(PlainKind(u.kind), PlainMarked(u, d))
           /\ \A i \in 1..Kept(u.items) :
                  IF Covered(u, i) THEN PlainMarked(u, d)[i] \in {Leaf("mark"), Leaf("overwritten")}
                  ELSE PlainMarked(u, d)[i] = RedactPlain(u.items[i], d + 1, i \in u.secret)
           /\ Kept(PlainMarked(u, d)) = Kept(u.items) /\ PlainMarked(u, d) # <<>>
<1>1. RedactPlain(u, d, FALSE) = Tree(PlainKind(u.kind), PlainMarked(u, d))
  <2>1. ~(d >= MaxDepth)
    BY TreeAssumption
  <2> QED BY <2>1, PlainRec DEF PlainMarked, PlainItems
<1>2. /\ Kept(u.items) \in Nat /\ Kept(u.items) # 0 /\ 1..Kept(u.items) \subseteq DOMAIN u.items
      /\ Len(u.items) \in Nat
  <2>1. Len(u.items) \in Nat /\ DOMAIN u.items = 1..Len(u.items) /\ Len(u.items) # 0
    BY TreeForm
  <2>2. Kept(u.items) \in Nat /\ Kept(u.items) # 0 /\ Kept(u.items) <= Len(u.items)
    BY <2>1, KeptOf
  <2> QED BY <2>1, <2>2
<1>3. \A i \in 1..Kept(u.items) : RedactPlain(u.items[i], d + 1, i \in u.secret) \in Trees
  <2>1. d + 1 \in Nat /\ \A i : (i \in u.secret) \in BOOLEAN
    OBVIOUS
  <2>2. \A i \in 1..Kept(u.items) : u.items[i] \in Trees
    BY <1>2, TreeForm
  <2> QED BY <2>1, <2>2, PlainTree
<1>4. Leaf("mark") \in Trees /\ Leaf("overwritten") \in Trees
  BY PlainNames, LeafInTrees
<1>5. /\ Len(PlainMarked(u, d)) =
             IF Len(u.items) > MaxItems /\ ~Overwrites(u) THEN Kept(u.items) + 1 ELSE Kept(u.items)
      /\ \A i \in 1..Kept(u.items) :
             IF Covered(u, i) THEN PlainMarked(u, d)[i] \in {Leaf("mark"), Leaf("overwritten")}
             ELSE PlainMarked(u, d)[i] = RedactPlain(u.items[i], d + 1, i \in u.secret)
  BY <1>3, <1>4, PlainItemsForm
<1>6. /\ Len(u.items) > MaxItems => Kept(u.items) = MaxItems
      /\ ~(Len(u.items) > MaxItems) => Kept(u.items) <= MaxItems
  BY <1>2, KeptOf
<1>7. Kept(PlainMarked(u, d)) = Kept(u.items)
  <2> DEFINE n == Kept(u.items)
             marked == PlainMarked(u, d)
  <2>1. /\ Len(marked) = IF Len(u.items) > MaxItems /\ ~Overwrites(u) THEN n + 1 ELSE n
        /\ Len(u.items) > MaxItems => n = MaxItems
        /\ ~(Len(u.items) > MaxItems) => n <= MaxItems
        /\ n \in Nat
    BY <1>2, <1>5, <1>6
  <2> HIDE DEF n, marked
  <2>2. Kept(marked) = n
    BY <2>1, TreeAssumption DEF Kept
  <2> QED BY <2>2 DEF n, marked
<1>8. PlainMarked(u, d) # <<>>
  <2>1. Len(PlainMarked(u, d)) # 0
    BY <1>2, <1>5
  <2> QED BY <2>1
<1> QED BY <1>1, <1>5, <1>7, <1>8

(* Containers and leaves as redact leaves them, and encode after it.       *)
LEMMA ContainersShown ==
    ASSUME NEW k \in Containers
    PROVE  PlainKind(k) \in {"dict", "list"} /\ k \notin Enums
BY DEF PlainKind, Containers, Keyed, Enums

SecretKinds == {"secret_text", "secret_bytes"}

LEMMA PlainNamesShown ==
    ASSUME NEW x \in {"dict", "list", "redacted", "cut_text", "text", "circular_text", "repr_text",
                      "marked_text", "number", "int_subclass"}
    PROVE  /\ x # "dict_subclass" /\ EncodedName(x, "none") = BaseKind(x)
           /\ BaseKind(x) \in Unshown <=> x = "redacted"
BY DEF EncodedName, BaseKind, Unshown

LEMMA PlainKindsShown ==
    ASSUME NEW k \in PlainLeaves \cup Branches
    PROVE  /\ PlainKind(k) # "dict_subclass"
           /\ EncodedName(PlainKind(k), "none") = BaseKind(PlainKind(k))
           /\ BaseKind(PlainKind(k)) \in Unshown <=> k \in SecretKinds
<1>1. CASE k \in Keyed
  <2>1. PlainKind(k) = "dict" /\ k \notin SecretKinds
    BY <1>1 DEF PlainKind, Keyed, SecretKinds, Enums
  <2> QED BY <2>1, PlainNamesShown
<1>2. CASE k \in {"list", "sequence_subclass"}
  <2>1. PlainKind(k) = "list" /\ k \notin SecretKinds
    BY <1>2 DEF PlainKind, Keyed, SecretKinds, Enums
  <2> QED BY <2>1, PlainNamesShown
<1>3. CASE k \in {"opaque", "custom", "date"} \cup Enums
  <2>1. PlainKind(k) = "repr_text" /\ k \notin SecretKinds
    BY <1>3 DEF PlainKind, Keyed, SecretKinds, Enums
  <2> QED BY <2>1, PlainNamesShown
<1>4. CASE k \in SecretKinds
  <2>1. PlainKind(k) = "redacted"
    BY <1>4 DEF PlainKind, Keyed, SecretKinds, Enums
  <2> QED BY <1>4, <2>1, PlainNamesShown
<1>5. CASE k \in {"long_text", "long_bytes"}
  <2>1. PlainKind(k) = "cut_text" /\ k \notin SecretKinds
    BY <1>5 DEF PlainKind, Keyed, SecretKinds, Enums
  <2> QED BY <2>1, PlainNamesShown
<1>6. CASE k \in {"bytearray", "base64_bytes", "wide_bytes"}
  <2>1. PlainKind(k) = "text" /\ k \notin SecretKinds
    BY <1>6 DEF PlainKind, Keyed, SecretKinds, Enums
  <2> QED BY <2>1, PlainNamesShown
<1>7. CASE k = "cycle"
  <2>1. PlainKind(k) = "circular_text" /\ k \notin SecretKinds
    BY <1>7 DEF PlainKind, Keyed, SecretKinds, Enums
  <2> QED BY <2>1, PlainNamesShown
<1>8. CASE k \in {"marked_text", "number", "int_subclass"}
  <2>1. PlainKind(k) = k /\ k \notin SecretKinds
    BY <1>8 DEF PlainKind, Keyed, Enums, SecretKinds
  <2> QED BY <1>8, <2>1, PlainNamesShown
<1>9. \/ k \in Keyed \/ k \in {"list", "sequence_subclass"}
      \/ k \in {"opaque", "custom", "date"} \cup Enums
      \/ k \in SecretKinds \/ k \in {"long_text", "long_bytes"}
      \/ k \in {"bytearray", "base64_bytes", "wide_bytes"}
      \/ k = "cycle" \/ k \in {"marked_text", "number", "int_subclass"}
  BY DEF Branches, Containers, PlainLeaves, Bytes, SecretKinds
<1> QED BY <1>1, <1>2, <1>3, <1>4, <1>5, <1>6, <1>7, <1>8, <1>9

LEMMA EncodedLeafIs ==
    ASSUME NEW kind, NEW c
    PROVE  EncodedLeaf(kind, c).kind = EncodedName(kind, c) /\ EncodedLeaf(kind, c).items = <<>>
<1> DEFINE name == EncodedName(kind, c)
           cut == (kind \in {"wide_bytes", "long_bytes"})
<1>1. Leaf(name) = [kind |-> name, items |-> <<>>, secret |-> {}, truncated |-> FALSE]
  BY DEF Leaf, Tree
<1>2. EncodedLeaf(kind, c) = [Leaf(name) EXCEPT !.truncated = cut]
  BY DEF EncodedLeaf
<1> HIDE DEF name, cut
<1>3. EncodedLeaf(kind, c).kind = name /\ EncodedLeaf(kind, c).items = <<>>
  BY <1>1, <1>2
<1> QED BY <1>3 DEF name

(* What is shown of a leaf, or of an enum member.                          *)
LEMMA ShownLeaf ==
    ASSUME NEW u \in Trees, NEW d \in Nat, d + 1 < MaxDepth, u.items = <<>> \/ u.kind \in Enums,
           u.kind \in PlainLeaves \cup Branches
    PROVE  LET e == Shown(u, d, FALSE) IN
           /\ e.items = <<>> /\ (e.kind \notin Unshown <=> u.kind \notin SecretKinds)
           /\ e.kind \notin Unshown => e.kind = BaseKind(PlainKind(u.kind))
<1> DEFINE kind == PlainKind(u.kind)
<1>1. kind \in Kinds
  BY TreeForm, PlainKinds
<1>2. RedactPlain(u, d, FALSE) = Leaf(kind)
  <2>1. ~(d >= MaxDepth)
    BY TreeAssumption
  <2> QED BY <2>1, PlainRec
<1>3. /\ kind # "dict_subclass"
      /\ EncodedName(kind, "none") = BaseKind(kind)
      /\ BaseKind(kind) \in Unshown <=> u.kind \in SecretKinds
  BY PlainKindsShown
<1>4. Encode(Leaf(kind), d + 1, "none") = EncodedLeaf(kind, "none")
  <2> HIDE DEF kind
  <2>1. Leaf(kind) \in Trees /\ Leaf(kind).kind = kind /\ Leaf(kind).items = <<>>
    BY <1>1, LeafInTrees, LeafOver
  <2>2. ~(d + 1 >= MaxDepth) /\ d + 1 \in Nat
    BY TreeAssumption
  <2>3. EncodedKind(kind) = kind
    BY <1>3 DEF EncodedKind
  <2> DEFINE leaf == Leaf(kind)
             m == d + 1
  <2>4. leaf \in Trees /\ leaf.kind = kind /\ leaf.items = <<>> /\ m \in Nat /\ ~(m >= MaxDepth)
    BY <2>1, <2>2
  <2> HIDE DEF leaf, m
  <2>5. Encode(leaf, m, "none") = EncodedLeaf(EncodedKind(leaf.kind), "none")
    BY <2>4, EncodeRec
  <2> QED BY <2>3, <2>4, <2>5 DEF leaf, m
<1>5. EncodedLeaf(kind, "none").kind = EncodedName(kind, "none") /\ EncodedLeaf(kind, "none").items = <<>>
  BY <1>1, EncodedLeafIs
<1> HIDE DEF kind
<1> QED BY <1>2, <1>3, <1>4, <1>5 DEF Shown, kind

(* What is shown of a container: its first items, but for those something  *)
(* else has the place of.                                                  *)
LEMMA ShownBranch ==
    ASSUME NEW u \in Trees, NEW d \in Nat, d + 1 < MaxDepth, u.items # <<>>, u.kind \in Containers
    PROVE  LET e == Shown(u, d, FALSE) IN
           /\ e.kind = PlainKind(u.kind) /\ e.kind \in {"dict", "list"}
           /\ DOMAIN e.items = 1..Kept(u.items)
           /\ \A i \in 1..Kept(u.items) :
                 IF Covered(u, i)
                 THEN \E name \in {"mark", "overwritten"} : e.items[i] = Encode(Leaf(name), d + 2, "none")
                 ELSE e.items[i] = Shown(u.items[i], d + 1, i \in u.secret)
<1> DEFINE n == Kept(u.items)
           kind == PlainKind(u.kind)
           marked == PlainMarked(u, d)
           r == RedactPlain(u, d, FALSE)
           e == Encode(r, d + 1, "none")
<1>1. kind \in {"dict", "list"} /\ u.kind \notin Enums
  BY ContainersShown
<1>2. d < MaxDepth
  BY TreeAssumption
<1>3. /\ r = Tree(kind, marked) /\ Kept(marked) = n /\ marked # <<>>
      /\ \A i \in 1..n :
             IF Covered(u, i) THEN marked[i] \in {Leaf("mark"), Leaf("overwritten")}
             ELSE marked[i] = RedactPlain(u.items[i], d + 1, i \in u.secret)
  BY <1>1, <1>2, PlainBranch
<1>4. r \in Trees
  BY PlainTree
<1> HIDE DEF n, kind, marked, r
<1>5. r.kind = kind /\ r.items = marked
  BY <1>3 DEF Tree
<1>6. e.kind = EncodedKind(kind) /\ e.items = [i \in 1..n |-> Encode(marked[i], (d + 1) + 1, "none")]
  BY <1>3, <1>4, <1>5, EncodeBranch
<1>7. e.kind = kind
  BY <1>1, <1>6 DEF EncodedKind
<1> HIDE DEF e
<1>8. (d + 1) + 1 = d + 2
  OBVIOUS
<1>9. DOMAIN e.items = 1..n /\ \A i \in 1..n : e.items[i] = Encode(marked[i], d + 2, "none")
  BY <1>6, <1>8
<1>10. ASSUME NEW i \in 1..n
       PROVE  IF Covered(u, i)
              THEN \E name \in {"mark", "overwritten"} : e.items[i] = Encode(Leaf(name), d + 2, "none")
              ELSE e.items[i] = Shown(u.items[i], d + 1, i \in u.secret)
  <2>1. CASE Covered(u, i)
    <3>1. PICK name \in {"mark", "overwritten"} : marked[i] = Leaf(name)
      BY <1>3, <2>1
    <3> QED BY <1>9, <2>1, <3>1
  <2>2. CASE ~Covered(u, i)
    BY <1>3, <1>8, <1>9, <2>2 DEF Shown
  <2> QED BY <2>1, <2>2
<1> QED BY <1>1, <1>7, <1>9, <1>10 DEF e, r, n, kind, Shown

(* What has no items shows nothing below itself.                           *)
LEMMA NothingShown ==
    ASSUME NEW e \in Trees, e.items = <<>>, NEW i \in Nat, NEW p \in Seq(Nat)
    PROVE  ~ShownAt(e, <<i>> \o p) /\ <<i>> \o p \notin Places(e)
<1>1. DOMAIN e.items = {}
  OBVIOUS
<1> QED BY <1>1, PlacesSplit DEF ShownAt

LEMMA TwoMore == \A d \in Nat : d + 1 \in Nat /\ d + 2 \in Nat
OBVIOUS

(* Shown as e at q is what u has there, if it may be shown.                *)
Agrees(e, q, visible, u) ==
    /\ ShownAt(e, q) <=> visible /\ At(u, q).kind \notin SecretKinds
    /\ ShownAt(e, q) => At(e, q).kind = BaseKind(PlainKind(At(u, q).kind))

(* An item that agrees with what it shows makes the places below it agree. *)
LEMMA AgreesBelow ==
    ASSUME NEW e \in Trees, NEW u \in Trees, NEW i \in Nat, NEW p \in Seq(Nat), NEW visible,
           i \in DOMAIN e.items, Agrees(e.items[i], p, visible, u.items[i])
    PROVE  Agrees(e, <<i>> \o p, visible, u)
<1>1. ShownAt(e, <<i>> \o p) <=> ShownAt(e.items[i], p)
  BY ShownSplit
<1>2. At(e, <<i>> \o p) = At(e.items[i], p) /\ At(u, <<i>> \o p) = At(u.items[i], p)
  BY AtItem
<1> QED BY <1>1, <1>2, Zenon DEF Agrees

LEMMA EncodeTooDeep ==
    ASSUME NEW c, NEW u \in Trees, NEW d \in Nat, d >= MaxDepth
    PROVE  Encode(u, d, c) = Leaf("max_depth")
BY EncodeRec

(* Past the depth limit nothing is shown, and nothing may be.              *)
LEMMA TooDeep ==
    ASSUME NEW u \in Trees, NEW d \in Nat, d + 1 >= MaxDepth, NEW q \in Seq(Nat)
    PROVE  Agrees(Shown(u, d, FALSE), q, Visible(u, d + 1, q), u)
<1> DEFINE e == Shown(u, d, FALSE)
<1>1. RedactPlain(u, d, FALSE) \in Trees
  BY PlainTree
<1>2. e = Leaf("max_depth")
  <2> DEFINE r == RedactPlain(u, d, FALSE)
  <2>0. d + 1 \in Nat
    BY TreeAssumption
  <2>1. d + 1 \in Nat /\ r \in Trees
    BY <1>1, <2>0, Zenon
  <2> HIDE DEF r
  <2>2. Encode(r, d + 1, "none") = Leaf("max_depth")
    BY <2>1, EncodeTooDeep
  <2> QED BY <2>2 DEF Shown, r
<1>3. e \in Trees /\ e.kind = "max_depth" /\ e.items = <<>>
  BY <1>2, PlainNames, LeafInTrees, LeafOver
<1> HIDE DEF e
<1>4. ~ShownAt(e, q)
  <2>1. CASE q = <<>>
    BY <1>3, <2>1, ShownSplit DEF Unshown
  <2>2. CASE q # <<>>
    <3>1. PICK i \in Nat : \E p \in Seq(Nat) : q = <<i>> \o p
      BY <2>2, Shorter
    <3>2. PICK p \in Seq(Nat) : q = <<i>> \o p
      BY <3>1
    <3> QED BY <1>3, <3>2, NothingShown
  <2> QED BY <2>1, <2>2
<1>5. ~Visible(u, d + 1, q)
  <2>1. ~(d + 1 + Len(q) < MaxDepth)
    BY TreeAssumption
  <2> QED BY <2>1 DEF Visible
<1> QED BY <1>4, <1>5 DEF Agrees, e

(* A leaf, redacted and encoded, shows what may be shown of it.            *)
LEMMA LeafAgrees ==
    ASSUME NEW u \in Trees, NEW d \in Nat, d + 1 < MaxDepth, u.items = <<>> \/ u.kind \in Enums,
           u.kind \in PlainLeaves \cup Branches, NEW q \in Seq(Nat)
    PROVE  Agrees(Shown(u, d, FALSE), q, Visible(u, d + 1, q), u)
<1> DEFINE e == Shown(u, d, FALSE)
<1>1. /\ e \in Trees /\ e.items = <<>> /\ (e.kind \notin Unshown <=> u.kind \notin SecretKinds)
      /\ e.kind \notin Unshown => e.kind = BaseKind(PlainKind(u.kind))
  BY ShownTree, ShownLeaf
<1> HIDE DEF e
<1>2. CASE q = <<>>
  <2>1. (ShownAt(e, q) <=> e.kind \notin Unshown) /\ At(e, q) = e /\ At(u, q) = u
    BY <1>1, <1>2, ShownSplit, AtEmpty
  <2>2. Visible(u, d + 1, q)
    BY <1>2, VisibleSplit
  <2> QED BY <1>1, <2>1, <2>2 DEF Agrees, e
<1>3. CASE q # <<>>
  <2>1. PICK i \in Nat : \E p \in Seq(Nat) : q = <<i>> \o p
    BY <1>3, Shorter
  <2>2. PICK p \in Seq(Nat) : q = <<i>> \o p
    BY <2>1
  <2>3. ~ShownAt(e, q)
    BY <1>1, <2>2, NothingShown
  <2>4. ~Visible(u, d + 1, q)
    <3>1. u.kind \in Enums => Room(u) = {}
      <4>1. u.kind \in Enums => ~Overwrites(u) /\ u.kind \notin Keyed
        BY DEF Enums, Overwrites, Keyed
      <4> HIDE DEF e
      <4>2. SUFFICES ASSUME u.kind \in Enums PROVE Room(u) = {}
        OBVIOUS
      <4> QED BY <4>1, <4>2, Zenon DEF Room
    <3>2. ~(i \in DOMAIN u.items /\ i \in Room(u))
      BY <3>1
    <3> QED BY <2>2, <3>2, VisibleSplit
  <2> QED BY <2>3, <2>4 DEF Agrees, e
<1> QED BY <1>2, <1>3

(* The items there is room for are those kept that nothing else takes the  *)
(* place of.                                                               *)
LEMMA RoomForm ==
    ASSUME NEW u \in Trees, u.kind \in Containers, NEW i \in Nat
    PROVE  i \in DOMAIN u.items /\ i \in Room(u) <=> i \in 1..Kept(u.items) /\ ~Covered(u, i)
<1>1. DOMAIN u.items = 1..Len(u.items) /\ Len(u.items) \in Nat
  BY TreeForm
<1>2. u.kind \notin Enums
  BY ContainersShown
<1>3. Kept(u.items) = IF Len(u.items) > MaxItems THEN MaxItems ELSE Len(u.items)
  BY DEF Kept
<1>4. CASE Overwrites(u)
  <2>1. Room(u) = 2..MaxItems
    BY <1>2, <1>4, Zenon DEF Room
  <2>2. Covered(u, i) <=> i = 1
    BY <1>4 DEF Covered
  <2> QED BY <1>1, <1>3, <2>1, <2>2, TreeAssumption
<1>5. CASE ~Overwrites(u) /\ u.kind \in Keyed /\ Len(u.items) > MaxItems
  <2>1. Room(u) = 1..MaxItems - 1
    BY <1>2, <1>5, Zenon DEF Room
  <2>2. Covered(u, i) <=> i = MaxItems
    BY <1>3, <1>5 DEF Covered
  <2> QED BY <1>1, <1>3, <1>5, <2>1, <2>2, TreeAssumption
<1>6. CASE ~Overwrites(u) /\ ~(u.kind \in Keyed /\ Len(u.items) > MaxItems)
  <2>1. Room(u) = 1..MaxItems
    BY <1>2, <1>6, Zenon DEF Room
  <2>2. ~Covered(u, i)
    BY <1>6 DEF Covered
  <2> QED BY <1>1, <1>3, <2>1, <2>2, TreeAssumption
<1> QED BY <1>4, <1>5, <1>6

(* A container agrees with what it shows when its items do.                *)
LEMMA BranchAgrees ==
    ASSUME NEW u \in Trees, NEW d \in Nat, d + 1 < MaxDepth, u.items # <<>>, u.kind \in Containers,
           \A i \in DOMAIN u.items, p \in Seq(Nat) :
               Agrees(Shown(u.items[i], d + 1, FALSE), p, Visible(u.items[i], (d + 1) + 1, p), u.items[i]),
           NEW q \in Seq(Nat)
    PROVE  Agrees(Shown(u, d, FALSE), q, Visible(u, d + 1, q), u)
<1> DEFINE e == Shown(u, d, FALSE)
<1>1. /\ e.kind = PlainKind(u.kind) /\ e.kind \in {"dict", "list"}
      /\ DOMAIN e.items = 1..Kept(u.items)
      /\ \A i \in 1..Kept(u.items) :
            IF Covered(u, i)
            THEN \E name \in {"mark", "overwritten"} : e.items[i] = Encode(Leaf(name), d + 2, "none")
            ELSE e.items[i] = Shown(u.items[i], d + 1, i \in u.secret)
  BY ShownBranch
<1>2. e \in Trees
  BY ShownTree
<1>3. \A i \in Nat : i \in DOMAIN u.items /\ i \in Room(u) <=> i \in 1..Kept(u.items) /\ ~Covered(u, i)
  BY RoomForm
<1> HIDE DEF e
<1>4. CASE q = <<>>
  <2>1. (ShownAt(e, q) <=> e.kind \notin Unshown) /\ At(e, q) = e /\ At(u, q) = u
    BY <1>2, <1>4, ShownSplit, AtEmpty
  <2>2. Visible(u, d + 1, q)
    BY <1>4, VisibleSplit
  <2>3. e.kind \notin Unshown /\ e.kind = BaseKind(PlainKind(u.kind))
    BY <1>1 DEF Unshown, BaseKind
  <2>4. u.kind \notin SecretKinds
    BY DEF Containers, Keyed, SecretKinds
  <2> QED BY <2>1, <2>2, <2>3, <2>4 DEF Agrees, e
<1>5. CASE q # <<>>
  <2>1. PICK i \in Nat : \E p \in Seq(Nat) : q = <<i>> \o p
    BY <1>5, Shorter
  <2>2. PICK p \in Seq(Nat) : q = <<i>> \o p
    BY <2>1
  <2>3. ShownAt(e, q) <=> i \in 1..Kept(u.items) /\ ShownAt(e.items[i], p)
    BY <1>1, <1>2, <2>2, ShownSplit
  <2>4. Visible(u, d + 1, q) <=> /\ i \in 1..Kept(u.items) /\ ~Covered(u, i) /\ i \notin u.secret
                                 /\ Visible(u.items[i], (d + 1) + 1, p)
    <3>1. Visible(u, d + 1, q) <=> /\ i \in DOMAIN u.items /\ i \notin u.secret /\ i \in Room(u)
                                   /\ Visible(u.items[i], (d + 1) + 1, p)
      BY <2>2, VisibleSplit
    <3> QED BY <1>3, <3>1
  <2>5. CASE i \notin 1..Kept(u.items)
    BY <2>3, <2>4, <2>5 DEF Agrees, e
  <2>6. CASE i \in 1..Kept(u.items) /\ (Covered(u, i) \/ i \in u.secret)
    <3>1. PICK kind \in {"redacted", "mark", "overwritten", "max_depth_text"} :
                   e.items[i] = Encode(Leaf(kind), d + 2, "none")
      <4>1. CASE Covered(u, i)
        BY <1>1, <2>6, <4>1
      <4>2. CASE ~Covered(u, i)
        <5>1. e.items[i] = Shown(u.items[i], d + 1, TRUE)
          BY <1>1, <2>6, <4>2
        <5>2. (d + 1) + 1 = d + 2
          OBVIOUS
        <5> QED BY <5>1, <5>2, PlainSecret DEF Shown
      <4> QED BY <4>1, <4>2
    <3>2. e.items[i] \in Trees /\ e.items[i].kind \in Unshown /\ e.items[i].items = <<>>
      <4>1. d + 2 \in Nat
        BY TwoMore
      <4> QED BY <3>1, <4>1, UnshownLeaf
    <3>3. ~ShownAt(e.items[i], p)
      <4>1. CASE p = <<>>
        BY <3>2, <4>1, ShownSplit
      <4>2. CASE p # <<>>
        <5>1. PICK j \in Nat : \E r \in Seq(Nat) : p = <<j>> \o r
          BY <4>2, Shorter
        <5>2. PICK r \in Seq(Nat) : p = <<j>> \o r
          BY <5>1
        <5> QED BY <3>2, <5>2, NothingShown
      <4> QED BY <4>1, <4>2
    <3> QED BY <2>3, <2>4, <2>6, <3>3 DEF Agrees, e
  <2>7. CASE i \in 1..Kept(u.items) /\ ~(Covered(u, i) \/ i \in u.secret)
    <3>1. i \in DOMAIN u.items
      BY <1>3, <2>7
    <3>2. e.items[i] = Shown(u.items[i], d + 1, FALSE)
      <4>1. (i \in u.secret) = FALSE
        BY <2>7
      <4> QED BY <1>1, <2>7, <4>1
    <3>3. Agrees(e.items[i], p, Visible(u.items[i], (d + 1) + 1, p), u.items[i])
      BY <3>1, <3>2
    <3>4. Agrees(e, q, Visible(u.items[i], (d + 1) + 1, p), u)
      BY <1>1, <1>2, <2>2, <2>7, <3>3, AgreesBelow
    <3>5. Visible(u, d + 1, q) <=> Visible(u.items[i], (d + 1) + 1, p)
      BY <2>4, <2>7
    <3> QED BY <3>4, <3>5 DEF Agrees, e
  <2> QED BY <2>5, <2>6, <2>7
<1> QED BY <1>4, <1>5

(* By induction over trees, every argument agrees with what arguments.json *)
(* shows of it, at any depth and at every place.                           *)
LEMMA ArgumentAgrees ==
    ASSUME NEW v \in Trees, NEW depth \in Nat, Plainly(v, depth + 1), NEW place \in Seq(Nat)
    PROVE  Agrees(Shown(v, depth, FALSE), place, Visible(v, depth + 1, place), v)
<1> DEFINE T == {u \in Trees : \A d \in Nat, q \in Seq(Nat) : Plainly(u, d + 1) =>
                    Agrees(Shown(u, d, FALSE), q, Visible(u, d + 1, q), u)}
<1>1. ASSUME NEW u \in Trees, \A i \in DOMAIN u.items : u.items[i] \in T
      PROVE  u \in T
  <2>1. SUFFICES ASSUME NEW d \in Nat, NEW q \in Seq(Nat), Plainly(u, d + 1)
                 PROVE  Agrees(Shown(u, d, FALSE), q, Visible(u, d + 1, q), u)
    OBVIOUS
  <2>2. d + 1 \in Nat
    OBVIOUS
  <2>3. PlainPart(Part(u, d + 1)) /\ \A i \in DOMAIN u.items : Plainly(u.items[i], (d + 1) + 1)
    BY <2>1, <2>2, PartsSplit
  <2>4. u.kind \in PlainLeaves \cup Branches /\ (u.kind \in PlainLeaves => u.items = <<>>)
    BY <2>2, <2>3, PartForm
  <2>5. \A i \in DOMAIN u.items, p \in Seq(Nat) :
            Agrees(Shown(u.items[i], d + 1, FALSE), p, Visible(u.items[i], (d + 1) + 1, p), u.items[i])
    BY <1>1, <2>2, <2>3
  <2> HIDE DEF T
  <2>6. CASE ~(d + 1 < MaxDepth)
    <3>1. d + 1 >= MaxDepth
      BY <2>6, TreeAssumption
    <3> QED BY <2>1, <3>1, TooDeep
  <2>7. CASE d + 1 < MaxDepth /\ (u.items = <<>> \/ u.kind \in Enums)
    BY <2>1, <2>4, <2>7, LeafAgrees
  <2>8. CASE d + 1 < MaxDepth /\ ~(u.items = <<>> \/ u.kind \in Enums)
    <3>1. u.kind \in Containers
      BY <2>4, <2>8 DEF Branches
    <3> QED BY <2>1, <2>5, <2>8, <3>1, BranchAgrees
  <2> QED BY <2>6, <2>7, <2>8
<1>2. v \in T
  <2> HIDE DEF T
  <2>1. Trees \subseteq T
    BY <1>1, TreeInduction
  <2> QED BY <2>1
<1> QED BY <1>2

(* arguments.json as a whole.                                              *)
RedactedItems(v) == [i \in DOMAIN v.items |-> RedactPlain(v.items[i], 0, i \in v.secret)]

(* The redacted arguments are a tree again, with as many items.            *)
LEMMA RedactedForm ==
    ASSUME NEW v \in Trees
    PROVE  /\ Tree("dict", RedactedItems(v)) \in Trees
           /\ Len(RedactedItems(v)) = Len(v.items)
           /\ Kept(RedactedItems(v)) = Kept(v.items)
           /\ RedactedItems(v) = <<>> <=> v.items = <<>>
<1> DEFINE n == MaxHeight - 1
           items == RedactedItems(v)
           value(i) == RedactPlain(v.items[i], 0, i \in v.secret)
<1>1. MaxHeight # 0
  BY LevelsForm DEF Trees
<1>2. n \in 0..MaxHeight /\ n + 1 = MaxHeight /\ n + 1 \in 0..MaxHeight
  BY <1>1, TreeAssumption
<1>3. Trees = Over(Levels[n])
  BY <1>2, LevelsForm DEF Trees
<1>4. /\ \A i \in DOMAIN v.items : v.items[i] \in Levels[n]
      /\ Len(v.items) \in Nat /\ DOMAIN v.items = 1..Len(v.items)
      /\ Len(v.items) = 0 <=> v.items = <<>>
  BY <1>3, OverForm
<1> HIDE DEF n
<1>5. \A i \in 1..Len(v.items) : value(i) \in Levels[n]
  <2>1. 0 \in Nat /\ \A i : (i \in v.secret) \in BOOLEAN
    OBVIOUS
  <2> QED BY <1>2, <1>4, <2>1, PlainLevel
<1> HIDE DEF value
<1>6. items = [i \in 1..Len(v.items) |-> value(i)]
  BY <1>4 DEF RedactedItems, value
<1>7. items \in Seq(Levels[n])
  BY <1>4, <1>5, <1>6, IsASeq
<1>8. Len(items) = Len(v.items) /\ (items = <<>> <=> v.items = <<>>)
  BY <1>4, <1>6, <1>7, LenProperties, EmptySeq
<1> HIDE DEF items
<1>9. Tree("dict", items) \in Over(Levels[n])
  <2>1. "dict" \in Kinds
    BY PlainNames
  <2> QED BY <1>7, <2>1 DEF Tree, Over
<1> QED BY <1>3, <1>8, <1>9 DEF items, Kept

(* With no depth at all nothing is written; otherwise a dict of the first  *)
(* items, each redacted and encoded.                                       *)
LEMMA ArgumentsDeep ==
    ASSUME NEW v \in Trees, MaxDepth = 0
    PROVE  Arguments(v) = Leaf("max_depth")
<1> DEFINE r == Tree("dict", RedactedItems(v))
<1>1. r \in Trees
  BY RedactedForm
<1>2. Arguments(v) = Encode(r, 0, "none")
  BY DEF Arguments, RedactedItems
<1> HIDE DEF r
<1>3. 0 \in Nat /\ 0 >= MaxDepth
  OBVIOUS
<1> QED BY <1>1, <1>2, <1>3, EncodeTooDeep

LEMMA ArgumentsAt ==
    ASSUME NEW v \in Trees, 0 < MaxDepth
    PROVE  LET e == Arguments(v) IN
           /\ e \in Trees /\ e.kind = "dict" /\ DOMAIN e.items = 1..Kept(v.items)
           /\ \A i \in 1..Kept(v.items) : e.items[i] = Shown(v.items[i], 0, i \in v.secret)
<1> DEFINE items == RedactedItems(v)
           r == Tree("dict", items)
           e == Encode(r, 0, "none")
<1>1. /\ r \in Trees /\ Kept(items) = Kept(v.items) /\ (items = <<>> <=> v.items = <<>>)
      /\ Len(items) = Len(v.items)
  BY RedactedForm
<1>2. Arguments(v) = e
  BY DEF Arguments, RedactedItems
<1>3. r.kind = "dict" /\ r.items = items
  BY DEF Tree
<1>4. Len(v.items) \in Nat /\ DOMAIN v.items = 1..Len(v.items) /\ (Len(v.items) = 0 <=> v.items = <<>>)
  BY TreeForm
<1>5. /\ Kept(v.items) \in Nat /\ Kept(v.items) <= Len(v.items)
      /\ 1..Kept(v.items) \subseteq DOMAIN v.items
  BY <1>4, KeptOf
<1>6. \A i \in DOMAIN v.items : items[i] = RedactPlain(v.items[i], 0, i \in v.secret)
  BY DEF RedactedItems
<1> HIDE DEF items, r
<1>7. e \in Trees
  <2>1. 0 \in Nat
    OBVIOUS
  <2> QED BY <1>1, <2>1, EncodeTree
<1> HIDE DEF e
<1>8. CASE items = <<>>
  <2>1. e = EncodedLeaf("dict", "none")
    <3>1. EncodedKind("dict") = "dict" /\ 0 \in Nat /\ ~(0 >= MaxDepth)
      BY TreeAssumption DEF EncodedKind
    <3> QED BY <1>1, <1>3, <1>8, <3>1, EncodeRec DEF e
  <2>2. "dict" \in Kinds
    BY PlainNames
  <2>3. EncodedLeaf("dict", "none").kind = EncodedName("dict", "none")
        /\ EncodedLeaf("dict", "none").items = <<>>
    BY <2>2, EncodedLeafOver
  <2>4. EncodedName("dict", "none") = "dict"
    BY DEF EncodedName
  <2>5. e.kind = "dict" /\ e.items = <<>>
    BY <2>1, <2>3, <2>4
  <2>6. Kept(v.items) = 0
    BY <1>1, <1>4, <1>5, <1>8
  <2>7. DOMAIN e.items = 1..Kept(v.items) /\ 1..Kept(v.items) = {}
    BY <2>5, <2>6
  <2> QED BY <1>2, <1>7, <2>5, <2>7 DEF e
<1>9. CASE items # <<>>
  <2>1. e.kind = EncodedKind("dict") /\ e.items = [i \in 1..Kept(items) |-> Encode(items[i], 0 + 1, "none")]
    <3>1. 0 \in Nat
      OBVIOUS
    <3> QED BY <1>1, <1>3, <1>9, <3>1, EncodeBranch DEF e
  <2>2. e.kind = "dict"
    BY <2>1 DEF EncodedKind
  <2>3. DOMAIN e.items = 1..Kept(v.items)
        /\ \A i \in 1..Kept(v.items) : e.items[i] = Encode(items[i], 0 + 1, "none")
    BY <1>1, <2>1
  <2>4. \A i \in 1..Kept(v.items) : e.items[i] = Shown(v.items[i], 0, i \in v.secret)
    BY <1>5, <1>6, <2>3 DEF Shown
  <2> QED BY <1>2, <1>7, <2>2, <2>3, <2>4 DEF e
<1> QED BY <1>8, <1>9

(* An item that is redacted is nothing but that.                           *)
LEMMA SecretShown ==
    ASSUME NEW v \in Trees, NEW u, NEW d \in Nat
    PROVE  Shown(u, d, TRUE) \in Trees /\ Shown(u, d, TRUE).kind \in Unshown /\ Shown(u, d, TRUE).items = <<>>
<1>1. Shown(u, d, TRUE) = Encode(Leaf("redacted"), d + 1, "none")
  BY PlainSecret DEF Shown
<1>2. d + 1 \in Nat
  OBVIOUS
<1> QED BY <1>1, <1>2, UnshownLeaf

(* A leaf that is not shown shows nothing anywhere.                        *)
LEMMA LeafHidden ==
    ASSUME NEW e \in Trees, e.items = <<>>, e.kind \in Unshown, NEW q \in Seq(Nat)
    PROVE  ~ShownAt(e, q)
<1>1. CASE q = <<>>
  BY <1>1, ShownSplit
<1>2. CASE q # <<>>
  <2>1. PICK i \in Nat : \E p \in Seq(Nat) : q = <<i>> \o p
    BY <1>2, Shorter
  <2>2. PICK p \in Seq(Nat) : q = <<i>> \o p
    BY <2>1
  <2> QED BY <2>2, NothingShown
<1> QED BY <1>1, <1>2

(* arguments.json shows what it has to, and what it shows is what is       *)
(* there.                                                                  *)
LEMMA ArgumentsAgree ==
    ASSUME NEW v \in Trees, Plainly(v, 0), v.kind \in {"list", "dict"}, NEW q \in Seq(Nat)
    PROVE  LET e == Arguments(v) IN
           /\ ShownAt(e, q) <=> q \in ShownPlaces(v) /\ At(v, q).kind \notin SecretKinds
           /\ ShownAt(e, q) /\ q # <<>> => At(e, q).kind = BaseKind(PlainKind(At(v, q).kind))
<1> DEFINE e == Arguments(v)
<1>1. CASE ~(0 < MaxDepth)
  <2>1. MaxDepth = 0
    BY <1>1, TreeAssumption
  <2>2. e = Leaf("max_depth")
    BY <2>1, ArgumentsDeep
  <2>3. e \in Trees /\ e.items = <<>> /\ e.kind \in Unshown
    <3>1. "max_depth" \in Kinds
      BY PlainNames
    <3>2. Leaf("max_depth") \in Trees /\ Leaf("max_depth").items = <<>> /\ Leaf("max_depth").kind = "max_depth"
      BY <3>1, LeafInTrees, LeafOver
    <3> QED BY <2>2, <3>2 DEF Unshown
  <2> HIDE DEF e
  <2>4. ~ShownAt(e, q)
    BY <2>3, LeafHidden
  <2>5. q \notin ShownPlaces(v)
    <3>1. Len(q) \in Nat /\ ~(Len(q) < MaxDepth)
      BY <2>1, LenProperties
    <3> QED BY <3>1 DEF ShownPlaces
  <2> QED BY <2>4, <2>5 DEF e
<1>2. CASE 0 < MaxDepth
  <2>1. /\ e \in Trees /\ e.kind = "dict" /\ DOMAIN e.items = 1..Kept(v.items)
        /\ \A i \in 1..Kept(v.items) : e.items[i] = Shown(v.items[i], 0, i \in v.secret)
    BY <1>2, ArgumentsAt
  <2> HIDE DEF e
  <2>2. CASE q = <<>>
    <3>1. (ShownAt(e, q) <=> e.kind \notin Unshown) /\ At(v, q) = v
      BY <2>1, <2>2, ShownSplit, AtEmpty
    <3>2. e.kind \notin Unshown /\ v.kind \notin SecretKinds
      BY <2>1 DEF Unshown, SecretKinds
    <3>3. q \in ShownPlaces(v)
      BY <1>2, <2>2, ShownPlacesSplit
    <3> QED BY <2>2, <3>1, <3>2, <3>3 DEF e
  <2>3. CASE q # <<>>
    <3>1. PICK i \in Nat : \E p \in Seq(Nat) : q = <<i>> \o p
      BY <2>3, Shorter
    <3>2. PICK p \in Seq(Nat) : q = <<i>> \o p
      BY <3>1
    <3>3. ShownAt(e, q) <=> i \in 1..Kept(v.items) /\ ShownAt(e.items[i], p)
      BY <2>1, <3>2, ShownSplit
    <3>4. q \in ShownPlaces(v) <=> /\ i \in 1..Kept(v.items) /\ i \notin v.secret
                                   /\ Visible(v.items[i], 1, p)
      <4>1. i \in DOMAIN v.items /\ i <= MaxItems <=> i \in 1..Kept(v.items)
        <5>1. DOMAIN v.items = 1..Len(v.items) /\ Len(v.items) \in Nat
          BY TreeForm
        <5> QED BY <5>1, TreeAssumption DEF Kept
      <4>2. q \in ShownPlaces(v) <=> /\ i \in DOMAIN v.items /\ i \notin v.secret /\ i <= MaxItems
                                     /\ Visible(v.items[i], 1, p)
        BY <3>2, ShownPlacesSplit
      <4> QED BY <4>1, <4>2
    <3>5. CASE i \notin 1..Kept(v.items)
      BY <3>3, <3>4, <3>5 DEF e
    <3>6. CASE i \in 1..Kept(v.items) /\ i \in v.secret
      <4>1. e.items[i] = Shown(v.items[i], 0, TRUE)
        BY <2>1, <3>6
      <4>2. e.items[i] \in Trees /\ e.items[i].kind \in Unshown /\ e.items[i].items = <<>>
        BY <4>1, SecretShown
      <4>3. ~ShownAt(e.items[i], p)
        BY <4>2, LeafHidden
      <4> QED BY <3>3, <3>4, <3>6, <4>3 DEF e
    <3>7. CASE i \in 1..Kept(v.items) /\ i \notin v.secret
      <4>1. e.items[i] = Shown(v.items[i], 0, FALSE)
        <5>1. (i \in v.secret) = FALSE
          BY <3>7
        <5> QED BY <2>1, <3>7, <5>1
      <4>2. v.items[i] \in Trees /\ Plainly(v.items[i], 0 + 1)
        <5>1. i \in DOMAIN v.items
          <6>1. Len(v.items) \in Nat /\ DOMAIN v.items = 1..Len(v.items)
            BY TreeForm
          <6>2. 1..Kept(v.items) \subseteq DOMAIN v.items
            BY <6>1, KeptOf
          <6> QED BY <3>7, <6>2
        <5>2. 0 \in Nat
          OBVIOUS
        <5> QED BY <5>1, <5>2, TreeForm, PartsSplit
      <4>3. Agrees(e.items[i], p, Visible(v.items[i], 0 + 1, p), v.items[i])
        <5>1. 0 \in Nat
          OBVIOUS
        <5> QED BY <3>2, <4>1, <4>2, <5>1, ArgumentAgrees
      <4>4. Agrees(e, q, Visible(v.items[i], 0 + 1, p), v)
        BY <2>1, <3>2, <3>7, <4>3, AgreesBelow
      <4>5. q \in ShownPlaces(v) <=> Visible(v.items[i], 0 + 1, p)
        BY <3>4, <3>7
      <4> QED BY <4>4, <4>5 DEF Agrees, e
    <3> QED BY <3>5, <3>6, <3>7
  <2> QED BY <2>2, <2>3
<1> QED BY <1>1, <1>2

(* What is redacted of a lossless value is what base64 hides, or is under  *)
(* the first key of an odd dict.                                           *)
Nameless(q, u) == q # <<>> /\ q[Len(q)] = 1 /\ At(u, SubSeq(q, 1, Len(q) - 1)).kind = "odd_dict"
OnlyBytes(e, q, u) ==
    q \in Places(e) /\ At(e, q).kind = "redacted" => At(u, q).kind = "secret_bytes" \/ Nameless(q, u)

LEMMA NamelessBelow ==
    ASSUME NEW u \in Trees, NEW i \in Nat, NEW p \in Seq(Nat), Nameless(p, u.items[i])
    PROVE  Nameless(<<i>> \o p, u)
<1> DEFINE q == <<i>> \o p
           n == Len(p)
<1>1. n \in Nat /\ n # 0 /\ n \in 1..n /\ p[n] = 1
  <2>1. p # <<>> /\ p[n] = 1
    BY DEF Nameless
  <2>2. n \in Nat /\ n # 0
    BY <2>1, LenProperties, EmptySeq
  <2> QED BY <2>1, <2>2
<1>2. Len(q) = n + 1 /\ q[n + 1] = p[n] /\ (n + 1) - 1 = n /\ q # <<>>
  BY <1>1, Longer
<1>3. SubSeq(q, 1, n) = <<i>> \o SubSeq(p, 1, n - 1) /\ SubSeq(p, 1, n - 1) \in Seq(Nat)
  BY <1>1, FirstOfLonger
<1>4. At(u, SubSeq(q, 1, n)) = At(u.items[i], SubSeq(p, 1, n - 1))
  BY <1>3, AtItem
<1> HIDE DEF q, n
<1>5. At(u.items[i], SubSeq(p, 1, n - 1)).kind = "odd_dict"
  BY DEF Nameless, n
<1>6. SubSeq(q, 1, Len(q) - 1) = SubSeq(q, 1, n) /\ q[Len(q)] = 1
  BY <1>1, <1>2
<1> QED BY <1>2, <1>4, <1>5, <1>6 DEF Nameless, q

LEMMA OnlyBytesBelow ==
    ASSUME NEW e \in Trees, NEW u \in Trees, NEW i \in Nat, NEW p \in Seq(Nat),
           OnlyBytes(e.items[i], p, u.items[i])
    PROVE  OnlyBytes(e, <<i>> \o p, u)
<1>1. <<i>> \o p \in Places(e) => p \in Places(e.items[i])
  BY PlacesSplit
<1>2. At(e, <<i>> \o p) = At(e.items[i], p) /\ At(u, <<i>> \o p) = At(u.items[i], p)
  BY AtItem
<1>3. Nameless(p, u.items[i]) => Nameless(<<i>> \o p, u)
  BY NamelessBelow
<1> QED BY <1>1, <1>2, <1>3, Zenon DEF OnlyBytes

(* Only secret bytes are redacted from a lossless leaf.                    *)
LEMMA LeafBytes ==
    ASSUME NEW u \in Trees, NEW d \in Nat, d + 1 < MaxDepth, u.items = <<>> \/ u.kind \in Enums,
           u.kind \in PlainLeaves \cup Branches, u.kind \notin HiddenKinds, NEW q \in Seq(Nat)
    PROVE  OnlyBytes(Shown(u, d, FALSE), q, u)
<1> DEFINE e == Shown(u, d, FALSE)
<1>1. e \in Trees /\ e.items = <<>> /\ (e.kind \notin Unshown <=> u.kind \notin SecretKinds)
  BY ShownTree, ShownLeaf
<1>2. e.kind = "redacted" => u.kind = "secret_bytes"
  BY <1>1 DEF Unshown, SecretKinds, HiddenKinds
<1> HIDE DEF e
<1>3. CASE q = <<>>
  BY <1>2, <1>3, AtEmpty DEF OnlyBytes, e
<1>4. CASE q # <<>>
  <2>1. PICK i \in Nat : \E p \in Seq(Nat) : q = <<i>> \o p
    BY <1>4, Shorter
  <2>2. PICK p \in Seq(Nat) : q = <<i>> \o p
    BY <2>1
  <2> QED BY <1>1, <2>2, NothingShown DEF OnlyBytes, e
<1> QED BY <1>3, <1>4

(* And from a lossless container when it holds for its items.              *)
LEMMA BranchBytes ==
    ASSUME NEW u \in Trees, NEW d \in Nat, d + 1 < MaxDepth, u.items # <<>>, u.kind \in Containers,
           Len(u.items) <= MaxItems, u.secret # {} => u.kind = "odd_dict" /\ u.secret = {1},
           \A i \in DOMAIN u.items, p \in Seq(Nat) :
               OnlyBytes(Shown(u.items[i], d + 1, FALSE), p, u.items[i]),
           NEW q \in Seq(Nat)
    PROVE  OnlyBytes(Shown(u, d, FALSE), q, u)
<1> DEFINE e == Shown(u, d, FALSE)
<1>1. /\ e.kind \in {"dict", "list"} /\ DOMAIN e.items = 1..Kept(u.items)
      /\ \A i \in 1..Kept(u.items) :
            IF Covered(u, i)
            THEN \E name \in {"mark", "overwritten"} : e.items[i] = Encode(Leaf(name), d + 2, "none")
            ELSE e.items[i] = Shown(u.items[i], d + 1, i \in u.secret)
  BY ShownBranch
<1>2. e \in Trees
  BY ShownTree
<1>3. Len(u.items) \in Nat /\ DOMAIN u.items = 1..Len(u.items) /\ 1..Kept(u.items) \subseteq DOMAIN u.items
  <2>1. Len(u.items) \in Nat /\ DOMAIN u.items = 1..Len(u.items)
    BY TreeForm
  <2> QED BY <2>1, KeptOf
<1> HIDE DEF e
<1>4. ASSUME NEW i \in 1..Kept(u.items), Covered(u, i) \/ i \in u.secret
      PROVE  u.kind = "odd_dict" /\ i = 1 /\ e.items[i] \in Trees /\ e.items[i].items = <<>>
  <2>1. d + 1 \in Nat /\ d + 2 \in Nat
    BY TwoMore
  <2>2. CASE Covered(u, i)
    <3>1. ~(Len(u.items) > MaxItems)
      BY <1>3, TreeAssumption
    <3>2. u.kind = "odd_dict" /\ i = 1
      BY <2>2, <3>1, Zenon DEF Covered, Overwrites
    <3>3. PICK name \in {"mark", "overwritten"} : e.items[i] = Encode(Leaf(name), d + 2, "none")
      BY <1>1, <2>2
    <3>4. e.items[i] \in Trees /\ e.items[i].items = <<>>
      BY <2>1, <3>3, UnshownLeaf
    <3> QED BY <3>2, <3>4
  <2>3. CASE ~Covered(u, i)
    <3>1. u.kind = "odd_dict" /\ i = 1 /\ (i \in u.secret) = TRUE
      BY <1>4, <2>3
    <3>2. e.items[i] = Shown(u.items[i], d + 1, TRUE)
      BY <1>1, <2>3, <3>1
    <3> QED BY <2>1, <3>1, <3>2, SecretShown
  <2> QED BY <2>2, <2>3
<1>5. CASE q = <<>>
  BY <1>1, <1>5, AtEmpty DEF OnlyBytes, e
<1>6. CASE q # <<>>
  <2>1. PICK i \in Nat : \E p \in Seq(Nat) : q = <<i>> \o p
    BY <1>6, Shorter
  <2>2. PICK p \in Seq(Nat) : q = <<i>> \o p
    BY <2>1
  <2>3. CASE i \notin 1..Kept(u.items)
    <3>1. q \notin Places(e)
      BY <1>1, <1>2, <2>2, <2>3, PlacesSplit
    <3> QED BY <3>1 DEF OnlyBytes, e
  <2>4. CASE i \in 1..Kept(u.items) /\ (Covered(u, i) \/ i \in u.secret)
    <3>1. u.kind = "odd_dict" /\ i = 1 /\ e.items[i] \in Trees /\ e.items[i].items = <<>>
      BY <1>4, <2>4
    <3>2. CASE p = <<>>
      <4>1. q # <<>> /\ Len(q) = 1 /\ q[1] = 1
        <5>1. Len(q) = Len(p) + 1 /\ q[1] = i
          BY <2>2, Longer
        <5>2. Len(p) = 0
          BY <3>2
        <5> QED BY <1>6, <3>1, <5>1, <5>2
      <4>2. At(u, SubSeq(q, 1, Len(q) - 1)) = u
        <5>1. SubSeq(q, 1, 0) = <<>>
          BY <2>2, FirstOfLonger
        <5>2. Len(q) - 1 = 0
          BY <4>1
        <5> QED BY <5>1, <5>2, AtEmpty
      <4> QED BY <3>1, <4>1, <4>2 DEF OnlyBytes, Nameless
    <3>3. CASE p # <<>>
      <4>1. PICK j \in Nat : \E r \in Seq(Nat) : p = <<j>> \o r
        BY <3>3, Shorter
      <4>2. PICK r \in Seq(Nat) : p = <<j>> \o r
        BY <4>1
      <4>3. p \notin Places(e.items[i])
        BY <3>1, <4>2, NothingShown
      <4>4. q \notin Places(e)
        BY <1>2, <2>2, <4>3, PlacesSplit
      <4> QED BY <4>4 DEF OnlyBytes, e
    <3> QED BY <3>2, <3>3
  <2>5. CASE i \in 1..Kept(u.items) /\ ~(Covered(u, i) \/ i \in u.secret)
    <3>1. i \in DOMAIN u.items
      BY <1>3, <2>5
    <3>2. e.items[i] = Shown(u.items[i], d + 1, FALSE)
      <4>1. ~Covered(u, i) /\ (i \in u.secret) = FALSE
        BY <2>5
      <4> QED BY <1>1, <2>5, <4>1
    <3>3. OnlyBytes(e.items[i], p, u.items[i])
      BY <3>1, <3>2
    <3> QED BY <1>2, <2>2, <3>3, OnlyBytesBelow DEF e
  <2> QED BY <2>3, <2>4, <2>5
<1> QED BY <1>5, <1>6

(* And so from a lossless argument of any height.                          *)
LEMMA ArgumentBytes ==
    ASSUME NEW c, NEW v \in Trees, NEW depth \in Nat, Plainly(v, depth + 1),
           Losslessly(v, depth + 1, c), NEW place \in Seq(Nat)
    PROVE  OnlyBytes(Shown(v, depth, FALSE), place, v)
<1> DEFINE T == {u \in Trees : \A d \in Nat, q \in Seq(Nat) :
                    Plainly(u, d + 1) /\ Losslessly(u, d + 1, c) => OnlyBytes(Shown(u, d, FALSE), q, u)}
<1>1. ASSUME NEW u \in Trees, \A i \in DOMAIN u.items : u.items[i] \in T
      PROVE  u \in T
  <2>1. SUFFICES ASSUME NEW d \in Nat, NEW q \in Seq(Nat), Plainly(u, d + 1), Losslessly(u, d + 1, c)
                 PROVE  OnlyBytes(Shown(u, d, FALSE), q, u)
    OBVIOUS
  <2>2. d + 1 \in Nat /\ d + 1 # 0
    OBVIOUS
  <2>3. /\ PlainPart(Part(u, d + 1)) /\ \A i \in DOMAIN u.items : Plainly(u.items[i], (d + 1) + 1)
        /\ LosslessPart(Part(u, d + 1), c)
        /\ \A i \in DOMAIN u.items : Losslessly(u.items[i], (d + 1) + 1, c)
    BY <2>1, <2>2, PartsSplit
  <2>4. /\ u.kind \in PlainLeaves \cup Branches
        /\ u.kind \in PlainLeaves => u.items = <<>>
        /\ u.secret # {} => u.kind \in Keyed \/ d + 1 = 0
    BY <2>2, <2>3, PartForm
  <2>5. /\ d + 1 < MaxDepth /\ Len(u.items) <= MaxItems
        /\ Named(u) = {} /\ u.kind \notin HiddenKinds
    BY <2>2, <2>3, PartForm
  <2>6. \A i \in DOMAIN u.items, p \in Seq(Nat) :
            OnlyBytes(Shown(u.items[i], d + 1, FALSE), p, u.items[i])
    BY <1>1, <2>2, <2>3
  <2> HIDE DEF T
  <2>7. CASE u.items = <<>> \/ u.kind \in Enums
    BY <2>1, <2>4, <2>5, <2>7, LeafBytes
  <2>8. CASE ~(u.items = <<>> \/ u.kind \in Enums)
    <3>1. u.kind \in Containers
      BY <2>4, <2>8 DEF Branches
    <3>2. u.secret # {} => u.kind = "odd_dict" /\ u.secret = {1}
      <4>1. u.secret # {} => u.kind \in Keyed
        BY <2>2, <2>4
      <4>2. u.kind \in Keyed => Named(u) = IF u.kind = "odd_dict" THEN u.secret \ {1} ELSE u.secret
        BY Zenon DEF Named
      <4> QED BY <2>5, <4>1, <4>2
    <3> QED BY <2>1, <2>5, <2>6, <2>8, <3>1, <3>2, BranchBytes
  <2> QED BY <2>7, <2>8
<1>2. v \in T
  <2> HIDE DEF T
  <2>1. Trees \subseteq T
    BY <1>1, TreeInduction
  <2> QED BY <2>1
<1> QED BY <1>2

(* From lossless arguments only secret bytes are redacted, what is under   *)
(* the first key of an odd dict, and the positional arguments whose        *)
(* parameter has a sensitive name.                                         *)
LEMMA ArgumentsBytes ==
    ASSUME NEW c, NEW v \in Trees, Plainly(v, 0), v.kind \in {"list", "dict"}, Losslessly(v, 0, c),
           NEW q \in Places(Arguments(v)), At(Arguments(v), q).kind = "redacted"
    PROVE  \/ v.kind = "list" /\ Len(q) = 1 /\ q[1] \in v.secret
           \/ Nameless(q, v)
           \/ At(v, q).kind = "secret_bytes"
<1> DEFINE e == Arguments(v)
<1>1. 0 \in Nat
  OBVIOUS
<1>2. /\ 0 < MaxDepth
      /\ v.kind = "dict" => v.secret = {}
      /\ \A i \in DOMAIN v.items : Plainly(v.items[i], 0 + 1) /\ Losslessly(v.items[i], 0 + 1, c)
  <2>1. LosslessPart(Part(v, 0), c)
        /\ \A i \in DOMAIN v.items : Plainly(v.items[i], 0 + 1) /\ Losslessly(v.items[i], 0 + 1, c)
    BY <1>1, PartsSplit
  <2>2. 0 < MaxDepth /\ Named(v) = {}
    BY <1>1, <2>1, PartForm
  <2>3. v.kind = "dict" => Named(v) = v.secret
    <3>1. "dict" \in Keyed /\ "dict" # "odd_dict"
      BY DEF Keyed
    <3> QED BY <3>1 DEF Named
  <2> QED BY <2>1, <2>2, <2>3
<1>3. /\ e \in Trees /\ e.kind = "dict" /\ DOMAIN e.items = 1..Kept(v.items)
      /\ \A i \in 1..Kept(v.items) : e.items[i] = Shown(v.items[i], 0, i \in v.secret)
  BY <1>2, ArgumentsAt
<1>4. q \in Places(e) /\ At(e, q).kind = "redacted"
  OBVIOUS
<1> HIDE DEF e
<1>5. q \in Seq(Nat)
  BY <1>3, <1>4, PlacesAreSeqs
<1>6. q # <<>>
  BY <1>3, <1>4, AtEmpty
<1>7. PICK i \in Nat : \E p \in Seq(Nat) : q = <<i>> \o p
  BY <1>5, <1>6, Shorter
<1>8. PICK p \in Seq(Nat) : q = <<i>> \o p
  BY <1>7
<1>9. i \in 1..Kept(v.items) /\ p \in Places(e.items[i]) /\ At(e.items[i], p).kind = "redacted"
  BY <1>3, <1>4, <1>8, PlacesSplit, AtItem
<1>10. i \in DOMAIN v.items /\ v.items[i] \in Trees
  <2>1. Len(v.items) \in Nat /\ DOMAIN v.items = 1..Len(v.items)
    BY TreeForm
  <2>2. 1..Kept(v.items) \subseteq DOMAIN v.items
    BY <2>1, KeptOf
  <2> QED BY <1>9, <2>2, TreeForm
<1>11. CASE i \in v.secret
  <2>1. e.items[i] = Shown(v.items[i], 0, TRUE)
    BY <1>3, <1>9, <1>11
  <2>2. e.items[i] \in Trees /\ e.items[i].items = <<>>
    BY <1>1, <2>1, SecretShown
  <2>3. p = <<>>
    <3>1. SUFFICES ASSUME p # <<>> PROVE FALSE
      OBVIOUS
    <3>2. PICK j \in Nat : \E r \in Seq(Nat) : p = <<j>> \o r
      BY <3>1, Shorter
    <3>3. PICK r \in Seq(Nat) : p = <<j>> \o r
      BY <3>2
    <3> QED BY <1>9, <2>2, <3>3, NothingShown
  <2>4. Len(q) = 1 /\ q[1] = i
    <3>1. Len(q) = Len(p) + 1 /\ q[1] = i
      BY <1>8, Longer
    <3>2. Len(p) = 0
      BY <2>3
    <3> QED BY <3>1, <3>2
  <2>5. v.kind = "list"
    BY <1>2, <1>11
  <2> QED BY <1>11, <2>4, <2>5
<1>12. CASE i \notin v.secret
  <2>1. e.items[i] = Shown(v.items[i], 0, FALSE)
    <3>1. (i \in v.secret) = FALSE
      BY <1>12
    <3> QED BY <1>3, <1>9, <3>1
  <2>2. OnlyBytes(Shown(v.items[i], 0, FALSE), p, v.items[i])
    BY <1>1, <1>2, <1>10, ArgumentBytes
  <2>3. At(v.items[i], p).kind = "secret_bytes" \/ Nameless(p, v.items[i])
    BY <1>9, <2>1, <2>2 DEF OnlyBytes
  <2>4. At(v, q) = At(v.items[i], p)
    BY <1>8, AtItem
  <2>5. Nameless(p, v.items[i]) => Nameless(q, v)
    BY <1>8, NamelessBelow
  <2> QED BY <2>3, <2>4, <2>5
<1> QED BY <1>11, <1>12

-----------------------------------------------------------------------------
(* arguments.json stays what the capture wrote.                            *)
ArgumentsWritten ==
    disk.there => disk.arguments = IF wrote.case = "arguments_off" THEN NothingCaptured
                                   ELSE ToArguments(wrote.value)

(* Only a capture writes arguments.json, and what damages a package leaves *)
(* it alone.                                                               *)
LEMMA ArgumentsStay ==
    ASSUME IInv, ArgumentsWritten, [Next]_vars
    PROVE  ArgumentsWritten'
<1>1. CASE \E v \in Values, case \in Cases : Capture(v, case)
  <2>1. PICK v \in Values, case \in Cases : Capture(v, case)
    BY <1>1
  <2>2. PICK size \in Sizes, written \in Sizes :
            /\ wrote' = [value |-> v, codec |-> codec, case |-> case, size |-> size]
            /\ disk' = [there |-> TRUE, intact |-> TRUE,
                        replay |-> IF case = "not_importable" THEN NoReplay
                                   ELSE BuildReplay(v, codec, size, written),
                        arguments |-> IF case = "arguments_off" THEN NothingCaptured ELSE ToArguments(v)]
    BY <2>1 DEF Capture
  <2>3. wrote'.case = case /\ wrote'.value = v
        /\ disk'.arguments = IF case = "arguments_off" THEN NothingCaptured ELSE ToArguments(v)
    BY <2>2
  <2> QED BY <2>3 DEF ArgumentsWritten
<1>2. CASE ChangePackage
  <2>1. wrote' = wrote /\ disk.there
    BY <1>2 DEF ChangePackage, Event
  <2>2. PICK new \in {NoPackage, [disk EXCEPT !.intact = ~disk.intact]} : disk' = new
    BY <1>2 DEF ChangePackage
  <2>3. CASE disk' = NoPackage
    BY <2>3, Constants DEF ArgumentsWritten
  <2>4. CASE disk' = [disk EXCEPT !.intact = ~disk.intact]
    <3>1. disk \in Packages
      BY DEF IInv, TypeOK
    <3>2. disk'.arguments = disk.arguments
      BY <2>4, <3>1 DEF Packages
    <3> QED BY <2>1, <3>2 DEF ArgumentsWritten
  <2> QED BY <2>2, <2>3, <2>4
<1>3. CASE \/ \E c \in Registrable : Register(c)
           \/ Unregister \/ MoveTarget \/ NewCommand
           \/ \E mode \in Modes, limits \in Limits : NewRun(mode, limits)
           \/ Authorize \/ LoadFiles \/ VerifyFiles \/ LoadReplayData \/ ValidateSchema
           \/ DecodeArguments \/ ResolveAndCall \/ UNCHANGED vars
  <2>1. wrote' = wrote /\ disk' = disk
    BY <1>3 DEF Register, Unregister, MoveTarget, Event, NewCommand, NewRun, Authorize, LoadFiles, VerifyFiles,
                LoadReplayData, ValidateSchema, DecodeArguments, ResolveAndCall, Step, Only, vars
  <2> QED BY <2>1 DEF ArgumentsWritten
<1> QED BY <1>1, <1>2, <1>3 DEF Next

LEMMA ArgumentsInductive == Spec => []ArgumentsWritten
<1>1. Init => ArgumentsWritten
  BY Constants DEF Init, ArgumentsWritten
<1>2. IInv /\ ArgumentsWritten /\ [Next]_vars => ArgumentsWritten'
  BY ArgumentsStay
<1> QED BY <1>1, <1>2, Inductive, PTL DEF Spec

(* arguments.json shows, at its place and sanitized, every part of the     *)
(* arguments that no sensitive name, pattern or limit hides, no mark and   *)
(* no key of the same text has the place of, and no other.                 *)
THEOREM ArgumentsShown == Spec => []ArgumentsSanitized
<1>1. IInv /\ ArgumentsWritten => ArgumentsSanitized
  <2> DEFINE v == wrote.value
             e == disk.arguments
             shown == {place \in Places(e) : At(e, place).kind
                           \notin {"redacted", "max_depth", "max_depth_text", "mark",
                                   "overwritten"}}
  <2>1. SUFFICES ASSUME IInv, ArgumentsWritten, disk.there
                 PROVE  IF wrote.case = "arguments_off" THEN e = EmptyArguments
                        ELSE /\ shown = {place \in ShownPlaces(v) :
                                            At(v, place).kind \notin {"secret_text", "secret_bytes"}}
                             /\ \A place \in shown \ {<<>>} :
                                   At(e, place).kind = BaseKind(PlainKind(At(v, place).kind))
    BY DEF ArgumentsSanitized
  <2>2. CASE wrote.case = "arguments_off"
    BY <2>1, <2>2, ReplayAssumption DEF ArgumentsWritten
  <2>3. CASE wrote.case # "arguments_off"
    <3>1. v \in Values
      BY <2>1, Constants DEF IInv, NothingYet
    <3>2. e = Arguments(v)
      BY <2>1, <2>3, <3>1, ReplayAssumption DEF ArgumentsWritten
    <3>3. v \in Trees /\ Plainly(v, 0) /\ v.kind \in {"list", "dict"}
      BY <3>1, ArgumentsForm, ReplayAssumption DEF PlainValue
    <3> HIDE DEF v, e
    <3>4. ASSUME NEW q \in Seq(Nat)
          PROVE  /\ ShownAt(e, q) <=> q \in ShownPlaces(v) /\ At(v, q).kind \notin SecretKinds
                 /\ ShownAt(e, q) /\ q # <<>> => At(e, q).kind = BaseKind(PlainKind(At(v, q).kind))
      BY <3>2, <3>3, ArgumentsAgree
    <3>5. \A q : q \in shown <=> ShownAt(e, q)
      BY DEF ShownAt, Unshown
    <3>6. e \in Trees
      <4>1. CASE 0 < MaxDepth
        BY <3>2, <3>3, <4>1, ArgumentsAt
      <4>2. CASE ~(0 < MaxDepth)
        <5>1. MaxDepth = 0
          BY <4>2, TreeAssumption
        <5>2. "max_depth" \in Kinds
          BY PlainNames
        <5> QED BY <3>2, <3>3, <5>1, <5>2, ArgumentsDeep, LeafInTrees
      <4> QED BY <4>1, <4>2
    <3>7. Places(e) \subseteq Seq(Nat) /\ Places(v) \subseteq Seq(Nat)
      BY <3>3, <3>6, PlacesAreSeqs
    <3>8. shown \subseteq Seq(Nat) /\ ShownPlaces(v) \subseteq Seq(Nat)
      BY <3>7 DEF ShownPlaces
    <3> HIDE DEF shown
    <3>9. shown = {place \in ShownPlaces(v) : At(v, place).kind \notin {"secret_text", "secret_bytes"}}
      <4>1. \A q : q \in shown <=> q \in ShownPlaces(v) /\ At(v, q).kind \notin SecretKinds
        BY <3>4, <3>5, <3>8
      <4> QED BY <4>1 DEF SecretKinds
    <3>10. \A place \in shown \ {<<>>} : At(e, place).kind = BaseKind(PlainKind(At(v, place).kind))
      BY <3>4, <3>5, <3>8
    <3> QED BY <2>3, <3>9, <3>10
  <2> QED BY <2>2, <2>3
<1> QED BY <1>1, Inductive, ArgumentsInductive, PTL

(* A package that may be replayed keeps from its arguments.json nothing    *)
(* but what replay.json has no name for - an argument given by position, a *)
(* value whose key is no text - or holds in base64.                        *)
THEOREM RedactionsMatch == Spec => []RedactionsAgree
<1>1. IInv /\ ArgumentsWritten /\ ReplayableIsLossless => RedactionsAgree
  <2> DEFINE v == wrote.value
             e == disk.arguments
  <2>1. SUFFICES ASSUME IInv, ArgumentsWritten, ReplayableIsLossless, disk.there, disk.replay.replayable,
                        NEW q \in Places(e), At(e, q).kind = "redacted"
                 PROVE  \/ v.kind = "list" /\ Len(q) = 1 /\ q[1] \in v.secret
                        \/ Nameless(q, v)
                        \/ At(v, q).kind = "secret_bytes"
    BY DEF RedactionsAgree, Nameless
  <2>2. v \in Values
    BY <2>1, Constants DEF IInv, NothingYet
  <2>3. v \in Trees /\ Plainly(v, 0) /\ v.kind \in {"list", "dict"}
    BY <2>2, ArgumentsForm, ReplayAssumption DEF PlainValue
  <2>4. Losslessly(v, 0, wrote.codec)
    BY <2>1 DEF ReplayableIsLossless, Lossless, Losslessly
  <2>5. CASE wrote.case = "arguments_off"
    <3>1. e = Leaf("dict")
      BY <2>1, <2>5, ReplayAssumption DEF ArgumentsWritten, EmptyArguments
    <3> HIDE DEF e
    <3>2. e \in Trees /\ e.items = <<>> /\ e.kind = "dict"
      <4>1. "dict" \in Kinds
        BY PlainNames
      <4> QED BY <2>3, <3>1, <4>1, LeafInTrees, LeafOver
    <3>3. q \in Seq(Nat)
      BY <2>1, <3>2, PlacesAreSeqs DEF e
    <3>4. q # <<>>
      BY <2>1, <3>2, AtEmpty DEF e
    <3>5. PICK i \in Nat : \E p \in Seq(Nat) : q = <<i>> \o p
      BY <3>3, <3>4, Shorter
    <3>6. PICK p \in Seq(Nat) : q = <<i>> \o p
      BY <3>5
    <3> QED BY <2>1, <3>2, <3>6, NothingShown DEF e
  <2>6. CASE wrote.case # "arguments_off"
    <3>1. e = Arguments(v)
      BY <2>1, <2>2, <2>6, ReplayAssumption DEF ArgumentsWritten
    <3>2. q \in Places(Arguments(v)) /\ At(Arguments(v), q).kind = "redacted"
      BY <2>1, <3>1
    <3> HIDE DEF v, e
    <3> QED BY <2>3, <2>4, <3>2, ArgumentsBytes
  <2> QED BY <2>5, <2>6
<1> QED BY <1>1, Inductive, ArgumentsInductive, ReplayableExactly, PTL

=============================================================================
