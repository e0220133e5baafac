-------------------------- MODULE FailureRecord_proofs --------------------------
(***************************************************************************)
(* Proofs about FailureRecord for any exceptions, however they refer to    *)
(* each other, and any limits; and about Configuration, which those limits *)
(* are of, for any threads, limits and orders between them.                *)
(*                                                                         *)
(* The invariant says that the record and the package are what their       *)
(* functions make of the exceptions.  What those functions make is told by *)
(* induction: on the depth that is left, for the tree that is built and    *)
(* redacted; on trees, for what a file shows of one.  tlapm proves no      *)
(* induction as such, so each is of a set of numbers, levels or trees that *)
(* has all of them.                                                        *)
(***************************************************************************)
EXTENDS FailureRecord, Configuration, FiniteSetTheorems, SequenceTheorems, WellFoundedInduction, TLAPS

-----------------------------------------------------------------------------
(* Induction, over numbers and over trees.                                 *)

(* What holds of 0 and is handed on holds of every number.                 *)
LEMMA SetInduction ==
    ASSUME NEW T \in SUBSET Nat, 0 \in T, \A n \in T : n + 1 \in T
    PROVE  T = Nat
<1> SUFFICES ASSUME T # Nat PROVE FALSE
  OBVIOUS
<1> DEFINE others == Nat \ T
           less == OpToRel(<, Nat)
<1>1. others # {} /\ others \subseteq Nat
  OBVIOUS
<1>2. PICK least \in others : \A n \in others : <<n, least>> \notin less
  <2>1. IsWellFoundedOn(less, Nat)
    BY NatLessThanWellFounded
  <2> HIDE DEF less, others
  <2> QED BY <1>1, <2>1, WFMin, Zenon
<1>3. least # 0 /\ least - 1 \in others /\ least - 1 < least
  OBVIOUS
<1>4. <<least - 1, least>> \in less
  BY <1>3 DEF OpToRel
<1> QED BY <1>2, <1>3, <1>4

(* What holds of 0, and of a number up to a last one when it holds of the  *)
(* one below, holds of all numbers up to the last.                         *)
LEMMA BoundedInduction ==
    ASSUME NEW last \in Nat, NEW T, 0 \in T, \A n \in 0..last : n # last /\ n \in T => n + 1 \in T
    PROVE  \A n \in 0..last : n \in T
<1> DEFINE U == {n \in Nat : n <= last => n \in T}
<1>1. 0 \in U
  OBVIOUS
<1>2. ASSUME NEW n \in U PROVE n + 1 \in U
  OBVIOUS
<1>3. U = Nat
  <2>1. U \in SUBSET Nat
    OBVIOUS
  <2> HIDE DEF U
  <2> QED BY <1>1, <1>2, <2>1, SetInduction
<1> QED BY <1>3

Last == MaxHeight + 1

(* The levels of trees are numbered from 0 to Last.                        *)
LEMMA LastIsNumber == Last \in Nat /\ Last \in 0..Last /\ Last # 0 /\ Last = MaxHeight + 1 /\ 0 \in 0..Last
BY ExceptionAssumption DEF Last

(* The trees with links to those of S.                                     *)
Over(S) == [of : Exceptions, text : Readings, links : SUBSET LinksTo(S)]

(* Levels is the function it is written as.                                *)
LEMMA LevelsForm ==
    /\ Levels[0] = {}
    /\ \A n \in 0..Last : n # Last => Levels[n + 1] = Over(Levels[n])
<1> DEFINE Layer(f, n) == IF n = 0 THEN {} ELSE Over(f[n - 1])
           T == {k \in Nat : \E f : f = [n \in 0..k |-> Layer(f, n)]}
<1>1. 0 \in T
  <2>1. \A n \in 0..0 : n = 0
    OBVIOUS
  <2>3. \E f : f = [n \in 0..0 |-> Layer(f, n)]
    <3> WITNESS [m \in 0..0 |-> {}]
    <3> QED BY <2>1
  <2> HIDE DEF Layer
  <2> QED BY <2>3
<1>2. ASSUME NEW k \in T PROVE k + 1 \in T
  <2>1. PICK f : f = [n \in 0..k |-> Layer(f, n)]
    OBVIOUS
  <2> DEFINE g == [n \in 0..(k + 1) |-> Layer(f, n)]
  <2> HIDE DEF Layer
  <2>2. ASSUME NEW n \in 0..(k + 1) PROVE Layer(f, n) = Layer(g, n)
    <3>1. n # 0 => n - 1 \in 0..k /\ n - 1 \in 0..(k + 1)
      OBVIOUS
    <3>2. n # 0 => f[n - 1] = g[n - 1]
      BY <2>1, <3>1
    <3> HIDE DEF g
    <3> QED BY <3>2 DEF Layer
  <2>3. g = [n \in 0..(k + 1) |-> Layer(g, n)]
    BY <2>2
  <2> HIDE DEF g
  <2> QED BY <2>3
<1>3. T = Nat
  <2>1. T \in SUBSET Nat
    OBVIOUS
  <2> HIDE DEF T
  <2> QED BY <1>1, <1>2, <2>1, SetInduction
<1>4. \E f : f = [n \in 0..Last |-> Layer(f, n)]
  BY <1>3, LastIsNumber
<1>5. Levels = [n \in 0..Last |-> Layer(Levels, n)]
  BY <1>4, Zenon DEF Levels, Last, Over
<1> HIDE DEF Layer
<1>6. \A n \in 0..Last : Levels[n] = Layer(Levels, n)
  BY <1>5
<1>7. 0 \in 0..Last /\ \A n \in 0..Last : n # Last => n + 1 \in 0..Last /\ (n + 1) - 1 = n /\ n + 1 # 0
  BY LastIsNumber
<1> QED BY <1>6, <1>7 DEF Layer

(* A tree of a level, taken apart.                                         *)
LEMMA OverForm ==
    ASSUME NEW S, NEW u \in Over(S)
    PROVE  /\ u = [of |-> u.of, text |-> u.text, links |-> u.links]
           /\ u.of \in Exceptions /\ u.text \in Readings
           /\ \A l \in u.links : l = Link(l.kind, l.at, l.to) /\ l.kind \in Kinds /\ l.at \in Nat /\ l.to \in S
<1>1. u = [of |-> u.of, text |-> u.text, links |-> u.links]
      /\ u.of \in Exceptions /\ u.text \in Readings /\ u.links \in SUBSET LinksTo(S)
  BY DEF Over
<1>2. \A l \in LinksTo(S) : l = Link(l.kind, l.at, l.to) /\ l.kind \in Kinds /\ l.at \in Nat /\ l.to \in S
  BY DEF LinksTo, Link
<1> QED BY <1>1, <1>2

(* A tree of a level, put together.                                        *)
LEMMA IsOver ==
    ASSUME NEW S, NEW e \in Exceptions, NEW text \in Readings, NEW linked,
           \A l \in linked : l = Link(l.kind, l.at, l.to) /\ l.kind \in Kinds /\ l.at \in Nat /\ l.to \in S
    PROVE  [of |-> e, text |-> text, links |-> linked] \in Over(S)
<1>1. \A l \in linked : l \in LinksTo(S)
  BY DEF LinksTo, Link
<1> QED BY <1>1 DEF Over

(* A tree of one level is a tree of the next.                              *)
LEMMA LevelsGrow == \A n \in 0..Last : n # Last => Levels[n] \subseteq Levels[n + 1]
<1> DEFINE T == {k \in 0..Last : k # Last => Levels[k] \subseteq Levels[k + 1]}
<1>1. 0 \in T
  BY LevelsForm, LastIsNumber
<1>2. ASSUME NEW k \in 0..Last, k # Last, k \in T PROVE k + 1 \in T
  <2>1. k + 1 \in 0..Last
    BY <1>2, LastIsNumber
  <2>2. ASSUME k + 1 # Last PROVE Levels[k + 1] \subseteq Levels[(k + 1) + 1]
    <3>1. Levels[k + 1] = Over(Levels[k]) /\ Levels[(k + 1) + 1] = Over(Levels[k + 1])
      BY <1>2, <2>1, <2>2, LevelsForm
    <3>2. Levels[k] \subseteq Levels[k + 1]
      BY <1>2
    <3> QED BY <3>1, <3>2 DEF Over, LinksTo
  <2> QED BY <2>1, <2>2
<1> HIDE DEF T
<1>3. \A n \in 0..Last : n \in T
  BY <1>1, <1>2, BoundedInduction, LastIsNumber
<1> QED BY <1>3 DEF T

(* The last level has all trees.                                           *)
LEMMA LevelsAreInfos == \A n \in 0..Last : Levels[n] \subseteq Infos
<1> DEFINE T == {k \in 0..Last : Levels[Last - k] \subseteq Infos}
<1>1. 0 \in T
  BY LastIsNumber DEF Infos
<1>2. ASSUME NEW k \in 0..Last, k # Last, k \in T PROVE k + 1 \in T
  <2> DEFINE n == Last - (k + 1)
  <2>1. n \in 0..Last /\ n # Last /\ n + 1 = Last - k /\ k + 1 \in 0..Last
    BY <1>2, LastIsNumber
  <2>2. Levels[n] \subseteq Levels[n + 1]
    BY <2>1, LevelsGrow
  <2> QED BY <1>2, <2>1, <2>2
<1>3. \A k \in 0..Last : k \in T
  <2> HIDE DEF T
  <2> QED BY <1>1, <1>2, BoundedInduction, LastIsNumber
<1> SUFFICES ASSUME NEW n \in 0..Last PROVE Levels[n] \subseteq Infos
  OBVIOUS
<1>4. Last - n \in 0..Last /\ Last - (Last - n) = n
  BY LastIsNumber
<1> QED BY <1>3, <1>4

(* A tree of a level links to trees of the level below.                    *)
LEMMA LevelsOver == ASSUME NEW n \in 0..Last, NEW u \in Levels[n] PROVE n # 0 /\ u \in Over(Levels[n - 1])
<1>1. n # 0
  BY LevelsForm
<1>2. n - 1 \in 0..Last /\ n - 1 # Last /\ (n - 1) + 1 = n
  BY <1>1, LastIsNumber
<1> QED BY <1>1, <1>2, LevelsForm

(* A tree, taken apart.                                                    *)
LEMMA InfoForm ==
    ASSUME NEW u \in Infos
    PROVE  /\ u = [of |-> u.of, text |-> u.text, links |-> u.links]
           /\ u.of \in Exceptions /\ u.text \in Readings
           /\ \A l \in u.links : l = Link(l.kind, l.at, l.to) /\ l.kind \in Kinds /\ l.at \in Nat
                                 /\ l.to \in Infos
<1>1. u \in Over(Levels[Last - 1]) /\ Last - 1 \in 0..Last
  BY LevelsOver, LastIsNumber DEF Infos
<1>2. Levels[Last - 1] \subseteq Infos
  BY <1>1, LevelsAreInfos
<1> QED BY <1>1, <1>2, OverForm

(* What holds of a tree when it holds of those it links to, holds of all.  *)
LEMMA InfoInduction ==
    ASSUME NEW T, \A u \in Infos : (\A l \in u.links : l.to \in T) => u \in T
    PROVE  Infos \subseteq T
<1> DEFINE U == {n \in 0..Last : Levels[n] \subseteq T}
<1>1. 0 \in U
  BY LevelsForm, LastIsNumber
<1>2. ASSUME NEW n \in 0..Last, n # Last, n \in U PROVE n + 1 \in U
  <2>1. n + 1 \in 0..Last
    BY <1>2, LastIsNumber
  <2>2. SUFFICES ASSUME NEW u \in Levels[n + 1] PROVE u \in T
    BY <2>1
  <2>3. u \in Over(Levels[n]) /\ u \in Infos
    BY <1>2, <2>1, LevelsForm, LevelsAreInfos
  <2>4. \A l \in u.links : l.to \in Levels[n]
    BY <2>3, OverForm
  <2> QED BY <1>2, <2>3, <2>4
<1>3. Last \in U
  <2> HIDE DEF U
  <2> QED BY <1>1, <1>2, LastIsNumber, BoundedInduction
<1> QED BY <1>3 DEF Infos, Last

-----------------------------------------------------------------------------
(* The recursive functions of trees, one step of each.                     *)

SanitizedBy(f, u, s) ==
    [d \in Nat |->
        IF d >= s.exceptionDepth THEN Node(u.of, "max_depth")
        ELSE [of |-> u.of,
              text |-> IF u.text = "raw" THEN "clean" ELSE u.text,
              links |-> {[l EXCEPT !.to = f[l.to][d + 1]] :
                  l \in {k \in u.links : k.kind = "child" => k.at <= s.exceptionChildren}}]]

EncodedBy(f, u, s) ==
    [d \in Nat |->
        IF d >= s.maxDepth THEN Node(u.of, "gone")
        ELSE [of |-> u.of,
              text |-> IF d + 1 < s.maxDepth /\ Keeps(s, "message") THEN u.text ELSE "gone",
              links |-> {[l EXCEPT !.to = f[l.to][d + Deeper(l.kind)]] :
                  l \in {k \in u.links : KeepsLink(s, k)}}]]

TextsBy(f, u) ==
    [way \in Seq(LinksTo(Exceptions)) |->
        {<<way, u.text>>} \cup
            UNION {f[l.to][Append(way, Link(l.kind, l.at, l.to.of))] : l \in u.links}]

SanitizesOn(S, f, s) == f = [u \in S |-> SanitizedBy(f, u, s)]
EncodesOn(S, f, s) == f = [u \in S |-> EncodedBy(f, u, s)]
ReadsOn(S, f) == f = [u \in S |-> TextsBy(f, u)]

(* A function that takes the step on one level, taken one step further, is *)
(* the same on what the next level links to.                               *)
LEMMA LinkedBelow ==
    ASSUME NEW n \in 0..Last, n # Last, NEW u \in Levels[n + 1]
    PROVE  \A l \in u.links : l.to \in Levels[n] /\ l.to \in Levels[n + 1]
<1>1. u \in Over(Levels[n])
  BY LevelsForm
<1>2. \A l \in u.links : l.to \in Levels[n]
  BY <1>1, OverForm
<1> QED BY <1>2, LevelsGrow

(* The redaction of the trees of one level gives that of the next.         *)
LEMMA SanitizeExtends ==
    ASSUME NEW s, NEW n \in 0..Last, n # Last, NEW f, SanitizesOn(Levels[n], f, s)
    PROVE  \E g : SanitizesOn(Levels[n + 1], g, s)
<1> DEFINE g == [u \in Levels[n + 1] |-> SanitizedBy(f, u, s)]
<1>1. \A e \in Levels[n + 1] : e \in Levels[n] => f[e] = g[e]
  BY DEF SanitizesOn
<1> HIDE DEF g
<1>2. ASSUME NEW u \in Levels[n + 1] PROVE SanitizedBy(f, u, s) = SanitizedBy(g, u, s)
  <2>1. \A l \in u.links : f[l.to] = g[l.to]
    BY <1>1, LinkedBelow
  <2>2. ASSUME NEW d \in Nat, NEW some \in SUBSET u.links
        PROVE  {[l EXCEPT !.to = f[l.to][d + 1]] : l \in some} = {[l EXCEPT !.to = g[l.to][d + 1]] : l \in some}
    BY <2>1
  <2> DEFINE kept == {k \in u.links : k.kind = "child" => k.at <= s.exceptionChildren}
  <2>3. kept \in SUBSET u.links
    OBVIOUS
  <2> HIDE DEF kept
  <2>4. \A d \in Nat :
            {[l EXCEPT !.to = f[l.to][d + 1]] : l \in kept} = {[l EXCEPT !.to = g[l.to][d + 1]] : l \in kept}
    BY <2>2, <2>3
  <2> QED BY <2>4 DEF SanitizedBy, kept
<1>3. SanitizesOn(Levels[n + 1], g, s)
  BY <1>2 DEF g, SanitizesOn
<1> QED BY <1>3

(* So does the encoding.                                                   *)
LEMMA EncodeExtends ==
    ASSUME NEW s, NEW n \in 0..Last, n # Last, NEW f, EncodesOn(Levels[n], f, s)
    PROVE  \E g : EncodesOn(Levels[n + 1], g, s)
<1> DEFINE g == [u \in Levels[n + 1] |-> EncodedBy(f, u, s)]
<1>1. \A e \in Levels[n + 1] : e \in Levels[n] => f[e] = g[e]
  BY DEF EncodesOn
<1> HIDE DEF g
<1>2. ASSUME NEW u \in Levels[n + 1] PROVE EncodedBy(f, u, s) = EncodedBy(g, u, s)
  <2>1. \A l \in u.links : f[l.to] = g[l.to]
    BY <1>1, LinkedBelow
  <2>2. ASSUME NEW d \in Nat, NEW some \in SUBSET u.links
        PROVE  {[l EXCEPT !.to = f[l.to][d + Deeper(l.kind)]] : l \in some}
                   = {[l EXCEPT !.to = g[l.to][d + Deeper(l.kind)]] : l \in some}
    BY <2>1
  <2> DEFINE kept == {k \in u.links : KeepsLink(s, k)}
  <2>3. kept \in SUBSET u.links
    OBVIOUS
  <2> HIDE DEF kept
  <2>4. \A d \in Nat :
            {[l EXCEPT !.to = f[l.to][d + Deeper(l.kind)]] : l \in kept}
                = {[l EXCEPT !.to = g[l.to][d + Deeper(l.kind)]] : l \in kept}
    BY <2>2, <2>3
  <2> QED BY <2>4 DEF EncodedBy, kept
<1>3. EncodesOn(Levels[n + 1], g, s)
  BY <1>2 DEF g, EncodesOn
<1> QED BY <1>3

(* So does what the trees say.                                             *)
LEMMA TextsExtend ==
    ASSUME NEW n \in 0..Last, n # Last, NEW f, ReadsOn(Levels[n], f)
    PROVE  \E g : ReadsOn(Levels[n + 1], g)
<1> DEFINE g == [u \in Levels[n + 1] |-> TextsBy(f, u)]
<1>1. \A e \in Levels[n + 1] : e \in Levels[n] => f[e] = g[e]
  BY DEF ReadsOn
<1> HIDE DEF g
<1>2. ASSUME NEW u \in Levels[n + 1] PROVE TextsBy(f, u) = TextsBy(g, u)
  <2>1. \A l \in u.links : f[l.to] = g[l.to]
    BY <1>1, LinkedBelow
  <2> DEFINE F(way) == {f[l.to][Append(way, Link(l.kind, l.at, l.to.of))] : l \in u.links}
             G(way) == {g[l.to][Append(way, Link(l.kind, l.at, l.to.of))] : l \in u.links}
  <2>2. \A way : F(way) = G(way)
    BY <2>1
  <2> HIDE DEF F, G
  <2>3. [way \in Seq(LinksTo(Exceptions)) |-> {<<way, u.text>>} \cup UNION F(way)]
            = [way \in Seq(LinksTo(Exceptions)) |-> {<<way, u.text>>} \cup UNION G(way)]
    BY <2>2
  <2> QED BY <2>3 DEF TextsBy, F, G
<1>3. ReadsOn(Levels[n + 1], g)
  BY <1>2 DEF g, ReadsOn
<1> QED BY <1>3

(* There are such functions on all trees.                                  *)
LEMMA RecursionsExist ==
    ASSUME NEW s
    PROVE  /\ \E f : SanitizesOn(Infos, f, s)
           /\ \E f : EncodesOn(Infos, f, s)
           /\ \E f : ReadsOn(Infos, f)
<1> DEFINE Exist(S) ==
             /\ \E f : SanitizesOn(S, f, s)
             /\ \E f : EncodesOn(S, f, s)
             /\ \E f : ReadsOn(S, f)
           T == {n \in 0..Last : Exist(Levels[n])}
<1>1. 0 \in T
  <2>1. Exist({})
    BY DEF SanitizesOn, EncodesOn, ReadsOn
  <2>2. Levels[0] = {} /\ 0 \in 0..Last
    BY LevelsForm, LastIsNumber
  <2> HIDE DEF Exist
  <2>3. Exist(Levels[0])
    BY <2>1, <2>2, Zenon
  <2> QED BY <2>2, <2>3
<1>2. ASSUME NEW n \in 0..Last, n # Last, n \in T PROVE n + 1 \in T
  <2>1. Exist(Levels[n]) /\ n # Last /\ n + 1 \in 0..Last
    BY <1>2, LastIsNumber
  <2>2. \E f : SanitizesOn(Levels[n + 1], f, s)
    <3>1. PICK f : SanitizesOn(Levels[n], f, s)
      BY <2>1, Zenon
    <3> HIDE DEF Exist, T
    <3> QED BY <2>1, <3>1, SanitizeExtends
  <2>3. \E f : EncodesOn(Levels[n + 1], f, s)
    <3>1. PICK f : EncodesOn(Levels[n], f, s)
      BY <2>1, Zenon
    <3> HIDE DEF Exist, T
    <3> QED BY <2>1, <3>1, EncodeExtends
  <2>4. \E f : ReadsOn(Levels[n + 1], f)
    <3>1. PICK f : ReadsOn(Levels[n], f)
      BY <2>1, Zenon
    <3> HIDE DEF Exist, T
    <3> QED BY <2>1, <3>1, TextsExtend
  <2>5. Exist(Levels[n + 1])
    BY <2>2, <2>3, <2>4, Zenon
  <2> HIDE DEF Exist
  <2> QED BY <2>1, <2>5
<1>3. Last \in T
  <2> HIDE DEF T
  <2> QED BY <1>1, <1>2, LastIsNumber, BoundedInduction
<1> QED BY <1>3 DEF Infos, Last

(* The functions at any depth or way.                                      *)
Sanitized(s, u, d) == (CHOOSE f : f = [w \in Infos |-> SanitizedBy(f, w, s)])[u][d]
Encoded(s, u, d) == (CHOOSE f : f = [w \in Infos |-> EncodedBy(f, w, s)])[u][d]
Said(u, way) == (CHOOSE f : f = [w \in Infos |-> TextsBy(f, w)])[u][way]

(* The operators of the model are these functions, started.                *)
LEMMA FromTheRoot ==
    ASSUME NEW s, NEW u, NEW d
    PROVE  Sanitize(s, u) = Sanitized(s, u, 0) /\ Encode(s, u, d) = Encoded(s, u, d) /\ Texts(u) = Said(u, <<>>)
<1>1. Sanitize(s, u) = Sanitized(s, u, 0)
  BY DEF Sanitize, Sanitized, SanitizedBy
<1>2. Encode(s, u, d) = Encoded(s, u, d)
  BY DEF Encode, Encoded, EncodedBy
<1>3. Texts(u) = Said(u, <<>>)
  BY DEF Texts, Said, TextsBy
<1> QED BY <1>1, <1>2, <1>3

(* One step of redact_exception_info.                                      *)
LEMMA SanitizeRec ==
    ASSUME NEW s, NEW u \in Infos, NEW d \in Nat
    PROVE  Sanitized(s, u, d) =
               IF d >= s.exceptionDepth THEN Node(u.of, "max_depth")
               ELSE [of |-> u.of,
                     text |-> IF u.text = "raw" THEN "clean" ELSE u.text,
                     links |-> {[l EXCEPT !.to = Sanitized(s, l.to, d + 1)] :
                         l \in {k \in u.links : k.kind = "child" => k.at <= s.exceptionChildren}}]
<1> DEFINE f == CHOOSE f : f = [w \in Infos |-> SanitizedBy(f, w, s)]
<1>1. f = [w \in Infos |-> SanitizedBy(f, w, s)]
  BY RecursionsExist DEF SanitizesOn
<1>2. \A e, k : Sanitized(s, e, k) = f[e][k]
  BY DEF Sanitized
<1> HIDE DEF f
<1>3. f[u] = SanitizedBy(f, u, s)
  BY <1>1, Zenon
<1> QED BY <1>2, <1>3 DEF SanitizedBy

(* One step of encode.                                                     *)
LEMMA EncodeRec ==
    ASSUME NEW s, NEW u \in Infos, NEW d \in Nat
    PROVE  Encoded(s, u, d) =
               IF d >= s.maxDepth THEN Node(u.of, "gone")
               ELSE [of |-> u.of,
                     text |-> IF d + 1 < s.maxDepth /\ Keeps(s, "message") THEN u.text ELSE "gone",
                     links |-> {[l EXCEPT !.to = Encoded(s, l.to, d + Deeper(l.kind))] :
                         l \in {k \in u.links : KeepsLink(s, k)}}]
<1> DEFINE f == CHOOSE f : f = [w \in Infos |-> EncodedBy(f, w, s)]
<1>1. f = [w \in Infos |-> EncodedBy(f, w, s)]
  BY RecursionsExist DEF EncodesOn
<1>2. \A e, k : Encoded(s, e, k) = f[e][k]
  BY DEF Encoded
<1> HIDE DEF f
<1>3. f[u] = EncodedBy(f, u, s)
  BY <1>1, Zenon
<1> QED BY <1>2, <1>3 DEF EncodedBy

(* What is said at the end of a way, in the tree itself or where it links. *)
LEMMA SaidRec ==
    ASSUME NEW u \in Infos, NEW way \in Seq(LinksTo(Exceptions))
    PROVE  \A t : t \in Said(u, way) <=>
               \/ t = <<way, u.text>>
               \/ \E l \in u.links : t \in Said(l.to, Append(way, Link(l.kind, l.at, l.to.of)))
<1> DEFINE f == CHOOSE f : f = [w \in Infos |-> TextsBy(f, w)]
<1>1. f = [w \in Infos |-> TextsBy(f, w)]
  BY RecursionsExist DEF ReadsOn
<1>2. \A e, k : Said(e, k) = f[e][k]
  BY DEF Said
<1> HIDE DEF f
<1>3. f[u] = TextsBy(f, u)
  BY <1>1, Zenon
<1>4. Said(u, way) = {<<way, u.text>>} \cup
            UNION {Said(l.to, Append(way, Link(l.kind, l.at, l.to.of))) : l \in u.links}
  BY <1>2, <1>3 DEF TextsBy
<1> QED BY <1>4

-----------------------------------------------------------------------------
(* The recursive functions of numbers, one step of each.                   *)

KidsBy(f, group, i) ==
    IF i = 0 THEN <<>>
    ELSE IF group[i] = Nothing THEN f[i - 1] ELSE Append(f[i - 1], group[i])

BuiltBy(f, h, s, left) ==
    [x \in Exceptions |-> [seen \in SUBSET Exceptions |->
        IF left = 0 \/ x \in seen THEN Node(x, "limit")
        ELSE [Node(x, "raw") EXCEPT !.links =
                 {[l EXCEPT !.to = f[left - 1][l.to][seen \cup {x}]] : l \in LinksOf(h, s, x)}]]]

WaysBy(f, h, s, n) ==
    IF n = 0 THEN {<<>>}
    ELSE UNION {{Append(way, l) : l \in {m \in Steps(s) : LeadsOn(h, s, End(way), m)}} :
                    way \in {w \in f[n - 1] : Full(s, w)}}

KidsUpTo(k, f, group) == f = [i \in 0..k |-> KidsBy(f, group, i)]
BuildsUpTo(k, f, h, s) == f = [left \in 0..k |-> BuiltBy(f, h, s, left)]
WaysUpTo(k, f, h, s) == f = [n \in 0..k |-> WaysBy(f, h, s, n)]

(* A step looks at what is below only.                                     *)
LEMMA OneMore ==
    ASSUME NEW k \in Nat, NEW f, NEW g, \A n \in 0..k : f[n] = g[n], NEW n \in 0..(k + 1)
    PROVE  /\ \A group : KidsBy(f, group, n) = KidsBy(g, group, n)
           /\ \A h, s : BuiltBy(f, h, s, n) = BuiltBy(g, h, s, n)
           /\ \A h, s : WaysBy(f, h, s, n) = WaysBy(g, h, s, n)
<1>1. n # 0 => f[n - 1] = g[n - 1]
  OBVIOUS
<1>2. \A group : KidsBy(f, group, n) = KidsBy(g, group, n)
  BY <1>1 DEF KidsBy
<1>3. ASSUME NEW h, NEW s PROVE BuiltBy(f, h, s, n) = BuiltBy(g, h, s, n)
  <2> DEFINE F(x, seen) == {[l EXCEPT !.to = f[n - 1][l.to][seen \cup {x}]] : l \in LinksOf(h, s, x)}
             G(x, seen) == {[l EXCEPT !.to = g[n - 1][l.to][seen \cup {x}]] : l \in LinksOf(h, s, x)}
             B(x, seen, linked) == IF n = 0 \/ x \in seen THEN Node(x, "limit")
                                   ELSE [Node(x, "raw") EXCEPT !.links = linked]
  <2>1. \A x, seen : n # 0 => F(x, seen) = G(x, seen)
    BY <1>1
  <2>2. BuiltBy(f, h, s, n) = [x \in Exceptions |-> [seen \in SUBSET Exceptions |-> B(x, seen, F(x, seen))]]
        /\ BuiltBy(g, h, s, n) = [x \in Exceptions |-> [seen \in SUBSET Exceptions |-> B(x, seen, G(x, seen))]]
    BY DEF BuiltBy
  <2>3. \A x, seen : B(x, seen, F(x, seen)) = B(x, seen, G(x, seen))
    <3> HIDE DEF F, G
    <3> QED BY <2>1
  <2> HIDE DEF F, G, B
  <2> QED BY <2>2, <2>3
<1>4. \A h, s : WaysBy(f, h, s, n) = WaysBy(g, h, s, n)
  BY <1>1 DEF WaysBy
<1> QED BY <1>2, <1>3, <1>4

(* There are such functions up to every number.                            *)
LEMMA KidsExist == ASSUME NEW group PROVE \A k \in Nat : \E f : KidsUpTo(k, f, group)
<1> DEFINE T == {k \in Nat : \E f : KidsUpTo(k, f, group)}
<1>1. 0 \in T
  <2> DEFINE f == [i \in 0..0 |-> <<>>]
  <2>1. \A i \in 0..0 : i = 0
    OBVIOUS
  <2>2. KidsUpTo(0, f, group)
    BY <2>1 DEF KidsUpTo, KidsBy
  <2> QED BY <2>2
<1>2. ASSUME NEW k \in T PROVE k + 1 \in T
  <2>1. PICK f : KidsUpTo(k, f, group)
    OBVIOUS
  <2> DEFINE g == [i \in 0..(k + 1) |-> KidsBy(f, group, i)]
  <2>2. \A i \in 0..k : f[i] = g[i]
    BY <2>1 DEF KidsUpTo
  <2>3. \A i \in 0..(k + 1) : KidsBy(f, group, i) = KidsBy(g, group, i)
    <3> HIDE DEF g
    <3> QED BY <2>2, OneMore
  <2>4. KidsUpTo(k + 1, g, group)
    BY <2>3 DEF KidsUpTo
  <2> HIDE DEF g
  <2> QED BY <2>4
<1>3. T = Nat
  <2> HIDE DEF T
  <2>1. T \in SUBSET Nat
    BY DEF T
  <2> QED BY <1>1, <1>2, <2>1, SetInduction
<1> QED BY <1>3

(* So there are for the trees.                                             *)
LEMMA BuildsExist == ASSUME NEW h, NEW s PROVE \A k \in Nat : \E f : BuildsUpTo(k, f, h, s)
<1> DEFINE T == {k \in Nat : \E f : BuildsUpTo(k, f, h, s)}
<1>1. 0 \in T
  <2> DEFINE f == [left \in 0..0 |-> BuiltBy(<<>>, h, s, 0)]
  <2>1. \A left \in 0..0 : left = 0
    OBVIOUS
  <2>2. BuiltBy(f, h, s, 0) = BuiltBy(<<>>, h, s, 0)
    BY DEF BuiltBy
  <2>3. BuildsUpTo(0, f, h, s)
    BY <2>1, <2>2 DEF BuildsUpTo
  <2> QED BY <2>3
<1>2. ASSUME NEW k \in T PROVE k + 1 \in T
  <2>1. PICK f : BuildsUpTo(k, f, h, s)
    OBVIOUS
  <2> DEFINE g == [left \in 0..(k + 1) |-> BuiltBy(f, h, s, left)]
  <2>2. \A left \in 0..k : f[left] = g[left]
    BY <2>1 DEF BuildsUpTo
  <2>3. \A left \in 0..(k + 1) : BuiltBy(f, h, s, left) = BuiltBy(g, h, s, left)
    <3> HIDE DEF g
    <3> QED BY <2>2, OneMore
  <2>4. BuildsUpTo(k + 1, g, h, s)
    BY <2>3 DEF BuildsUpTo
  <2> HIDE DEF g
  <2> QED BY <2>4
<1>3. T = Nat
  <2> HIDE DEF T
  <2>1. T \in SUBSET Nat
    BY DEF T
  <2> QED BY <1>1, <1>2, <2>1, SetInduction
<1> QED BY <1>3

(* So there are for the ways.                                              *)
LEMMA WaysExist == ASSUME NEW h, NEW s PROVE \A k \in Nat : \E f : WaysUpTo(k, f, h, s)
<1> DEFINE T == {k \in Nat : \E f : WaysUpTo(k, f, h, s)}
<1>1. 0 \in T
  <2> DEFINE f == [n \in 0..0 |-> {<<>>}]
  <2>1. \A n \in 0..0 : n = 0
    OBVIOUS
  <2>2. WaysUpTo(0, f, h, s)
    BY <2>1 DEF WaysUpTo, WaysBy
  <2> QED BY <2>2
<1>2. ASSUME NEW k \in T PROVE k + 1 \in T
  <2>1. PICK f : WaysUpTo(k, f, h, s)
    OBVIOUS
  <2> DEFINE g == [n \in 0..(k + 1) |-> WaysBy(f, h, s, n)]
  <2>2. \A n \in 0..k : f[n] = g[n]
    BY <2>1 DEF WaysUpTo
  <2>3. \A n \in 0..(k + 1) : WaysBy(f, h, s, n) = WaysBy(g, h, s, n)
    <3> HIDE DEF g
    <3> QED BY <2>2, OneMore
  <2>4. WaysUpTo(k + 1, g, h, s)
    BY <2>3 DEF WaysUpTo
  <2> HIDE DEF g
  <2> QED BY <2>4
<1>3. T = Nat
  <2> HIDE DEF T
  <2>1. T \in SUBSET Nat
    BY DEF T
  <2> QED BY <1>1, <1>2, <2>1, SetInduction
<1> QED BY <1>3

(* The functions at any number.                                            *)
Kids(group, k, i) == (CHOOSE f : KidsUpTo(k, f, group))[i]
Built(h, s, left, x, seen) == (CHOOSE f : BuildsUpTo(s.exceptionDepth, f, h, s))[left][x][seen]
WaysOf(h, s, n) == (CHOOSE f : WaysUpTo(s.exceptionDepth, f, h, s))[n]

(* The operators of the model are these functions at their ends.           *)
LEMMA AtTheEnd ==
    ASSUME NEW h, NEW s, NEW e
    PROVE  /\ Build(h, s, e) = Built(h, s, s.exceptionDepth, e, {})
           /\ LET group == IF h[e].children = Unreadable THEN <<>> ELSE h[e].children
                  looked == IF Len(group) > s.exceptionChildren THEN s.exceptionChildren ELSE Len(group)
              IN  ChildrenOf(h, s, e) = Kids(group, looked, looked)
<1>1. Build(h, s, e) = Built(h, s, s.exceptionDepth, e, {})
  BY DEF Build, Built, BuildsUpTo, BuiltBy
<1> DEFINE group == IF h[e].children = Unreadable THEN <<>> ELSE h[e].children
           looked == IF Len(group) > s.exceptionChildren THEN s.exceptionChildren ELSE Len(group)
<1>3. ChildrenOf(h, s, e) = Kids(group, looked, looked)
  BY DEF ChildrenOf, Kids, KidsUpTo, KidsBy
<1> QED BY <1>1, <1>3

(* A way is one of some length.                                            *)
LEMMA WaysAreOf ==
    ASSUME NEW h, NEW s
    PROVE  \A v : v \in Ways(h, s) <=> \E n \in 0..s.exceptionDepth : v \in WaysOf(h, s, n)
<1>1. Ways(h, s) = UNION {WaysOf(h, s, n) : n \in 0..s.exceptionDepth}
  BY DEF Ways, WaysOf, WaysUpTo, WaysBy
<1> QED BY <1>1

(* One step through a group of exceptions.                                 *)
LEMMA KidsRec ==
    ASSUME NEW group, NEW k \in Nat, NEW i \in 0..k
    PROVE  Kids(group, k, i) =
               IF i = 0 THEN <<>>
               ELSE IF group[i] = Nothing THEN Kids(group, k, i - 1)
               ELSE Append(Kids(group, k, i - 1), group[i])
<1> DEFINE f == CHOOSE f : KidsUpTo(k, f, group)
<1>1. KidsUpTo(k, f, group)
  BY KidsExist
<1>2. \A j : Kids(group, k, j) = f[j]
  BY DEF Kids
<1> HIDE DEF f
<1>3. f[i] = KidsBy(f, group, i)
  BY <1>1, Zenon DEF KidsUpTo
<1>4. KidsBy(f, group, i) =
          IF i = 0 THEN <<>>
          ELSE IF group[i] = Nothing THEN Kids(group, k, i - 1)
          ELSE Append(Kids(group, k, i - 1), group[i])
  BY <1>2 DEF KidsBy
<1> QED BY <1>2, <1>3, <1>4

(* build_exception_info stops where it is too deep, or has been.           *)
LEMMA BuildEnd ==
    ASSUME NEW h, NEW s, s.exceptionDepth \in Nat, NEW left \in 0..s.exceptionDepth,
           NEW x \in Exceptions, NEW seen \in SUBSET Exceptions, left = 0 \/ x \in seen
    PROVE  Built(h, s, left, x, seen) = Node(x, "limit")
<1> DEFINE f == CHOOSE f : BuildsUpTo(s.exceptionDepth, f, h, s)
<1>1. BuildsUpTo(s.exceptionDepth, f, h, s)
  BY BuildsExist
<1>2. Built(h, s, left, x, seen) = f[left][x][seen]
  BY DEF Built
<1> HIDE DEF f
<1>3. f[left] = BuiltBy(f, h, s, left)
  BY <1>1, Zenon DEF BuildsUpTo
<1>4. BuiltBy(f, h, s, left)[x][seen] = Node(x, "limit")
  BY DEF BuiltBy
<1> QED BY <1>2, <1>3, <1>4

(* The links of an exception to the trees that are built below it.         *)
Grown(h, s, left, x, on) == {[l EXCEPT !.to = Built(h, s, left, l.to, on)] : l \in LinksOf(h, s, x)}

(* It goes on below otherwise.                                             *)
LEMMA BuildStep ==
    ASSUME NEW h, NEW s, s.exceptionDepth \in Nat, NEW left \in Nat, left + 1 \in 0..s.exceptionDepth,
           NEW x \in Exceptions, NEW seen \in SUBSET Exceptions, x \notin seen
    PROVE  Built(h, s, left + 1, x, seen) =
               [of |-> x, text |-> "raw", links |-> Grown(h, s, left, x, seen \cup {x})]
<1> DEFINE f == CHOOSE f : BuildsUpTo(s.exceptionDepth, f, h, s)
           n == left + 1
<1>1. BuildsUpTo(s.exceptionDepth, f, h, s)
  BY BuildsExist
<1>2. \A k, y, met : Built(h, s, k, y, met) = f[k][y][met]
  BY DEF Built
<1> HIDE DEF f
<1>3. n \in 0..s.exceptionDepth /\ n - 1 = left /\ n # 0
  OBVIOUS
<1> HIDE DEF n
<1>4. f[n] = BuiltBy(f, h, s, n)
  BY <1>1, <1>3, Zenon DEF BuildsUpTo
<1> DEFINE F(y, met) == {[l EXCEPT !.to = f[n - 1][l.to][met \cup {y}]] : l \in LinksOf(h, s, y)}
           G(y, met) == {[l EXCEPT !.to = Built(h, s, left, l.to, met \cup {y})] : l \in LinksOf(h, s, y)}
           B(y, met, linked) == IF n = 0 \/ y \in met THEN Node(y, "limit")
                                ELSE [Node(y, "raw") EXCEPT !.links = linked]
<1>5. BuiltBy(f, h, s, n) = [y \in Exceptions |-> [met \in SUBSET Exceptions |-> B(y, met, F(y, met))]]
  BY DEF BuiltBy
<1>6. F(x, seen) = G(x, seen)
  <2> DEFINE more == seen \cup {x}
  <2> HIDE DEF more
  <2>1. \A y : f[n - 1][y][more] = Built(h, s, left, y, more)
    BY <1>2, <1>3
  <2>2. {[l EXCEPT !.to = f[n - 1][l.to][more]] : l \in LinksOf(h, s, x)}
            = {[l EXCEPT !.to = Built(h, s, left, l.to, more)] : l \in LinksOf(h, s, x)}
    BY <2>1
  <2> QED BY <2>2 DEF more
<1>7. B(x, seen, G(x, seen)) = [Node(x, "raw") EXCEPT !.links = G(x, seen)]
  BY <1>3
<1> HIDE DEF F, G, B
<1>8. f[n][x][seen] = B(x, seen, F(x, seen))
  BY <1>4, <1>5
<1>9. Built(h, s, n, x, seen) = [Node(x, "raw") EXCEPT !.links = G(x, seen)]
  BY <1>2, <1>6, <1>7, <1>8
<1>10. [Node(x, "raw") EXCEPT !.links = G(x, seen)] = [of |-> x, text |-> "raw", links |-> G(x, seen)]
  BY DEF Node
<1> QED BY <1>9, <1>10 DEF G, n, Grown

(* A way that is one link longer than some way of n links.                 *)
IsLonger(h, s, n, v) ==
    \E way \in WaysOf(h, s, n) : \E l \in Steps(s) :
        Full(s, way) /\ LeadsOn(h, s, End(way), l) /\ v = Append(way, l)

(* A way is the empty one, or longer than one that is not cut.             *)
LEMMA WaysRec ==
    ASSUME NEW h, NEW s, s.exceptionDepth \in Nat
    PROVE  /\ WaysOf(h, s, 0) = {<<>>}
           /\ \A n \in Nat : n + 1 \in 0..s.exceptionDepth =>
                  \A v : v \in WaysOf(h, s, n + 1) <=> IsLonger(h, s, n, v)
<1> DEFINE f == CHOOSE f : WaysUpTo(s.exceptionDepth, f, h, s)
<1>1. WaysUpTo(s.exceptionDepth, f, h, s)
  BY WaysExist
<1>2. \A n : WaysOf(h, s, n) = f[n]
  BY DEF WaysOf
<1> HIDE DEF f
<1>3. \A n \in 0..s.exceptionDepth : f[n] = WaysBy(f, h, s, n)
  BY <1>1, Zenon DEF WaysUpTo
<1>4. 0 \in 0..s.exceptionDepth
  OBVIOUS
<1>5. WaysOf(h, s, 0) = {<<>>}
  BY <1>2, <1>3, <1>4 DEF WaysBy
<1>6. ASSUME NEW n \in Nat, n + 1 \in 0..s.exceptionDepth, NEW v
      PROVE  v \in WaysOf(h, s, n + 1) <=> IsLonger(h, s, n, v)
  <2>1. n + 1 # 0 /\ (n + 1) - 1 = n
    OBVIOUS
  <2> DEFINE m == n + 1
             F(k) == UNION {{Append(way, l) : l \in {x \in Steps(s) : LeadsOn(h, s, End(way), x)}} :
                                way \in {w \in f[k] : Full(s, w)}}
  <2>2. m - 1 = n /\ m # 0
    BY <2>1
  <2>3. f[m] = IF m = 0 THEN {<<>>} ELSE F(m - 1)
    BY <1>3, <1>6 DEF WaysBy
  <2> HIDE DEF m, F
  <2>4. f[m] = F(n)
    BY <2>2, <2>3
  <2>5. v \in F(n) <=> \E way \in f[n] : \E l \in Steps(s) :
                           Full(s, way) /\ LeadsOn(h, s, End(way), l) /\ v = Append(way, l)
    BY DEF F
  <2>6. WaysOf(h, s, m) = F(n) /\ WaysOf(h, s, n) = f[n]
    BY <1>2, <2>4
  <2> QED BY <2>5, <2>6 DEF m, IsLonger
<1> QED BY <1>5, <1>6

-----------------------------------------------------------------------------
(* The children of an exception, told without recursion.                   *)

(* The exception objects a program can have.                               *)
Group == Seq(Exceptions \cup {Nothing})
Objects == [cause : Exceptions \cup {Nothing, Unreadable}, context : Exceptions \cup {Nothing, Unreadable},
            suppress : BOOLEAN, children : Group \cup {Unreadable}]
Heaps == [Exceptions -> Objects]

(* The number of the child at a place of the group.                        *)
Before(group, i) == {j \in 1..i : group[j] # Nothing}
Rank(group, i) == Cardinality(Before(group, i))

(* How children are counted.                                               *)
LEMMA RankRec ==
    ASSUME NEW group
    PROVE  /\ Rank(group, 0) = 0
           /\ \A i \in Nat :
                 /\ IsFiniteSet(Before(group, i))
                 /\ Rank(group, i) \in 0..i
                 /\ Rank(group, i + 1) = IF group[i + 1] = Nothing THEN Rank(group, i) ELSE Rank(group, i) + 1
                 /\ \A j \in 0..i : Rank(group, j) <= Rank(group, i)
<1>1. Rank(group, 0) = 0
  <2>1. Before(group, 0) = {}
    BY DEF Before
  <2> QED BY <2>1, FS_EmptySet DEF Rank
<1>2. ASSUME NEW i \in Nat PROVE IsFiniteSet(Before(group, i)) /\ Rank(group, i) \in 0..i
  <2>1. IsFiniteSet(1..i) /\ Cardinality(1..i) = i
    BY FS_Interval
  <2>2. Before(group, i) \subseteq 1..i
    BY DEF Before
  <2>3. IsFiniteSet(Before(group, i)) /\ Cardinality(Before(group, i)) <= i
    BY <2>1, <2>2, FS_Subset
  <2>4. Cardinality(Before(group, i)) \in Nat
    BY <2>3, FS_CardinalityType
  <2> QED BY <2>3, <2>4 DEF Rank
<1>3. ASSUME NEW i \in Nat
      PROVE  Rank(group, i + 1) = IF group[i + 1] = Nothing THEN Rank(group, i) ELSE Rank(group, i) + 1
  <2>1. CASE group[i + 1] = Nothing
    <3>1. Before(group, i + 1) = Before(group, i)
      BY <2>1 DEF Before
    <3> QED BY <2>1, <3>1 DEF Rank
  <2>2. CASE group[i + 1] # Nothing
    <3>1. Before(group, i + 1) = Before(group, i) \cup {i + 1} /\ i + 1 \notin Before(group, i)
      BY <2>2 DEF Before
    <3>2. Cardinality(Before(group, i) \cup {i + 1}) = Cardinality(Before(group, i)) + 1
      BY <1>2, <3>1, FS_AddElement
    <3> QED BY <2>2, <3>1, <3>2 DEF Rank
  <2> QED BY <2>1, <2>2
<1>4. ASSUME NEW i \in Nat, NEW j \in 0..i PROVE Rank(group, j) <= Rank(group, i)
  <2>1. Before(group, j) \subseteq Before(group, i)
    BY DEF Before
  <2> QED BY <1>2, <2>1, FS_Subset DEF Rank
<1> QED BY <1>1, <1>2, <1>3, <1>4

KidsAre(group, kids, i) ==
    /\ kids \in Seq(Exceptions)
    /\ Len(kids) = Rank(group, i)
    /\ \A n, x : n \in DOMAIN kids /\ kids[n] = x <=>
          \E j \in 1..i : group[j] = x /\ x # Nothing /\ n = Rank(group, j)

(* The children of a group are its exceptions, in their order.             *)
LEMMA KidsForm ==
    ASSUME NEW group \in Group, NEW k \in 0..Len(group)
    PROVE  KidsAre(group, Kids(group, k, k), k)
<1> DEFINE T == {i \in 0..k : KidsAre(group, Kids(group, k, i), i)}
<1>0. k \in Nat /\ 0 \in 0..k /\ k \in 0..k
  BY DEF Group
<1>1. 0 \in T
  <2>1. Kids(group, k, 0) = <<>>
    BY <1>0, KidsRec
  <2>2. <<>> \in Seq(Exceptions) /\ Len(<<>>) = Rank(group, 0) /\ DOMAIN <<>> = {}
    BY RankRec
  <2>3. KidsAre(group, <<>>, 0)
    BY <2>2 DEF KidsAre
  <2> QED BY <1>0, <2>1, <2>3
<1>2. ASSUME NEW i \in 0..k, i # k, i \in T PROVE i + 1 \in T
  <2> DEFINE kids == Kids(group, k, i)
             more == Kids(group, k, i + 1)
             x0 == group[i + 1]
  <2>1. /\ i \in Nat /\ i + 1 \in 0..k /\ i + 1 # 0 /\ (i + 1) - 1 = i /\ i + 1 \in 1..Len(group)
        /\ x0 \in Exceptions \cup {Nothing}
    BY <1>0, <1>2 DEF Group
  <2>2. KidsAre(group, kids, i)
    BY <1>2
  <2>3. more = IF x0 = Nothing THEN kids ELSE Append(kids, x0)
    BY <1>0, <2>1, KidsRec
  <2> HIDE DEF kids, more, T
  <2>4. Rank(group, i) \in Nat
    <3>1. Rank(group, i) \in 0..i
      BY <2>1, RankRec
    <3> QED BY <3>1
  <2>5. Rank(group, i + 1) = IF x0 = Nothing THEN Rank(group, i) ELSE Rank(group, i) + 1
    BY <2>1, RankRec
  <2>6. CASE x0 = Nothing
    <3>1. \A n, x : (\E j \in 1..i : group[j] = x /\ x # Nothing /\ n = Rank(group, j)) <=>
                        \E j \in 1..(i + 1) : group[j] = x /\ x # Nothing /\ n = Rank(group, j)
      <4>1. \A j : j \in 1..(i + 1) <=> j \in 1..i \/ j = i + 1
        BY <2>1
      <4>2. \A x : ~(group[i + 1] = x /\ x # Nothing)
        BY <2>6
      <4> QED BY <4>1, <4>2, Zenon
    <3>2. more = kids /\ Rank(group, i + 1) = Rank(group, i)
      BY <2>3, <2>5, <2>6
    <3>3. KidsAre(group, kids, i + 1)
      <4>1. \A n, x : n \in DOMAIN kids /\ kids[n] = x <=>
                \E j \in 1..i : group[j] = x /\ x # Nothing /\ n = Rank(group, j)
        BY <2>2, Zenon DEF KidsAre
      <4>2. \A n, x : n \in DOMAIN kids /\ kids[n] = x <=>
                \E j \in 1..(i + 1) : group[j] = x /\ x # Nothing /\ n = Rank(group, j)
        <5> DEFINE P(n, x) == n \in DOMAIN kids /\ kids[n] = x
                   Q(n, x) == \E j \in 1..i : group[j] = x /\ x # Nothing /\ n = Rank(group, j)
                   R(n, x) == \E j \in 1..(i + 1) : group[j] = x /\ x # Nothing /\ n = Rank(group, j)
        <5>1. \A n, x : P(n, x) <=> Q(n, x)
          BY <4>1
        <5>2. \A n, x : Q(n, x) <=> R(n, x)
          BY <3>1
        <5> HIDE DEF P, Q, R
        <5>3. \A n, x : P(n, x) <=> R(n, x)
          BY <5>1, <5>2
        <5> QED BY <5>3 DEF P, R
      <4>3. kids \in Seq(Exceptions) /\ Len(kids) = Rank(group, i + 1)
        BY <2>2, <3>2 DEF KidsAre
      <4> QED BY <4>2, <4>3, Zenon DEF KidsAre
    <3> QED BY <2>1, <3>2, <3>3 DEF T, more
  <2>7. CASE x0 # Nothing
    <3>1. more \in Seq(Exceptions) /\ Len(more) = Rank(group, i + 1)
      BY <2>1, <2>2, <2>3, <2>5, <2>7 DEF KidsAre
    <3>2. DOMAIN kids = 1..Rank(group, i) /\ DOMAIN more = 1..(Rank(group, i) + 1)
      <4>1. kids \in Seq(Exceptions) /\ Len(kids) = Rank(group, i)
        BY <2>2 DEF KidsAre
      <4>2. Len(more) = Rank(group, i) + 1
        BY <2>5, <2>7, <3>1
      <4> QED BY <3>1, <4>1, <4>2
    <3>3. /\ \A n \in 1..Rank(group, i) : more[n] = kids[n]
          /\ more[Rank(group, i) + 1] = x0
      BY <2>1, <2>2, <2>3, <2>4, <2>7, <3>2 DEF KidsAre
    <3>4. ASSUME NEW n, NEW x
          PROVE  n \in DOMAIN more /\ more[n] = x <=>
                    \E j \in 1..(i + 1) : group[j] = x /\ x # Nothing /\ n = Rank(group, j)
      <4>1. \A j : j \in 1..(i + 1) <=> j \in 1..i \/ j = i + 1
        BY <2>1
      <4>2. n \in DOMAIN kids /\ kids[n] = x <=> \E j \in 1..i : group[j] = x /\ x # Nothing /\ n = Rank(group, j)
        BY <2>2 DEF KidsAre
      <4>3. n \in DOMAIN more <=> n \in DOMAIN kids \/ n = Rank(group, i) + 1
        BY <2>4, <3>2
      <4>4. Rank(group, i) + 1 \notin DOMAIN kids
        BY <2>4, <3>2
      <4>5. n \in DOMAIN kids => more[n] = kids[n]
        BY <3>2, <3>3
      <4>6. (\E j \in 1..(i + 1) : group[j] = x /\ x # Nothing /\ n = Rank(group, j)) <=>
                \/ \E j \in 1..i : group[j] = x /\ x # Nothing /\ n = Rank(group, j)
                \/ x0 = x /\ x # Nothing /\ n = Rank(group, i + 1)
        BY <4>1
      <4> HIDE DEF x0
      <4>7. x0 = x /\ x # Nothing /\ n = Rank(group, i + 1) <=> x = x0 /\ n = Rank(group, i) + 1
        BY <2>5, <2>7
      <4> QED BY <3>3, <4>2, <4>3, <4>4, <4>5, <4>6, <4>7
    <3>5. KidsAre(group, more, i + 1)
      BY <3>1, <3>4 DEF KidsAre
    <3> QED BY <2>1, <3>5 DEF T, more
  <2> QED BY <2>6, <2>7
<1>3. k \in T
  <2> HIDE DEF T
  <2> QED BY <1>0, <1>1, <1>2, BoundedInduction
<1> QED BY <1>3

(* The limits of a configuration are numbers.                              *)
LEMMA Limits ==
    ASSUME NEW s \in Situations
    PROVE  /\ s.exceptionDepth \in Nat /\ s.exceptionDepth # 0 /\ s.exceptionDepth <= MaxHeight
           /\ s.exceptionChildren \in Nat
           /\ s.maxDepth \in Nat /\ s.maxItems \in Nat
           /\ s.maxFrames \in Nat \ {0} /\ s.fingerprintFrames \in Nat \ {0} /\ s.maxCrumbs \in Nat \ {0}
           /\ s.traceback \in Nat /\ s.crumbs \in Nat
BY SituationAssumption

ChildrenAre(s, group, kids) ==
    \A n, x : n \in DOMAIN kids /\ kids[n] = x <=>
        /\ group # Unreadable
        /\ \E i \in DOMAIN group :
              i <= s.exceptionChildren /\ group[i] = x /\ x # Nothing /\ n = Rank(group, i)

(* The children are the exceptions among the first ones of a group.        *)
LEMMA ChildrenForm ==
    ASSUME NEW h \in Heaps, NEW s \in Situations, NEW e \in Exceptions
    PROVE  /\ ChildrenOf(h, s, e) \in Seq(Exceptions)
           /\ ChildrenAre(s, h[e].children, ChildrenOf(h, s, e))
<1> DEFINE group == IF h[e].children = Unreadable THEN <<>> ELSE h[e].children
           looked == IF Len(group) > s.exceptionChildren THEN s.exceptionChildren ELSE Len(group)
           kids == ChildrenOf(h, s, e)
<1>1. group \in Group
  <2>1. h[e].children \in Group \cup {Unreadable}
    BY DEF Heaps, Objects
  <2>2. <<>> \in Group
    BY DEF Group
  <2> QED BY <2>1, <2>2
<1>2. Len(group) \in Nat /\ DOMAIN group = 1..Len(group)
  <2> HIDE DEF group
  <2> QED BY <1>1 DEF Group
<1>3. looked \in 0..Len(group) /\ \A i : i \in 1..looked <=> i \in 1..Len(group) /\ i <= s.exceptionChildren
  <2> HIDE DEF group
  <2> QED BY <1>2, Limits
<1>4. kids = Kids(group, looked, looked)
  BY AtTheEnd
<1> HIDE DEF looked, kids
<1>5. KidsAre(group, kids, looked)
  <2> HIDE DEF group
  <2> QED BY <1>1, <1>3, <1>4, KidsForm
<1>6. ASSUME NEW n, NEW x
      PROVE  n \in DOMAIN kids /\ kids[n] = x <=>
                \E i \in DOMAIN group : i <= s.exceptionChildren /\ group[i] = x /\ x # Nothing /\ n = Rank(group, i)
  <2> HIDE DEF group
  <2>1. n \in DOMAIN kids /\ kids[n] = x <=> \E i \in 1..looked : group[i] = x /\ x # Nothing /\ n = Rank(group, i)
    BY <1>5 DEF KidsAre
  <2>2. \A i : i \in 1..looked <=> i \in DOMAIN group /\ i <= s.exceptionChildren
    BY <1>2, <1>3
  <2> QED BY <2>1, <2>2
<1>7. CASE h[e].children = Unreadable
  <2>1. group = <<>> /\ DOMAIN group = {}
    BY <1>7
  <2>2. \A n, x : ~(n \in DOMAIN kids /\ kids[n] = x)
    BY <1>6, <2>1
  <2>3. kids \in Seq(Exceptions)
    BY <1>5 DEF KidsAre
  <2> QED BY <1>7, <2>2, <2>3 DEF kids, ChildrenAre
<1>8. CASE h[e].children # Unreadable
  <2>1. group = h[e].children
    BY <1>8
  <2>3. kids \in Seq(Exceptions)
    BY <1>5 DEF KidsAre
  <2> HIDE DEF group
  <2> QED BY <1>6, <1>8, <2>1, <2>3 DEF kids, ChildrenAre
<1> QED BY <1>7, <1>8

(* An exception leads on exactly where it has links.                       *)
LEMMA LinksForm ==
    ASSUME NEW h \in Heaps, NEW s \in Situations, NEW e \in Exceptions
    PROVE  \A l : l \in LinksOf(h, s, e) <=> l \in Steps(s) /\ LeadsOn(h, s, e, l)
<1>1. /\ 1 \in 1..(1 + s.exceptionChildren) /\ s.exceptionChildren \in Nat
      /\ "cause" # "context" /\ "cause" # "child" /\ "context" # "child"
  BY Limits
<1> DEFINE x == h[e]
           kids == ChildrenOf(h, s, e)
<1>2. \A l : l \in Steps(s) <=> /\ l = Link(l.kind, l.at, l.to)
                                /\ l.kind \in Kinds /\ l.at \in 1..(1 + s.exceptionChildren) /\ l.to \in Exceptions
  BY DEF Steps, Link
<1>3. \A kind, at, to : Link(kind, at, to).kind = kind /\ Link(kind, at, to).at = at /\ Link(kind, at, to).to = to
  BY DEF Link
<1>4. \A l : l \in LinksOf(h, s, e) <=>
          \/ l = Link("cause", 1, x.cause) /\ x.cause \in Exceptions
          \/ l = Link("context", 1, x.context) /\ x.context \in Exceptions /\ ~x.suppress
          \/ \E i \in DOMAIN kids : l = Link("child", i, kids[i])
  BY DEF LinksOf
<1>5. kids \in Seq(Exceptions) /\ ChildrenAre(s, x.children, kids)
  BY ChildrenForm
<1> HIDE DEF kids
<1>6. \A n, c : n \in DOMAIN kids /\ kids[n] = c <=>
          /\ x.children # Unreadable
          /\ \E i \in DOMAIN x.children :
                i <= s.exceptionChildren /\ x.children[i] = c /\ c # Nothing /\ n = Rank(x.children, i)
  BY <1>5, Zenon DEF ChildrenAre
<1>7. ASSUME x.children # Unreadable, NEW i \in DOMAIN x.children, i <= s.exceptionChildren, x.children[i] # Nothing
      PROVE  x.children[i] \in Exceptions /\ Rank(x.children, i) \in 1..(1 + s.exceptionChildren)
             /\ Rank(x.children, i) <= s.exceptionChildren
  <2>1. x.children \in Group
    BY <1>7 DEF Heaps, Objects
  <2>2. i \in Nat /\ i # 0 /\ x.children[i] \in Exceptions \cup {Nothing}
    <3> HIDE DEF x
    <3> QED BY <2>1 DEF Group
  <2> DEFINE g == x.children
  <2> HIDE DEF g
  <2>3. i - 1 \in Nat /\ (i - 1) + 1 = i
    BY <2>2
  <2>4. Rank(g, i) = Rank(g, i - 1) + 1
    BY <1>7, <2>3, RankRec DEF g
  <2>5. Rank(g, i) \in 0..i /\ Rank(g, i - 1) \in 0..(i - 1)
    <3>1. \A j \in Nat : Rank(g, j) \in 0..j
      BY RankRec
    <3> QED BY <2>2, <2>3, <3>1
  <2>6. Rank(g, i) \in 1..(1 + s.exceptionChildren) /\ Rank(g, i) <= s.exceptionChildren
    BY <1>1, <1>7, <2>2, <2>4, <2>5
  <2> QED BY <1>7, <2>2, <2>6 DEF g
<1> HIDE DEF x
<1>8. ASSUME NEW l \in LinksOf(h, s, e) PROVE l \in Steps(s) /\ LeadsOn(h, s, e, l)
  <2>1. CASE l = Link("cause", 1, x.cause) /\ x.cause \in Exceptions
    BY <2>1, <1>1, <1>2, <1>3 DEF Kinds, LeadsOn, x
  <2>2. CASE l = Link("context", 1, x.context) /\ x.context \in Exceptions /\ ~x.suppress
    BY <2>2, <1>1, <1>2, <1>3 DEF Kinds, LeadsOn, x
  <2>3. ASSUME NEW n \in DOMAIN kids, l = Link("child", n, kids[n]) PROVE l \in Steps(s) /\ LeadsOn(h, s, e, l)
    <3>1. PICK i \in DOMAIN x.children :
              i <= s.exceptionChildren /\ x.children[i] = kids[n] /\ kids[n] # Nothing /\ n = Rank(x.children, i)
      BY <1>6
    <3>2. x.children # Unreadable
      BY <1>6
    <3>3. kids[n] \in Exceptions /\ n \in 1..(1 + s.exceptionChildren)
      BY <1>7, <3>1, <3>2
    <3>4. l \in Steps(s)
      BY <1>2, <1>3, <2>3, <3>3 DEF Kinds
    <3>5. n = Cardinality({j \in 1..i : x.children[j] # Nothing})
      BY <3>1 DEF Rank, Before
    <3>6. LeadsOn(h, s, e, l)
      <4>1. l.kind = "child" /\ l.to = kids[n] /\ l.at = n
        BY <1>3, <2>3
      <4> QED BY <3>1, <3>2, <3>5, <4>1, Zenon DEF LeadsOn, x
    <3> QED BY <3>4, <3>6
  <2> QED BY <1>4, <1>8, <2>1, <2>2, <2>3
<1>9. ASSUME NEW l \in Steps(s), LeadsOn(h, s, e, l) PROVE l \in LinksOf(h, s, e)
  <2>1. l = Link(l.kind, l.at, l.to) /\ l.to \in Exceptions
    BY <1>2
  <2>2. CASE l.kind = "cause" /\ l.at = 1 /\ x.cause = l.to
    BY <1>4, <2>1, <2>2
  <2>3. CASE l.kind = "context" /\ l.at = 1 /\ x.context = l.to /\ ~x.suppress
    BY <1>4, <2>1, <2>3
  <2>4. CASE /\ l.kind = "child"
             /\ x.children # Unreadable
             /\ \E i \in DOMAIN x.children :
                   /\ i <= s.exceptionChildren
                   /\ x.children[i] = l.to
                   /\ l.at = Cardinality({j \in 1..i : x.children[j] # Nothing})
    <3>1. PICK i \in DOMAIN x.children : i <= s.exceptionChildren /\ x.children[i] = l.to /\ l.at = Rank(x.children, i)
      BY <2>4 DEF Rank, Before
    <3>2. l.to # Nothing
      BY <2>1, ExceptionAssumption
    <3>3. l.at \in DOMAIN kids /\ kids[l.at] = l.to
      BY <1>6, <2>4, <3>1, <3>2
    <3> QED BY <1>4, <2>1, <2>4, <3>3
  <2> QED BY <1>9, <2>2, <2>3, <2>4 DEF LeadsOn, x
<1> QED BY <1>8, <1>9

(* No child is numbered higher than max_exception_children.                *)
LEMMA ChildrenAreFew ==
    ASSUME NEW h \in Heaps, NEW s \in Situations, NEW e \in Exceptions, NEW l \in LinksOf(h, s, e)
    PROVE  l.kind = "child" => l.at <= s.exceptionChildren
<1> SUFFICES ASSUME l.kind = "child" PROVE l.at <= s.exceptionChildren
  OBVIOUS
<1> DEFINE group == h[e].children
<1>1. LeadsOn(h, s, e, l)
  BY LinksForm
<1>2. group # Unreadable /\ \E i \in DOMAIN group : i <= s.exceptionChildren /\ l.at = Rank(group, i)
  BY <1>1 DEF LeadsOn, Rank, Before
<1>3. group \in Group
  BY <1>2 DEF Heaps, Objects
<1> HIDE DEF group
<1>4. PICK i \in DOMAIN group : i <= s.exceptionChildren /\ l.at = Rank(group, i)
  BY <1>2
<1>5. i \in Nat
  BY <1>3 DEF Group
<1>6. Rank(group, i) \in 0..i
  BY <1>5, RankRec
<1> QED BY <1>4, <1>5, <1>6, Limits

-----------------------------------------------------------------------------
(* The trees have their types.                                             *)

(* Nodes and links, changed and taken apart.                               *)
LEMMA TreeForms ==
    /\ \A e, text, linked : [Node(e, text) EXCEPT !.links = linked] = [of |-> e, text |-> text, links |-> linked]
    /\ \A e, text : Node(e, text).of = e /\ Node(e, text).text = text /\ Node(e, text).links = {}
    /\ \A l, u : l = Link(l.kind, l.at, l.to) => [l EXCEPT !.to = u] = Link(l.kind, l.at, u)
    /\ \A kind, at, to : Link(kind, at, to).kind = kind /\ Link(kind, at, to).at = at /\ Link(kind, at, to).to = to
BY DEF Node, Link

(* A node is a tree of any level but the lowest.                           *)
LEMMA NodeIsOver ==
    ASSUME NEW S, NEW e \in Exceptions, NEW text \in Readings
    PROVE  Node(e, text) \in Over(S)
BY IsOver DEF Node


(* A step of a way is a link to an exception.                              *)
LEMMA LinkForm ==
    ASSUME NEW s, NEW l \in Steps(s)
    PROVE  /\ l = Link(l.kind, l.at, l.to) /\ l.kind \in Kinds /\ l.at \in Nat /\ l.to \in Exceptions
           /\ l \in LinksTo(Exceptions)
<1>1. l \in [kind : Kinds, at : 1..(1 + s.exceptionChildren), to : Exceptions]
  BY DEF Steps
<1>2. \A n \in 1..(1 + s.exceptionChildren) : n \in Nat
  OBVIOUS
<1>3. l \in LinksTo(Exceptions)
  BY <1>1, <1>2 DEF LinksTo
<1>4. l = Link(l.kind, l.at, l.to) /\ l.kind \in Kinds /\ l.at \in Nat /\ l.to \in Exceptions
  BY <1>3 DEF LinksTo, Link
<1> QED BY <1>3, <1>4

(* A tree is as high as the depth that is left.                            *)
LEMMA BuiltLevel ==
    ASSUME NEW h \in Heaps, NEW s \in Situations
    PROVE  \A left \in 0..s.exceptionDepth : \A x \in Exceptions : \A seen \in SUBSET Exceptions :
               Built(h, s, left, x, seen) \in Levels[left + 1] /\ Built(h, s, left, x, seen).of = x
<1> DEFINE depth == s.exceptionDepth
           Good(left) == \A x \in Exceptions : \A seen \in SUBSET Exceptions :
               Built(h, s, left, x, seen) \in Levels[left + 1] /\ Built(h, s, left, x, seen).of = x
           T == {left \in 0..depth : Good(left)}
<1>1. depth \in Nat /\ depth <= MaxHeight /\ MaxHeight \in Nat /\ Last = MaxHeight + 1
  BY Limits, ExceptionAssumption DEF Last
<1>2. \A left \in 0..depth : left \in 0..Last /\ left # Last /\ left + 1 \in 0..Last
  BY <1>1
<1>3. "limit" \in Readings /\ "raw" \in Readings
  BY DEF Readings
<1>4. 0 \in T
  <2>1. ASSUME NEW x \in Exceptions, NEW seen \in SUBSET Exceptions
        PROVE  Built(h, s, 0, x, seen) \in Levels[0 + 1] /\ Built(h, s, 0, x, seen).of = x
    <3>1. Built(h, s, 0, x, seen) = Node(x, "limit")
      <4>1. 0 \in 0..s.exceptionDepth /\ s.exceptionDepth \in Nat
        BY <1>1
      <4> QED BY <4>1, BuildEnd
    <3>2. Levels[0 + 1] = Over(Levels[0])
      BY <1>1, <1>2, LevelsForm
    <3>3. Node(x, "limit") \in Over(Levels[0])
      BY <1>3, NodeIsOver
    <3> QED BY <3>1, <3>2, <3>3, TreeForms
  <2> QED BY <1>1, <2>1
<1>5. ASSUME NEW left \in 0..depth, left # depth, left \in T PROVE left + 1 \in T
  <2> DEFINE more == left + 1
  <2>1. more \in 0..depth /\ more # 0 /\ more - 1 = left
    BY <1>1, <1>5
  <2>2. Good(left)
    BY <1>5
  <2>3. ASSUME NEW x \in Exceptions, NEW seen \in SUBSET Exceptions
        PROVE  Built(h, s, more, x, seen) \in Levels[more + 1] /\ Built(h, s, more, x, seen).of = x
    <3> DEFINE on == seen \cup {x}
               linked == Grown(h, s, left, x, on)
    <3>1. Built(h, s, more, x, seen) =
              IF more = 0 \/ x \in seen THEN Node(x, "limit")
              ELSE [of |-> x, text |-> "raw", links |-> linked]
      <4>1. left \in Nat /\ more = left + 1 /\ more # 0
        BY <1>1, <1>5
      <4>2. x \in seen => Built(h, s, more, x, seen) = Node(x, "limit")
        BY <1>1, <2>1, BuildEnd
      <4>3. x \notin seen => Built(h, s, more, x, seen) = [of |-> x, text |-> "raw", links |-> linked]
        BY <1>1, <2>1, <4>1, BuildStep
      <4> HIDE DEF linked, more
      <4> QED BY <4>1, <4>2, <4>3
    <3>2. Levels[more + 1] = Over(Levels[more])
      <4> HIDE DEF more
      <4> QED BY <1>2, <2>1, LevelsForm
    <3>3. on \in SUBSET Exceptions
      OBVIOUS
    <3>4. ASSUME NEW l \in LinksOf(h, s, x)
          PROVE  [l EXCEPT !.to = Built(h, s, left, l.to, on)] = Link(l.kind, l.at, Built(h, s, left, l.to, on))
                 /\ l.kind \in Kinds /\ l.at \in Nat /\ Built(h, s, left, l.to, on) \in Levels[more]
      <4> HIDE DEF on
      <4>1. l \in Steps(s)
        BY LinksForm
      <4>2. l = Link(l.kind, l.at, l.to) /\ l.kind \in Kinds /\ l.at \in Nat /\ l.to \in Exceptions
        BY <4>1, LinkForm
      <4>3. Built(h, s, left, l.to, on) \in Levels[more]
        BY <2>2, <3>3, <4>2
      <4> QED BY <4>2, <4>3, TreeForms
    <3>5. \A m \in linked : m = Link(m.kind, m.at, m.to) /\ m.kind \in Kinds /\ m.at \in Nat /\ m.to \in Levels[more]
      <4> HIDE DEF on, more
      <4> QED BY <3>4, TreeForms DEF Grown
    <3> HIDE DEF linked, more, on
    <3>6. [of |-> x, text |-> "raw", links |-> linked] \in Over(Levels[more])
      BY <1>3, <3>5, IsOver
    <3>7. Node(x, "limit") \in Over(Levels[more])
      BY <1>3, NodeIsOver
    <3> QED BY <3>1, <3>2, <3>6, <3>7, TreeForms
  <2> HIDE DEF more
  <2>4. Good(more)
    BY <2>3
  <2> HIDE DEF Good
  <2>5. more \in T
    BY <2>1, <2>4
  <2> QED BY <2>5 DEF more
<1>6. \A left \in 0..depth : left \in T
  <2> HIDE DEF T, depth
  <2> QED BY <1>1, <1>4, <1>5, BoundedInduction
<1> QED BY <1>6

(* Redaction leaves trees as high as they are, and of what they are.       *)
LEMMA SanitizedLevel ==
    ASSUME NEW s
    PROVE  \A n \in 0..Last : \A u \in Levels[n] : \A d \in Nat :
               Sanitized(s, u, d) \in Levels[n] /\ Sanitized(s, u, d).of = u.of
<1> DEFINE Good(n) == \A u \in Levels[n] : \A d \in Nat :
               Sanitized(s, u, d) \in Levels[n] /\ Sanitized(s, u, d).of = u.of
           T == {n \in 0..Last : Good(n)}
<1>1. 0 \in T
  BY LevelsForm, LastIsNumber
<1>2. ASSUME NEW n \in 0..Last, n # Last, n \in T PROVE n + 1 \in T
  <2>1. n + 1 \in 0..Last /\ Levels[n + 1] = Over(Levels[n]) /\ Levels[n + 1] \subseteq Infos
    BY <1>2, LastIsNumber, LevelsForm, LevelsAreInfos
  <2>2. Good(n)
    BY <1>2
  <2>3. ASSUME NEW u \in Levels[n + 1], NEW d \in Nat
        PROVE  Sanitized(s, u, d) \in Levels[n + 1] /\ Sanitized(s, u, d).of = u.of
    <3> DEFINE kept == {k \in u.links : k.kind = "child" => k.at <= s.exceptionChildren}
               linked == {[l EXCEPT !.to = Sanitized(s, l.to, d + 1)] : l \in kept}
               text == IF u.text = "raw" THEN "clean" ELSE u.text
    <3>1. Sanitized(s, u, d) = IF d >= s.exceptionDepth THEN Node(u.of, "max_depth")
                               ELSE [of |-> u.of, text |-> text, links |-> linked]
      <4>1. u \in Infos
        BY <2>1
      <4> QED BY <4>1, SanitizeRec
    <3>2. u.of \in Exceptions /\ u.text \in Readings
          /\ \A l \in u.links : l = Link(l.kind, l.at, l.to) /\ l.kind \in Kinds /\ l.at \in Nat /\ l.to \in Levels[n]
      BY <2>1, OverForm
    <3>3. text \in Readings /\ "max_depth" \in Readings
      BY <3>2 DEF Readings
    <3>4. \A l \in kept : /\ [l EXCEPT !.to = Sanitized(s, l.to, d + 1)] = Link(l.kind, l.at, Sanitized(s, l.to, d + 1))
                          /\ l.kind \in Kinds /\ l.at \in Nat /\ Sanitized(s, l.to, d + 1) \in Levels[n]
      <4>1. d + 1 \in Nat
        OBVIOUS
      <4>2. \A l \in u.links : Sanitized(s, l.to, d + 1) \in Levels[n]
        BY <2>2, <3>2, <4>1, Zenon
      <4> QED BY <3>2, <4>2, TreeForms
    <3> HIDE DEF kept, text
    <3>5. \A m \in linked : m = Link(m.kind, m.at, m.to) /\ m.kind \in Kinds /\ m.at \in Nat /\ m.to \in Levels[n]
      BY <3>4, TreeForms
    <3> HIDE DEF linked
    <3>6. [of |-> u.of, text |-> text, links |-> linked] \in Over(Levels[n])
      BY <3>2, <3>3, <3>5, IsOver
    <3>7. Node(u.of, "max_depth") \in Over(Levels[n])
      BY <3>2, <3>3, NodeIsOver
    <3> QED BY <2>1, <3>1, <3>6, <3>7, TreeForms
  <2>4. Good(n + 1)
    BY <2>3
  <2> HIDE DEF Good
  <2> QED BY <2>1, <2>4
<1>3. \A n \in 0..Last : n \in T
  <2> HIDE DEF T
  <2> QED BY <1>1, <1>2, LastIsNumber, BoundedInduction
<1> QED BY <1>3

(* So does encoding.                                                       *)
LEMMA EncodedLevel ==
    ASSUME NEW s
    PROVE  \A n \in 0..Last : \A u \in Levels[n] : \A d \in Nat :
               Encoded(s, u, d) \in Levels[n] /\ Encoded(s, u, d).of = u.of
<1> DEFINE Good(n) == \A u \in Levels[n] : \A d \in Nat :
               Encoded(s, u, d) \in Levels[n] /\ Encoded(s, u, d).of = u.of
           T == {n \in 0..Last : Good(n)}
<1>1. 0 \in T
  BY LevelsForm, LastIsNumber
<1>2. ASSUME NEW n \in 0..Last, n # Last, n \in T PROVE n + 1 \in T
  <2>1. n + 1 \in 0..Last /\ Levels[n + 1] = Over(Levels[n]) /\ Levels[n + 1] \subseteq Infos
    BY <1>2, LastIsNumber, LevelsForm, LevelsAreInfos
  <2>2. Good(n)
    BY <1>2
  <2>3. ASSUME NEW u \in Levels[n + 1], NEW d \in Nat
        PROVE  Encoded(s, u, d) \in Levels[n + 1] /\ Encoded(s, u, d).of = u.of
    <3> DEFINE kept == {k \in u.links : KeepsLink(s, k)}
               linked == {[l EXCEPT !.to = Encoded(s, l.to, d + Deeper(l.kind))] : l \in kept}
               text == IF d + 1 < s.maxDepth /\ Keeps(s, "message") THEN u.text ELSE "gone"
    <3>1. Encoded(s, u, d) = IF d >= s.maxDepth THEN Node(u.of, "gone")
                             ELSE [of |-> u.of, text |-> text, links |-> linked]
      <4>1. u \in Infos
        BY <2>1
      <4> QED BY <4>1, EncodeRec
    <3>2. u.of \in Exceptions /\ u.text \in Readings
          /\ \A l \in u.links : l = Link(l.kind, l.at, l.to) /\ l.kind \in Kinds /\ l.at \in Nat /\ l.to \in Levels[n]
      BY <2>1, OverForm
    <3>3. text \in Readings /\ "gone" \in Readings
      BY <3>2 DEF Readings
    <3>4. \A l \in kept : /\ [l EXCEPT !.to = Encoded(s, l.to, d + Deeper(l.kind))]
                                 = Link(l.kind, l.at, Encoded(s, l.to, d + Deeper(l.kind)))
                          /\ l.kind \in Kinds /\ l.at \in Nat /\ Encoded(s, l.to, d + Deeper(l.kind)) \in Levels[n]
      <4>1. \A l : d + Deeper(l.kind) \in Nat
        BY DEF Deeper
      <4> QED BY <2>2, <3>2, <4>1, TreeForms
    <3> HIDE DEF kept, text
    <3>5. \A m \in linked : m = Link(m.kind, m.at, m.to) /\ m.kind \in Kinds /\ m.at \in Nat /\ m.to \in Levels[n]
      BY <3>4, TreeForms
    <3> HIDE DEF linked
    <3>6. [of |-> u.of, text |-> text, links |-> linked] \in Over(Levels[n])
      BY <3>2, <3>3, <3>5, IsOver
    <3>7. Node(u.of, "gone") \in Over(Levels[n])
      BY <3>2, <3>3, NodeIsOver
    <3> QED BY <2>1, <3>1, <3>6, <3>7, TreeForms
  <2>4. Good(n + 1)
    BY <2>3
  <2> HIDE DEF Good
  <2> QED BY <2>1, <2>4
<1>3. \A n \in 0..Last : n \in T
  <2> HIDE DEF T
  <2> QED BY <1>1, <1>2, LastIsNumber, BoundedInduction
<1> QED BY <1>3

-----------------------------------------------------------------------------
(* Ways, and how one extends another.                                      *)

Extends(v, w) == Len(w) <= Len(v) /\ \A i \in 1..Len(w) : v[i] = w[i]

(* A sequence and one thing more.                                          *)
LEMMA AppendForm ==
    ASSUME NEW S, NEW w \in Seq(S), NEW l \in S
    PROVE  /\ Append(w, l) \in Seq(S) /\ Len(Append(w, l)) = Len(w) + 1 /\ Len(w) \in Nat
           /\ \A i \in 1..Len(w) : Append(w, l)[i] = w[i]
           /\ Append(w, l)[Len(w) + 1] = l
           /\ Append(w, l) # <<>>
           /\ DOMAIN w = 1..Len(w) /\ DOMAIN Append(w, l) = 1..(Len(w) + 1)
OBVIOUS

(* A way extends itself and the empty one.                                 *)
LEMMA ExtendsItself == ASSUME NEW S, NEW w \in Seq(S) PROVE Extends(w, w) /\ Extends(w, <<>>)
BY DEF Extends

(* A way extends a longer one if it takes that link.                       *)
LEMMA ExtendsAppend ==
    ASSUME NEW S, NEW w \in Seq(S), NEW l \in S, NEW v \in Seq(S)
    PROVE  Extends(v, Append(w, l)) <=> Extends(v, w) /\ Len(w) < Len(v) /\ v[Len(w) + 1] = l
<1> DEFINE a == Append(w, l)
           n == Len(w)
<1>1. /\ Len(a) = n + 1 /\ n \in Nat /\ Len(v) \in Nat
      /\ \A i \in 1..n : a[i] = w[i]
      /\ a[n + 1] = l
  BY AppendForm
<1> HIDE DEF a, n
<1>2. \A i : i \in 1..(n + 1) <=> i \in 1..n \/ i = n + 1
  BY <1>1
<1>3. n + 1 <= Len(v) <=> n <= Len(v) /\ n < Len(v)
  BY <1>1
<1>4. (\A i \in 1..(n + 1) : v[i] = a[i]) <=> (\A i \in 1..n : v[i] = w[i]) /\ v[n + 1] = l
  BY <1>1, <1>2
<1> QED BY <1>1, <1>3, <1>4 DEF Extends, a, n

(* A way has one part of each length.                                      *)
LEMMA SameWay ==
    ASSUME NEW S, NEW v \in Seq(S), NEW w \in Seq(S), NEW u \in Seq(S), Extends(u, v), Extends(u, w), Len(v) = Len(w)
    PROVE  v = w
<1>1. \A i \in 1..Len(v) : v[i] = w[i]
  BY DEF Extends
<1>2. DOMAIN v = 1..Len(v) /\ DOMAIN w = 1..Len(v)
  OBVIOUS
<1>3. v = [i \in DOMAIN v |-> v[i]] /\ w = [i \in DOMAIN w |-> w[i]]
  OBVIOUS
<1> QED BY <1>1, <1>2, <1>3

(* Where a way of n links comes from: a way of every shorter length is a   *)
(* part of it, is not cut and leads on.                                    *)
Comes(h, s, n, v) ==
    /\ v \in Seq(Steps(s)) /\ Len(v) = n
    /\ \A k \in 0..n : \E p \in WaysOf(h, s, k) :
          Extends(v, p) /\ Len(p) = k /\ (k # n => Full(s, p) /\ LeadsOn(h, s, End(p), v[k + 1]))

(* Every part of a way is a way that is not cut.                           *)
LEMMA WaysForm ==
    ASSUME NEW h \in Heaps, NEW s \in Situations
    PROVE  \A n \in 0..s.exceptionDepth : \A v \in WaysOf(h, s, n) : Comes(h, s, n, v)
<1> DEFINE depth == s.exceptionDepth
           Good(n) == \A v \in WaysOf(h, s, n) : Comes(h, s, n, v)
           T == {n \in 0..depth : Good(n)}
<1>0. depth \in Nat /\ 0 \in 0..depth
  BY Limits
<1>1. 0 \in T
  <2>1. WaysOf(h, s, 0) = {<<>>}
    BY <1>0, WaysRec
  <2>2. <<>> \in Seq(Steps(s)) /\ Len(<<>>) = 0 /\ Extends(<<>>, <<>>)
    BY DEF Extends
  <2>3. \A k \in 0..0 : k = 0
    OBVIOUS
  <2>4. Comes(h, s, 0, <<>>)
    BY <2>1, <2>2, <2>3 DEF Comes
  <2> QED BY <1>0, <2>1, <2>4
<1>2. ASSUME NEW n \in 0..depth, n # depth, n \in T PROVE n + 1 \in T
  <2> DEFINE m == n + 1
  <2>1. n \in Nat /\ m \in 0..depth /\ m # 0 /\ m - 1 = n /\ \A k \in 0..m : k = m \/ k = n \/ (k \in 0..n /\ k # n)
    BY <1>0, <1>2
  <2>2. Good(n)
    BY <1>2
  <2> HIDE DEF m
  <2>3. ASSUME NEW v \in WaysOf(h, s, m) PROVE Comes(h, s, m, v)
    <3>1. PICK way \in WaysOf(h, s, n), l \in Steps(s) :
              Full(s, way) /\ LeadsOn(h, s, End(way), l) /\ v = Append(way, l)
      <4>1. n \in Nat /\ n + 1 \in 0..s.exceptionDepth /\ s.exceptionDepth \in Nat /\ v \in WaysOf(h, s, n + 1)
        BY <1>0, <2>1, <2>3 DEF m
      <4>2. IsLonger(h, s, n, v)
        BY <4>1, WaysRec
      <4> QED BY <4>2 DEF IsLonger
    <3>2. Comes(h, s, n, way)
      BY <2>2
    <3>3. way \in Seq(Steps(s)) /\ Len(way) = n
      BY <3>2 DEF Comes
    <3>4. v \in Seq(Steps(s)) /\ Len(v) = m /\ v[n + 1] = l /\ \A i \in 1..n : v[i] = way[i]
      BY <3>1, <3>3, AppendForm DEF m
    <3>5. Extends(v, way) /\ Extends(v, v)
      <4>1. Extends(v, way)
        BY <2>1, <3>3, <3>4 DEF Extends, m
      <4>2. Extends(v, v)
        BY <3>4, ExtendsItself
      <4> QED BY <4>1, <4>2
    <3>6. ASSUME NEW k \in 0..n, k # n
          PROVE  \E p \in WaysOf(h, s, k) :
                     Extends(v, p) /\ Len(p) = k /\ Full(s, p) /\ LeadsOn(h, s, End(p), v[k + 1])
      <4>1. PICK p \in WaysOf(h, s, k) :
                Extends(way, p) /\ Len(p) = k /\ Full(s, p) /\ LeadsOn(h, s, End(p), way[k + 1])
        BY <3>2, <3>6 DEF Comes
      <4>2. v[k + 1] = way[k + 1]
        BY <2>1, <3>4, <3>6
      <4>4. Extends(v, p)
        <5>1. Len(p) = k /\ \A i \in 1..k : way[i] = p[i]
          BY <3>3, <4>1 DEF Extends
        <5>2. k <= m /\ \A i \in 1..k : i \in 1..n
          BY <2>1 DEF m
        <5> QED BY <3>4, <5>1, <5>2 DEF Extends
      <4> QED BY <4>1, <4>2, <4>4
    <3>7. ASSUME NEW k \in 0..m
          PROVE  \E p \in WaysOf(h, s, k) :
                     Extends(v, p) /\ Len(p) = k /\ (k # m => Full(s, p) /\ LeadsOn(h, s, End(p), v[k + 1]))
      <4>1. CASE k = m
        BY <3>4, <3>5, <4>1
      <4>2. CASE k = n
        BY <3>1, <3>3, <3>4, <3>5, <4>2
      <4>3. CASE k \in 0..n /\ k # n
        BY <3>6, <4>3
      <4> QED BY <2>1, <4>1, <4>2, <4>3
    <3> QED BY <3>4, <3>7 DEF Comes
  <2>4. Good(m)
    BY <2>3
  <2> HIDE DEF Good
  <2> QED BY <2>1, <2>4 DEF m
<1>3. \A n \in 0..depth : n \in T
  <2> HIDE DEF T, depth
  <2> QED BY <1>0, <1>1, <1>2, BoundedInduction
<1> QED BY <1>3

(* A way that is not cut is longer by whatever leads on.                   *)
LEMMA WayForm ==
    ASSUME NEW h \in Heaps, NEW s \in Situations, NEW n \in 0..s.exceptionDepth, NEW w \in WaysOf(h, s, n)
    PROVE  /\ w \in Seq(Steps(s)) /\ Len(w) = n
           /\ w \in Ways(h, s)
           /\ \A l : Full(s, w) /\ n # s.exceptionDepth /\ l \in Steps(s) /\ LeadsOn(h, s, End(w), l)
                        => Append(w, l) \in WaysOf(h, s, n + 1) /\ n + 1 \in 0..s.exceptionDepth
<1>1. Comes(h, s, n, w)
  BY WaysForm
<1>2. w \in Ways(h, s)
  BY WaysAreOf
<1>3. ASSUME NEW l, Full(s, w), n # s.exceptionDepth, l \in Steps(s), LeadsOn(h, s, End(w), l)
      PROVE  Append(w, l) \in WaysOf(h, s, n + 1) /\ n + 1 \in 0..s.exceptionDepth
  <2>1. n \in Nat /\ n + 1 \in 0..s.exceptionDepth /\ s.exceptionDepth \in Nat
    BY <1>3, Limits
  <2>2. IsLonger(h, s, n, Append(w, l))
    BY <1>3 DEF IsLonger
  <2> QED BY <2>1, <2>2, WaysRec
<1>4. w \in Seq(Steps(s)) /\ Len(w) = n
  BY <1>1 DEF Comes
<1> QED BY <1>2, <1>3, <1>4

(* A way that extends another is that one, or goes on from it.             *)
LEMMA GoesOn ==
    ASSUME NEW h \in Heaps, NEW s \in Situations, NEW n \in 0..s.exceptionDepth, NEW w \in WaysOf(h, s, n),
           NEW v \in Ways(h, s), Extends(v, w), v # w
    PROVE  \E l \in Steps(s) : /\ n # s.exceptionDepth /\ Full(s, w) /\ LeadsOn(h, s, End(w), l)
                               /\ Extends(v, Append(w, l))
<1>1. PICK m \in 0..s.exceptionDepth : v \in WaysOf(h, s, m)
  BY WaysAreOf
<1>2. Comes(h, s, m, v)
  BY <1>1, WaysForm
<1>3. v \in Seq(Steps(s)) /\ Len(v) = m /\ w \in Seq(Steps(s)) /\ Len(w) = n /\ s.exceptionDepth \in Nat
  BY <1>1, WayForm, Limits
<1>4. n # m /\ n \in 0..m /\ n # s.exceptionDepth /\ n + 1 \in 1..m
  <2>1. n <= m
    BY <1>3 DEF Extends
  <2>2. n # m
    BY <1>3, ExtendsItself, SameWay
  <2> QED BY <1>3, <2>1, <2>2
<1>5. PICK p \in WaysOf(h, s, n) : Extends(v, p) /\ Len(p) = n /\ Full(s, p) /\ LeadsOn(h, s, End(p), v[n + 1])
  BY <1>2, <1>4 DEF Comes
<1>6. p = w
  <2>1. p \in Seq(Steps(s))
    BY WayForm
  <2> QED BY <1>3, <1>5, <2>1, SameWay
<1>7. v[n + 1] \in Steps(s)
  BY <1>3, <1>4
<1>8. Extends(v, Append(w, v[n + 1]))
  BY <1>3, <1>4, <1>7, ExtendsAppend
<1> QED BY <1>4, <1>5, <1>6, <1>7, <1>8

-----------------------------------------------------------------------------
(* What lies on a way.                                                     *)

On(w) == {Root} \cup {w[i].to : i \in DOMAIN w}
Met(w) == IF w = <<>> THEN {} ELSE {Root} \cup {w[i].to : i \in 1..(Len(w) - 1)}

(* What lies on a longer way.                                              *)
LEMMA OnAppend ==
    ASSUME NEW s, NEW w \in Seq(Steps(s)), NEW l \in Steps(s)
    PROVE  /\ On(Append(w, l)) = On(w) \cup {l.to}
           /\ Met(Append(w, l)) = On(w)
           /\ End(Append(w, l)) = l.to
<1> DEFINE a == Append(w, l)
           n == Len(w)
<1>1. /\ a # <<>> /\ DOMAIN a = 1..(n + 1) /\ Len(a) = n + 1 /\ n \in Nat /\ DOMAIN w = 1..n
      /\ \A i \in 1..n : a[i] = w[i]
      /\ a[n + 1] = l
  BY AppendForm
<1> HIDE DEF a, n
<1>2. (\A i : i \in 1..(n + 1) <=> i \in 1..n \/ i = n + 1) /\ (n + 1) - 1 = n
  BY <1>1
<1>3. {a[i].to : i \in 1..(n + 1)} = {w[i].to : i \in 1..n} \cup {l.to}
  BY <1>1, <1>2
<1>4. {a[i].to : i \in 1..n} = {w[i].to : i \in 1..n}
  BY <1>1
<1>5. On(a) = On(w) \cup {l.to}
  BY <1>1, <1>3 DEF On
<1>6. Met(a) = On(w)
  <2>1. Met(a) = {Root} \cup {a[i].to : i \in 1..(Len(a) - 1)}
    BY <1>1 DEF Met
  <2>2. Len(a) - 1 = n
    BY <1>1
  <2>3. Met(a) = {Root} \cup {a[i].to : i \in 1..n}
    BY <2>1, <2>2
  <2> QED BY <1>1, <1>4, <2>3 DEF On
<1>7. End(a) = l.to
  BY <1>1 DEF End
<1> QED BY <1>5, <1>6, <1>7 DEF a

(* A way is straight if its end does not lie on it already: its parts are. *)
LEMMA StraightForm ==
    ASSUME NEW h \in Heaps, NEW s \in Situations, NEW n \in 0..s.exceptionDepth, NEW w \in WaysOf(h, s, n)
    PROVE  /\ On(w) = Met(w) \cup {End(w)}
           /\ End(w) \in Exceptions /\ Met(w) \in SUBSET Exceptions
           /\ IsFiniteSet(On(w))
           /\ Straight(w) <=> End(w) \notin Met(w)
<1> DEFINE depth == s.exceptionDepth
           Good(v) == /\ On(v) = Met(v) \cup {End(v)}
                      /\ End(v) \in Exceptions /\ Met(v) \in SUBSET Exceptions
                      /\ IsFiniteSet(On(v))
                      /\ Straight(v) <=> End(v) \notin Met(v)
           T == {k \in 0..depth : \A v \in WaysOf(h, s, k) : Good(v)}
<1>0. depth \in Nat /\ 0 \in 0..depth
  BY Limits
<1>1. 0 \in T
  <2>1. WaysOf(h, s, 0) = {<<>>}
    BY <1>0, WaysRec
  <2>2. On(<<>>) = {Root} /\ Met(<<>>) = {} /\ End(<<>>) = Root /\ Root \in Exceptions
    BY ExceptionAssumption DEF On, Met, End
  <2>3. IsFiniteSet({Root}) /\ Cardinality({Root}) = 1
    BY FS_Singleton
  <2>4. Straight(<<>>)
    <3>1. Straight(<<>>) <=> Cardinality(On(<<>>)) = Len(<<>>) + 1
      BY DEF Straight, On
    <3>2. Len(<<>>) + 1 = 1
      OBVIOUS
    <3> QED BY <2>2, <2>3, <3>1, <3>2
  <2>5. Good(<<>>)
    BY <2>2, <2>3, <2>4
  <2> HIDE DEF Good
  <2> QED BY <1>0, <2>1, <2>5
<1>2. ASSUME NEW k \in 0..depth, k # depth, k \in T PROVE k + 1 \in T
  <2>1. k \in Nat /\ k + 1 \in 0..depth
    BY <1>0, <1>2
  <2>2. ASSUME NEW v \in WaysOf(h, s, k + 1) PROVE Good(v)
    <3>1. IsLonger(h, s, k, v)
      BY <1>0, <2>1, <2>2, WaysRec
    <3>2. PICK p \in WaysOf(h, s, k), l \in Steps(s) : Full(s, p) /\ v = Append(p, l)
      BY <3>1 DEF IsLonger
    <3>3. p \in Seq(Steps(s)) /\ Len(p) = k
      BY WayForm
    <3>4. Good(p)
      BY <1>2
    <3>5. On(v) = On(p) \cup {l.to} /\ Met(v) = On(p) /\ End(v) = l.to /\ l.to \in Exceptions
      BY <3>2, <3>3, OnAppend, LinkForm
    <3>6. Cardinality(On(p)) = k + 1
      BY <3>2, <3>3 DEF Full, Straight, On
    <3>7. IsFiniteSet(On(p)) /\ On(p) \in SUBSET Exceptions
      BY <3>4
    <3>8. IsFiniteSet(On(v))
      BY <3>5, <3>7, FS_AddElement
    <3>9. Len(v) = k + 1
      BY <3>2, <3>3, AppendForm
    <3>10. Straight(v) <=> Cardinality(On(v)) = (k + 1) + 1
      BY <3>9 DEF Straight, On
    <3>11. CASE l.to \in On(p)
      <4>1. On(v) = On(p)
        BY <3>5, <3>11
      <4>2. ~Straight(v)
        BY <2>1, <3>6, <3>10, <4>1
      <4> HIDE DEF T
      <4> QED BY <3>5, <3>7, <3>8, <3>11, <4>2
    <3>12. CASE l.to \notin On(p)
      <4>1. Cardinality(On(v)) = (k + 1) + 1
        <5> DEFINE old == On(p)
        <5>1. IsFiniteSet(old) /\ l.to \notin old /\ Cardinality(old) = k + 1
          BY <3>6, <3>7, <3>12
        <5> HIDE DEF old
        <5>2. Cardinality(old \cup {l.to}) = Cardinality(old) + 1
          BY <5>1, FS_AddElement
        <5> QED BY <3>5, <5>1, <5>2 DEF old
      <4>2. Straight(v)
        BY <3>10, <4>1
      <4> HIDE DEF T
      <4> QED BY <3>5, <3>7, <3>8, <3>12, <4>2
    <3> QED BY <3>11, <3>12
  <2> HIDE DEF Good
  <2> QED BY <2>1, <2>2
<1>3. \A k \in 0..depth : k \in T
  <2> HIDE DEF T, depth
  <2> QED BY <1>0, <1>1, <1>2, BoundedInduction
<1>4. Good(w)
  <2> HIDE DEF Good
  <2> QED BY <1>3
<1> QED BY <1>4

-----------------------------------------------------------------------------
(* What the record says at the end of the ways.                            *)

(* What is recorded where a way ends, and beyond.                          *)
Recorded(h, s, n, w) == Sanitized(s, Built(h, s, s.exceptionDepth - n, End(w), Met(w)), n)

(* What should be said of a way and of those that extend it.               *)
IsRead(h, s, w, t) == \E v \in Ways(h, s) : Extends(v, w) /\ t = <<v, Reading(s, v)>>

Says(h, s, n, w) == \A t : t \in Said(Recorded(h, s, n, w), w) <=> IsRead(h, s, w, t)

(* What is built, and what is redacted of it, are trees.                   *)
LEMMA BuiltIsInfo ==
    ASSUME NEW h \in Heaps, NEW s \in Situations, NEW left \in 0..s.exceptionDepth,
           NEW e \in Exceptions, NEW seen \in SUBSET Exceptions
    PROVE  /\ Built(h, s, left, e, seen) \in Infos /\ Built(h, s, left, e, seen).of = e
           /\ \A d \in Nat : /\ Sanitized(s, Built(h, s, left, e, seen), d) \in Infos
                             /\ Sanitized(s, Built(h, s, left, e, seen), d).of = e
<1> DEFINE u == Built(h, s, left, e, seen)
<1>1. left + 1 \in 0..Last
  BY Limits, ExceptionAssumption DEF Last
<1>2. u \in Levels[left + 1] /\ u.of = e
  BY BuiltLevel
<1> HIDE DEF u
<1>3. u \in Infos
  BY <1>1, <1>2, LevelsAreInfos
<1>4. ASSUME NEW d \in Nat PROVE Sanitized(s, u, d) \in Infos /\ Sanitized(s, u, d).of = e
  <2>1. Sanitized(s, u, d) \in Levels[left + 1] /\ Sanitized(s, u, d).of = u.of
    BY <1>1, <1>2, SanitizedLevel
  <2> QED BY <1>1, <1>2, <2>1, LevelsAreInfos
<1> QED BY <1>2, <1>3, <1>4 DEF u

(* Ways are ways in any tree.                                              *)
LEMMA WayType ==
    ASSUME NEW s, NEW w \in Seq(Steps(s))
    PROVE  w \in Seq(LinksTo(Exceptions))
<1>1. Steps(s) \subseteq LinksTo(Exceptions)
  BY LinkForm
<1> QED BY <1>1

(* What is read of a way that is not cut, and of those that are.           *)
LEMMA ReadingForm ==
    ASSUME NEW s, NEW w
    PROVE  /\ Full(s, w) => Reading(s, w) = "clean"
           /\ ~Full(s, w) /\ Len(w) = s.exceptionDepth => Reading(s, w) = "max_depth"
           /\ ~Full(s, w) /\ Len(w) # s.exceptionDepth => Reading(s, w) = "limit"
           /\ Reading(s, w) # "gone"
BY DEF Reading

(* A way that is cut is said, and no other one that extends it is.         *)
LEMMA CutIsRead ==
    ASSUME NEW h \in Heaps, NEW s \in Situations, NEW n \in 0..s.exceptionDepth, NEW w \in WaysOf(h, s, n),
           n = s.exceptionDepth \/ ~Full(s, w), NEW t
    PROVE  IsRead(h, s, w, t) <=> t = <<w, Reading(s, w)>>
<1>1. w \in Seq(Steps(s)) /\ w \in Ways(h, s)
  BY WayForm
<1>2. Extends(w, w)
  BY <1>1, ExtendsItself
<1>3. \A v \in Ways(h, s) : Extends(v, w) => v = w
  BY GoesOn
<1> QED BY <1>1, <1>2, <1>3 DEF IsRead

(* A tree without links says one thing.                                    *)
LEMMA LeafSays ==
    ASSUME NEW u \in Infos, u.links = {}, NEW way \in Seq(LinksTo(Exceptions)), NEW t
    PROVE  t \in Said(u, way) <=> t = <<way, u.text>>
<1>1. \A r : r \in Said(u, way) <=>
          \/ r = <<way, u.text>>
          \/ \E l \in u.links : r \in Said(l.to, Append(way, Link(l.kind, l.at, l.to.of)))
  BY SaidRec
<1> QED BY <1>1

(* The record says of a way that it is as long as ways may be.             *)
LEMMA CutByDepth ==
    ASSUME NEW h \in Heaps, NEW s \in Situations, NEW w \in WaysOf(h, s, s.exceptionDepth)
    PROVE  Says(h, s, s.exceptionDepth, w)
<1> DEFINE depth == s.exceptionDepth
           u == Built(h, s, 0, End(w), Met(w))
           r == Recorded(h, s, depth, w)
<1>1. depth \in Nat /\ 0 \in 0..depth /\ depth \in 0..depth /\ depth - depth = 0
  BY Limits
<1>2. End(w) \in Exceptions /\ Met(w) \in SUBSET Exceptions
  BY <1>1, StraightForm
<1>3. w \in Seq(Steps(s)) /\ Len(w) = depth
  BY <1>1, WayForm
<1>4. u \in Infos /\ u.of = End(w) /\ Sanitized(s, u, depth) \in Infos
  BY <1>1, <1>2, BuiltIsInfo
<1>5. r = Sanitized(s, u, depth)
  BY <1>1 DEF Recorded
<1> HIDE DEF u, r
<1>6. r = Node(End(w), "max_depth")
  <2>1. depth >= depth
    BY <1>1
  <2> QED BY <1>1, <1>4, <1>5, <2>1, SanitizeRec
<1>7. r.links = {} /\ r.text = "max_depth" /\ r \in Infos
  BY <1>4, <1>5, <1>6, TreeForms
<1>8. Reading(s, w) = "max_depth"
  <2>1. ~Full(s, w)
    BY <1>1, <1>3 DEF Full
  <2> QED BY <1>3, <2>1, ReadingForm
<1>9. ASSUME NEW t PROVE t \in Said(r, w) <=> IsRead(h, s, w, t)
  <2>1. t \in Said(r, w) <=> t = <<w, r.text>>
    BY <1>3, <1>7, LeafSays, WayType
  <2>2. IsRead(h, s, w, t) <=> t = <<w, Reading(s, w)>>
    BY <1>1, CutIsRead
  <2> QED BY <1>7, <1>8, <2>1, <2>2
<1> QED BY <1>9 DEF Says, r

(* The record says of a way that it has come back.                         *)
LEMMA CutByCycle ==
    ASSUME NEW h \in Heaps, NEW s \in Situations, NEW n \in 0..s.exceptionDepth, n # s.exceptionDepth,
           NEW w \in WaysOf(h, s, n), End(w) \in Met(w)
    PROVE  Says(h, s, n, w)
<1> DEFINE depth == s.exceptionDepth
           u == Built(h, s, depth - n, End(w), Met(w))
           r == Recorded(h, s, n, w)
<1>1. depth \in Nat /\ n \in Nat /\ n < depth /\ depth - n \in 0..depth
  BY Limits
<1>2. End(w) \in Exceptions /\ Met(w) \in SUBSET Exceptions
  BY <1>1, StraightForm
<1>3. w \in Seq(Steps(s)) /\ Len(w) = n
  BY <1>1, WayForm
<1>4. u \in Infos /\ u.of = End(w) /\ Sanitized(s, u, n) \in Infos
  BY <1>1, <1>2, BuiltIsInfo
<1>5. r = Sanitized(s, u, n)
  BY <1>1 DEF Recorded
<1>6. u = Node(End(w), "limit")
  BY <1>1, <1>2, BuildEnd
<1> HIDE DEF u, r
<1>7. r.links = {} /\ r.text = "limit" /\ r \in Infos
  <2>1. ~(n >= depth)
    BY <1>1
  <2>2. u.text = "limit" /\ u.links = {}
    BY <1>6, TreeForms
  <2> DEFINE kept == {k \in u.links : k.kind = "child" => k.at <= s.exceptionChildren}
             linked == {[l EXCEPT !.to = Sanitized(s, l.to, n + 1)] : l \in kept}
  <2>3. r = [of |-> u.of, text |-> IF u.text = "raw" THEN "clean" ELSE u.text, links |-> linked]
    BY <1>1, <1>4, <1>5, <2>1, SanitizeRec
  <2>4. linked = {}
    BY <2>2
  <2> HIDE DEF linked
  <2> QED BY <1>4, <1>5, <2>2, <2>3, <2>4
<1>8. ~Full(s, w) /\ Reading(s, w) = "limit"
  <2>1. ~Straight(w)
    BY StraightForm
  <2>2. ~Full(s, w)
    BY <2>1 DEF Full
  <2> QED BY <1>3, <2>2, ReadingForm
<1>9. ASSUME NEW t PROVE t \in Said(r, w) <=> IsRead(h, s, w, t)
  <2>1. t \in Said(r, w) <=> t = <<w, r.text>>
    BY <1>3, <1>7, LeafSays, WayType
  <2>2. IsRead(h, s, w, t) <=> t = <<w, Reading(s, w)>>
    BY <1>8, CutIsRead
  <2> QED BY <1>7, <1>8, <2>1, <2>2
<1> QED BY <1>9 DEF Says, r

(* What is recorded below a link of the end of a way that is not cut.      *)
Below(h, s, n, w, l) == Sanitized(s, Built(h, s, s.exceptionDepth - (n + 1), l.to, On(w)), n + 1)

(* Where a way is not cut its end is recorded, with every link it has.     *)
LEMMA RecordedForm ==
    ASSUME NEW h \in Heaps, NEW s \in Situations, NEW n \in 0..s.exceptionDepth, n # s.exceptionDepth,
           NEW w \in WaysOf(h, s, n), End(w) \notin Met(w)
    PROVE  /\ Recorded(h, s, n, w) \in Infos
           /\ Recorded(h, s, n, w).of = End(w) /\ Recorded(h, s, n, w).text = "clean"
           /\ Recorded(h, s, n, w).links = {Link(l.kind, l.at, Below(h, s, n, w, l)) : l \in LinksOf(h, s, End(w))}
           /\ \A l \in LinksOf(h, s, End(w)) : /\ Below(h, s, n, w, l).of = l.to
                                              /\ Append(w, l) \in WaysOf(h, s, n + 1)
                                              /\ Below(h, s, n, w, l) = Recorded(h, s, n + 1, Append(w, l))
                                              /\ l = Link(l.kind, l.at, l.to) /\ l \in Steps(s)
           /\ Full(s, w) /\ Reading(s, w) = "clean"
<1> DEFINE depth == s.exceptionDepth
           left == depth - (n + 1)
           x == End(w)
           u == Built(h, s, depth - n, x, Met(w))
           r == Recorded(h, s, n, w)
           below(l) == Sanitized(s, Built(h, s, left, l.to, On(w)), n + 1)
<1>1. /\ depth \in Nat /\ n \in Nat /\ n < depth /\ n + 1 \in Nat /\ n + 1 \in 0..depth
      /\ left \in Nat /\ left \in 0..depth /\ left + 1 = depth - n /\ left + 1 \in 0..depth /\ depth - n \in 0..depth
  BY Limits
<1>2. x \in Exceptions /\ Met(w) \in SUBSET Exceptions /\ On(w) = Met(w) \cup {x} /\ Straight(w)
  BY StraightForm
<1>3. w \in Seq(Steps(s)) /\ Len(w) = n /\ w \in Ways(h, s) /\ w \in Seq(LinksTo(Exceptions))
  BY WayForm, WayType
<1>4. u \in Infos /\ u.of = x /\ Sanitized(s, u, n) \in Infos
  BY <1>1, <1>2, BuiltIsInfo
<1>5. r = Sanitized(s, u, n)
  BY DEF Recorded
<1>6. u = [of |-> x, text |-> "raw", links |-> Grown(h, s, left, x, On(w))]
  <2> HIDE DEF left
  <2>1. Built(h, s, left + 1, x, Met(w)) = [of |-> x, text |-> "raw", links |-> Grown(h, s, left, x, Met(w) \cup {x})]
    BY <1>1, <1>2, BuildStep
  <2> QED BY <1>1, <1>2, <2>1
<1>7. Full(s, w) /\ Reading(s, w) = "clean"
  BY <1>1, <1>2, <1>3, ReadingForm DEF Full
<1> HIDE DEF u, r, left, x, depth
<1>8. ASSUME NEW l \in LinksOf(h, s, x)
      PROVE  /\ l = Link(l.kind, l.at, l.to) /\ l \in Steps(s) /\ LeadsOn(h, s, x, l)
             /\ (l.kind = "child" => l.at <= s.exceptionChildren)
             /\ below(l).of = l.to
             /\ Append(w, l) \in WaysOf(h, s, n + 1)
             /\ below(l) = Recorded(h, s, n + 1, Append(w, l))
  <2>1. l \in Steps(s) /\ LeadsOn(h, s, x, l) /\ (l.kind = "child" => l.at <= s.exceptionChildren)
    BY <1>2, LinksForm, ChildrenAreFew
  <2>2. l = Link(l.kind, l.at, l.to) /\ l.to \in Exceptions
    BY <2>1, LinkForm
  <2>3. Append(w, l) \in WaysOf(h, s, n + 1)
    BY <1>7, <2>1, WayForm DEF x
  <2>4. On(w) \in SUBSET Exceptions
    BY <1>2
  <2>5. below(l).of = l.to
    BY <1>1, <2>2, <2>4, BuiltIsInfo DEF depth
  <2>6. Met(Append(w, l)) = On(w) /\ End(Append(w, l)) = l.to
    BY <1>3, <2>1, OnAppend
  <2>7. below(l) = Recorded(h, s, n + 1, Append(w, l))
    BY <2>6 DEF Recorded, left, depth
  <2> QED BY <2>1, <2>2, <2>3, <2>5, <2>7
<1>9. r.of = x /\ r.text = "clean" /\ r \in Infos /\ r.links = {Link(l.kind, l.at, below(l)) : l \in LinksOf(h, s, x)}
  <2>1. ~(n >= s.exceptionDepth)
    BY <1>1 DEF depth
  <2> DEFINE grown == Grown(h, s, left, x, On(w))
             kept == {k \in u.links : k.kind = "child" => k.at <= s.exceptionChildren}
             linked == {[l EXCEPT !.to = Sanitized(s, l.to, n + 1)] : l \in kept}
  <2>2. r = [of |-> u.of, text |-> IF u.text = "raw" THEN "clean" ELSE u.text, links |-> linked]
    BY <1>1, <1>4, <1>5, <2>1, SanitizeRec
  <2>3. u.text = "raw" /\ u.links = grown
    BY <1>6
  <2> DEFINE mid(l) == Link(l.kind, l.at, Built(h, s, left, l.to, On(w)))
  <2>4. \A l \in LinksOf(h, s, x) : [l EXCEPT !.to = Built(h, s, left, l.to, On(w))] = mid(l)
    BY <1>8, TreeForms
  <2>5. grown = {mid(l) : l \in LinksOf(h, s, x)}
    BY <2>4 DEF Grown
  <2>6. ASSUME NEW l \in LinksOf(h, s, x)
        PROVE  /\ mid(l).kind = l.kind /\ mid(l).at = l.at /\ mid(l).to = Built(h, s, left, l.to, On(w))
               /\ [mid(l) EXCEPT !.to = Sanitized(s, mid(l).to, n + 1)] = Link(l.kind, l.at, below(l))
    <3> DEFINE b == Built(h, s, left, l.to, On(w))
               c == below(l)
    <3>1. c = Sanitized(s, b, n + 1)
      OBVIOUS
    <3> HIDE DEF b, c
    <3>2. \A kind, at : Link(kind, at, b).kind = kind /\ Link(kind, at, b).at = at /\ Link(kind, at, b).to = b
      BY TreeForms
    <3>3. \A kind, at : [Link(kind, at, b) EXCEPT !.to = c] = Link(kind, at, c)
      BY DEF Link
    <3>4. mid(l) = Link(l.kind, l.at, b)
      BY DEF b
    <3> HIDE DEF mid, below
    <3>5. [mid(l) EXCEPT !.to = Sanitized(s, mid(l).to, n + 1)] = Link(l.kind, l.at, c)
      BY <3>1, <3>2, <3>3, <3>4
    <3> QED BY <3>2, <3>4, <3>5 DEF b, c
  <2> HIDE DEF grown, mid, below
  <2>7. kept = grown
    <3>1. \A l \in LinksOf(h, s, x) : mid(l).kind = "child" => mid(l).at <= s.exceptionChildren
      BY <1>8, <2>6
    <3>2. \A k \in grown : k.kind = "child" => k.at <= s.exceptionChildren
      BY <2>5, <3>1
    <3> QED BY <2>3, <3>2
  <2> DEFINE G(m) == [m EXCEPT !.to = Sanitized(s, m.to, n + 1)]
             L(l) == Link(l.kind, l.at, below(l))
  <2>8. linked = {L(l) : l \in LinksOf(h, s, x)}
    <3>1. \A l \in LinksOf(h, s, x) : G(mid(l)) = L(l)
      BY <2>6
    <3>2. linked = {G(m) : m \in kept}
      OBVIOUS
    <3> HIDE DEF G, L, kept, linked
    <3> QED BY <2>5, <2>7, <3>1, <3>2
  <2> HIDE DEF linked
  <2> QED BY <1>4, <1>5, <2>2, <2>3, <2>8
<1>10. \A l : below(l) = Below(h, s, n, w, l)
  BY DEF Below, left, depth
<1>11. r.links = {Link(l.kind, l.at, Below(h, s, n, w, l)) : l \in LinksOf(h, s, x)}
  <2> HIDE DEF below
  <2> QED BY <1>9, <1>10
<1>12. \A l \in LinksOf(h, s, x) : /\ Below(h, s, n, w, l).of = l.to
                                   /\ Append(w, l) \in WaysOf(h, s, n + 1)
                                   /\ Below(h, s, n, w, l) = Recorded(h, s, n + 1, Append(w, l))
                                   /\ l = Link(l.kind, l.at, l.to) /\ l \in Steps(s)
  <2> HIDE DEF below
  <2> QED BY <1>8, <1>10
<1> QED BY <1>7, <1>9, <1>11, <1>12 DEF r, x

(* The record says of a way that is not cut what it should, if it does of  *)
(* longer ones.                                                            *)
LEMMA OnFurther ==
    ASSUME NEW h \in Heaps, NEW s \in Situations, NEW n \in 0..s.exceptionDepth, n # s.exceptionDepth,
           NEW w \in WaysOf(h, s, n), End(w) \notin Met(w),
           \A v \in WaysOf(h, s, n + 1) : Says(h, s, n + 1, v)
    PROVE  Says(h, s, n, w)
<1> DEFINE x == End(w)
           r == Recorded(h, s, n, w)
           below(l) == Below(h, s, n, w, l)
<1>1. x \in Exceptions
  BY StraightForm
<1>2. w \in Seq(Steps(s)) /\ Len(w) = n /\ w \in Ways(h, s) /\ w \in Seq(LinksTo(Exceptions))
  BY WayForm, WayType
<1>3. Full(s, w) /\ Reading(s, w) = "clean"
  BY RecordedForm
<1>4. \A l \in LinksOf(h, s, x) : /\ below(l).of = l.to
                                  /\ Append(w, l) \in WaysOf(h, s, n + 1)
                                  /\ below(l) = Recorded(h, s, n + 1, Append(w, l))
                                  /\ l = Link(l.kind, l.at, l.to) /\ l \in Steps(s)
  BY RecordedForm
<1>5. r.text = "clean" /\ r \in Infos /\ r.links = {Link(l.kind, l.at, below(l)) : l \in LinksOf(h, s, x)}
  BY RecordedForm
<1> HIDE DEF r, x
<1>6. ASSUME NEW t PROVE t \in Said(r, w) <=> IsRead(h, s, w, t)
  <2>1. t \in Said(r, w) <=>
            \/ t = <<w, "clean">>
            \/ \E m \in r.links : t \in Said(m.to, Append(w, Link(m.kind, m.at, m.to.of)))
    BY <1>2, <1>5, SaidRec
  <2>2. (\E m \in r.links : t \in Said(m.to, Append(w, Link(m.kind, m.at, m.to.of)))) <=>
            \E l \in LinksOf(h, s, x) : t \in Said(below(l), Append(w, l))
    <3>1. \A l \in LinksOf(h, s, x) :
              LET m == Link(l.kind, l.at, below(l))
              IN  m.to = below(l) /\ Link(m.kind, m.at, m.to.of) = l
      <4> HIDE DEF below
      <4> QED BY <1>4, TreeForms
    <3> HIDE DEF below
    <3> QED BY <1>5, <3>1
  <2>3. \A l \in LinksOf(h, s, x) : t \in Said(below(l), Append(w, l)) <=> IsRead(h, s, Append(w, l), t)
    BY <1>4 DEF Says
  <2> HIDE DEF below
  <2>4. ASSUME IsRead(h, s, w, t)
        PROVE  t = <<w, "clean">> \/ \E l \in LinksOf(h, s, x) : IsRead(h, s, Append(w, l), t)
    <3>1. PICK v \in Ways(h, s) : Extends(v, w) /\ t = <<v, Reading(s, v)>>
      BY <2>4 DEF IsRead
    <3>2. CASE v = w
      BY <1>3, <3>1, <3>2
    <3>3. CASE v # w
      <4>1. PICK l \in Steps(s) : LeadsOn(h, s, x, l) /\ Extends(v, Append(w, l))
        BY <3>1, <3>3, GoesOn DEF x
      <4>2. l \in LinksOf(h, s, x)
        BY <1>1, <4>1, LinksForm
      <4> QED BY <3>1, <4>1, <4>2 DEF IsRead
    <3> QED BY <3>2, <3>3
  <2>5. t = <<w, "clean">> => IsRead(h, s, w, t)
    <3>1. Extends(w, w)
      BY <1>2, ExtendsItself
    <3> QED BY <1>2, <1>3, <3>1 DEF IsRead
  <2>6. ASSUME NEW l \in LinksOf(h, s, x), IsRead(h, s, Append(w, l), t) PROVE IsRead(h, s, w, t)
    <3>1. PICK v \in Ways(h, s) : Extends(v, Append(w, l)) /\ t = <<v, Reading(s, v)>>
      BY <2>6 DEF IsRead
    <3>2. v \in Seq(Steps(s))
      BY <3>1, WaysAreOf, WayForm
    <3>3. Extends(v, w)
      BY <1>2, <1>4, <3>1, <3>2, ExtendsAppend
    <3> QED BY <3>1, <3>3 DEF IsRead
  <2> QED BY <2>1, <2>2, <2>3, <2>4, <2>5, <2>6
<1> QED BY <1>6 DEF Says, r

(* At every way the record says what it should of it and of those beyond.  *)
LEMMA AllIsSaid ==
    ASSUME NEW h \in Heaps, NEW s \in Situations
    PROVE  \A n \in 0..s.exceptionDepth : \A w \in WaysOf(h, s, n) : Says(h, s, n, w)
<1> DEFINE depth == s.exceptionDepth
           Good(n) == \A w \in WaysOf(h, s, n) : Says(h, s, n, w)
           T == {left \in 0..depth : Good(depth - left)}
<1>0. depth \in Nat /\ 0 \in 0..depth
  BY Limits
<1>1. 0 \in T
  <2>1. Good(depth)
    BY CutByDepth
  <2>2. depth - 0 = depth
    BY <1>0
  <2> QED BY <1>0, <2>1, <2>2
<1>2. ASSUME NEW left \in 0..depth, left # depth, left \in T PROVE left + 1 \in T
  <2> DEFINE n == depth - (left + 1)
  <2>1. n \in 0..depth /\ n # depth /\ n + 1 = depth - left /\ left + 1 \in 0..depth
    BY <1>0, <1>2
  <2>2. Good(n + 1)
    BY <1>2, <2>1
  <2> HIDE DEF n
  <2>3. ASSUME NEW w \in WaysOf(h, s, n) PROVE Says(h, s, n, w)
    BY <2>1, <2>2, CutByCycle, OnFurther
  <2>4. Good(n)
    BY <2>3
  <2> HIDE DEF Good
  <2> QED BY <2>1, <2>4 DEF n
<1>3. \A left \in 0..depth : left \in T
  <2> HIDE DEF T, depth
  <2> QED BY <1>0, <1>1, <1>2, BoundedInduction
<1> SUFFICES ASSUME NEW n \in 0..depth PROVE Good(n)
  OBVIOUS
<1>4. depth - n \in 0..depth /\ depth - (depth - n) = n
  BY <1>0
<1> HIDE DEF Good
<1> QED BY <1>3, <1>4

(* build_exception_info and redact_exception_info record the root and what *)
(* can be reached from it, each way once, and nothing else.                *)
LEMMA RecordOfWays ==
    ASSUME NEW h \in Heaps, NEW s \in Situations
    PROVE  /\ Texts(Sanitize(s, Build(h, s, Root))) = {<<way, Reading(s, way)>> : way \in Ways(h, s)}
           /\ Build(h, s, Root) \in Infos
           /\ Sanitize(s, Build(h, s, Root)) \in Infos
<1> DEFINE depth == s.exceptionDepth
           u == Built(h, s, depth, Root, {})
<1>1. depth \in Nat /\ 0 \in 0..depth /\ depth \in 0..depth /\ depth - 0 = depth /\ Root \in Exceptions
  BY Limits, ExceptionAssumption
<1>2. Build(h, s, Root) = u /\ Sanitize(s, u) = Sanitized(s, u, 0)
  BY AtTheEnd, FromTheRoot
<1>3. u \in Infos /\ Sanitized(s, u, 0) \in Infos
  BY <1>1, BuiltIsInfo
<1>4. <<>> \in WaysOf(h, s, 0) /\ End(<<>>) = Root /\ Met(<<>>) = {}
  BY <1>1, WaysRec DEF End, Met
<1>5. Says(h, s, 0, <<>>)
  BY <1>1, <1>4, AllIsSaid
<1>6. Recorded(h, s, 0, <<>>) = Sanitized(s, u, 0)
  BY <1>1, <1>4 DEF Recorded
<1>7. \A w : Texts(w) = Said(w, <<>>)
  BY FromTheRoot
<1>8. \A v \in Ways(h, s) : Extends(v, <<>>)
  <2> SUFFICES ASSUME NEW v \in Ways(h, s) PROVE Extends(v, <<>>)
    OBVIOUS
  <2>1. v \in Seq(Steps(s))
    BY WaysAreOf, WayForm
  <2> QED BY <2>1, ExtendsItself
<1>9. \A t : t \in Texts(Sanitized(s, u, 0)) <=> \E v \in Ways(h, s) : t = <<v, Reading(s, v)>>
  BY <1>5, <1>6, <1>7, <1>8 DEF Says, IsRead
<1> HIDE DEF u
<1> QED BY <1>2, <1>3, <1>9

-----------------------------------------------------------------------------
(* What the files say of a record.                                         *)

AllLinks == LinksTo(Exceptions)
Children(way) == {i \in DOMAIN way : way[i].kind = "child"}

(* Levels are counted along a way.                                         *)
LEMMA LevelForm ==
    ASSUME NEW w \in Seq(AllLinks)
    PROVE  /\ Level(w) \in Nat
           /\ IsFiniteSet(Children(w))
           /\ \A l \in AllLinks : Level(Append(w, l)) = Level(w) + Deeper(l.kind)
           /\ \A v \in Seq(AllLinks) : Extends(v, w) => Level(w) <= Level(v)
<1>1. \A v \in Seq(AllLinks) : /\ Len(v) \in Nat /\ DOMAIN v = 1..Len(v)
                               /\ IsFiniteSet(Children(v)) /\ Cardinality(Children(v)) \in Nat
                               /\ Level(v) = Len(v) + Cardinality(Children(v)) /\ Level(v) \in Nat
  <2> SUFFICES ASSUME NEW v \in Seq(AllLinks)
               PROVE  /\ Len(v) \in Nat /\ DOMAIN v = 1..Len(v)
                      /\ IsFiniteSet(Children(v)) /\ Cardinality(Children(v)) \in Nat
                      /\ Level(v) = Len(v) + Cardinality(Children(v)) /\ Level(v) \in Nat
    OBVIOUS
  <2>1. Len(v) \in Nat /\ DOMAIN v = 1..Len(v)
    OBVIOUS
  <2>2. IsFiniteSet(1..Len(v))
    BY <2>1, FS_Interval
  <2>3. Children(v) \subseteq 1..Len(v)
    BY <2>1 DEF Children
  <2>4. IsFiniteSet(Children(v))
    BY <2>2, <2>3, FS_Subset
  <2>5. Cardinality(Children(v)) \in Nat
    BY <2>4, FS_CardinalityType
  <2>6. Level(v) = Len(v) + Cardinality(Children(v))
    BY DEF Level, Children
  <2> QED BY <2>1, <2>4, <2>5, <2>6
<1>2. ASSUME NEW l \in AllLinks PROVE Level(Append(w, l)) = Level(w) + Deeper(l.kind)
  <2> DEFINE a == Append(w, l)
             n == Len(w)
  <2>1. /\ a \in Seq(AllLinks) /\ Len(a) = n + 1 /\ n \in Nat /\ DOMAIN a = 1..(n + 1) /\ DOMAIN w = 1..n
        /\ \A i \in 1..n : a[i] = w[i]
        /\ a[n + 1] = l
    BY AppendForm
  <2> HIDE DEF a, n
  <2>2. \A i : (i \in 1..(n + 1) <=> i \in 1..n \/ i = n + 1) /\ n + 1 \notin 1..n
    BY <2>1
  <2>3. CASE l.kind = "child"
    <3>1. Children(a) = Children(w) \cup {n + 1} /\ n + 1 \notin Children(w)
      BY <2>1, <2>2, <2>3 DEF Children
    <3>2. IsFiniteSet(Children(w))
      BY <1>1
    <3>3. Cardinality(Children(w) \cup {n + 1}) = Cardinality(Children(w)) + 1
      BY <3>1, <3>2, FS_AddElement
    <3>4. Level(a) = (n + 1) + (Cardinality(Children(w)) + 1) /\ Level(w) = n + Cardinality(Children(w))
      BY <1>1, <2>1, <3>1, <3>3 DEF n
    <3>5. Cardinality(Children(w)) \in Nat /\ Deeper(l.kind) = 2
      BY <1>1, <2>3 DEF Deeper
    <3> QED BY <2>1, <3>4, <3>5 DEF a
  <2>4. CASE l.kind # "child"
    <3>1. Children(a) = Children(w)
      BY <2>1, <2>2, <2>4 DEF Children
    <3>2. Level(a) = (n + 1) + Cardinality(Children(w)) /\ Level(w) = n + Cardinality(Children(w))
      BY <1>1, <2>1, <3>1 DEF n
    <3>3. Cardinality(Children(w)) \in Nat /\ Deeper(l.kind) = 1
      BY <1>1, <2>4 DEF Deeper
    <3> QED BY <2>1, <3>2, <3>3 DEF a
  <2> QED BY <2>3, <2>4
<1>3. ASSUME NEW v \in Seq(AllLinks), Extends(v, w) PROVE Level(w) <= Level(v)
  <2>1. \A i \in 1..Len(w) : i \in 1..Len(v) /\ v[i] = w[i]
    BY <1>1, <1>3 DEF Extends
  <2>2. Children(w) \subseteq Children(v)
    BY <1>1, <2>1 DEF Children
  <2>3. Cardinality(Children(w)) <= Cardinality(Children(v))
    BY <1>1, <2>2, FS_Subset
  <2>4. Len(w) <= Len(v)
    BY <1>3 DEF Extends
  <2> QED BY <1>1, <2>3, <2>4
<1> QED BY <1>1, <1>2, <1>3

(* A tree says something of the way it is at, and of ways that extend it.  *)
Linked(l) == Link(l.kind, l.at, l.to.of)

(* A link of a tree is a step of a way.                                    *)
LEMMA LinkedForm ==
    ASSUME NEW u \in Infos, NEW l \in u.links
    PROVE  /\ Linked(l) \in AllLinks /\ Linked(l).kind = l.kind /\ Linked(l).at = l.at
           /\ l.to \in Infos /\ l = Link(l.kind, l.at, l.to) /\ l.kind \in Kinds /\ l.at \in Nat
<1>1. l = Link(l.kind, l.at, l.to) /\ l.kind \in Kinds /\ l.at \in Nat /\ l.to \in Infos
  BY InfoForm
<1>2. l.to.of \in Exceptions
  BY <1>1, InfoForm
<1>3. Linked(l) \in AllLinks
  BY <1>1, <1>2 DEF Linked, AllLinks, LinksTo, Link
<1> QED BY <1>1, <1>3, TreeForms DEF Linked

(* A tree says things of ways that extend the one it is at.                *)
LEMMA SaidExtends ==
    ASSUME NEW u \in Infos, NEW w \in Seq(AllLinks)
    PROVE  \A t \in Said(u, w) : t[1] \in Seq(AllLinks) /\ Extends(t[1], w)
<1> DEFINE T == {i \in Infos : \A way \in Seq(AllLinks) :
                    \A t \in Said(i, way) : t[1] \in Seq(AllLinks) /\ Extends(t[1], way)}
<1>1. ASSUME NEW i \in Infos, \A l \in i.links : l.to \in T PROVE i \in T
  <2>1. ASSUME NEW way \in Seq(AllLinks), NEW t \in Said(i, way)
        PROVE  t[1] \in Seq(AllLinks) /\ Extends(t[1], way)
    <3>1. t = <<way, i.text>> \/ \E l \in i.links : t \in Said(l.to, Append(way, Linked(l)))
      BY SaidRec DEF AllLinks, Linked
    <3>2. CASE t = <<way, i.text>>
      BY <3>2, ExtendsItself
    <3>3. ASSUME NEW l \in i.links, t \in Said(l.to, Append(way, Linked(l)))
          PROVE  t[1] \in Seq(AllLinks) /\ Extends(t[1], way)
      <4>1. Append(way, Linked(l)) \in Seq(AllLinks) /\ Linked(l) \in AllLinks
        BY LinkedForm, AppendForm
      <4>2. t[1] \in Seq(AllLinks) /\ Extends(t[1], Append(way, Linked(l)))
        BY <1>1, <3>3, <4>1
      <4> QED BY <4>1, <4>2, ExtendsAppend
    <3> QED BY <3>1, <3>2, <3>3
  <2> QED BY <2>1
<1>2. Infos \subseteq T
  <2> HIDE DEF T
  <2> QED BY <1>1, InfoInduction
<1> QED BY <1>2

(* What is visible of a way that extends w, if w ends at depth d.          *)
VisibleFrom(s, v, w, d) ==
    /\ d + (Level(v) - Level(w)) + 1 < s.maxDepth
    /\ Keeps(s, "message")
    /\ \A i \in (Len(w) + 1)..Len(v) : KeepsLink(s, v[i])

(* What is visible beyond a link.                                          *)
LEMMA VisibleRec ==
    ASSUME NEW s \in Situations, NEW d \in Nat, NEW w \in Seq(AllLinks), NEW l \in AllLinks,
           NEW v \in Seq(AllLinks), Extends(v, Append(w, l))
    PROVE  VisibleFrom(s, v, w, d) <=> KeepsLink(s, l) /\ VisibleFrom(s, v, Append(w, l), d + Deeper(l.kind))
<1> DEFINE a == Append(w, l)
           n == Len(w)
           m == Len(v)
<1>1. Len(a) = n + 1 /\ n \in Nat /\ m \in Nat /\ a \in Seq(AllLinks)
  BY AppendForm
<1>2. n < m /\ v[n + 1] = l
  BY ExtendsAppend
<1>3. Level(a) = Level(w) + Deeper(l.kind) /\ Level(w) \in Nat /\ Level(v) \in Nat /\ Deeper(l.kind) \in Nat
  <2>1. Deeper(l.kind) \in Nat
    BY DEF Deeper
  <2> QED BY <2>1, LevelForm
<1> HIDE DEF a, n, m
<1>4. \A i : i \in (n + 1)..m <=> i = n + 1 \/ i \in ((n + 1) + 1)..m
  BY <1>1, <1>2
<1>5. (\A i \in (n + 1)..m : KeepsLink(s, v[i])) <=>
          KeepsLink(s, l) /\ \A i \in (Len(a) + 1)..m : KeepsLink(s, v[i])
  BY <1>1, <1>2, <1>4
<1>6. d + (Level(v) - Level(w)) + 1 < s.maxDepth <=> (d + Deeper(l.kind)) + (Level(v) - Level(a)) + 1 < s.maxDepth
  BY <1>3, Limits
<1> QED BY <1>5, <1>6 DEF VisibleFrom, a, n, m

(* What is visible at the end of a way.                                    *)
LEMMA VisibleHere ==
    ASSUME NEW s \in Situations, NEW d \in Nat, NEW w \in Seq(AllLinks)
    PROVE  VisibleFrom(s, w, w, d) <=> d + 1 < s.maxDepth /\ Keeps(s, "message")
<1>1. Level(w) \in Nat /\ Len(w) \in Nat
  BY LevelForm
<1>2. d + (Level(w) - Level(w)) + 1 = d + 1 /\ \A i : i \notin (Len(w) + 1)..Len(w)
  BY <1>1
<1> QED BY <1>2 DEF VisibleFrom

(* encode of a tree says what is visible of what the tree says.            *)
EncodesWell(s, u, w, d) ==
    \A t : t[2] # "gone" => (t \in Said(Encoded(s, u, d), w) <=> t \in Said(u, w) /\ VisibleFrom(s, t[1], w, d))

(* What is encoded of a tree is a tree.                                    *)
LEMMA EncodedIsInfo ==
    ASSUME NEW s, NEW u \in Infos, NEW d \in Nat
    PROVE  Encoded(s, u, d) \in Infos /\ Encoded(s, u, d).of = u.of
<1>1. Last \in 0..Last /\ Infos = Levels[Last]
  BY LastIsNumber DEF Infos, Last
<1> QED BY <1>1, EncodedLevel

(* Nothing is shown, nor visible, from max_depth on.                       *)
LEMMA TooDeep ==
    ASSUME NEW s \in Situations, NEW u \in Infos, NEW w \in Seq(AllLinks), NEW d \in Nat, d >= s.maxDepth
    PROVE  EncodesWell(s, u, w, d)
<1>1. Encoded(s, u, d) = Node(u.of, "gone")
  BY EncodeRec
<1>2. Encoded(s, u, d) \in Infos
  BY EncodedIsInfo
<1>3. \A t : t \in Said(Encoded(s, u, d), w) <=> t = <<w, "gone">>
  <2> DEFINE e == Encoded(s, u, d)
  <2>1. e \in Infos /\ e.links = {} /\ e.text = "gone"
    BY <1>1, <1>2, TreeForms
  <2> HIDE DEF e
  <2>2. \A t : t \in Said(e, w) <=> t = <<w, e.text>>
    BY <2>1, LeafSays DEF AllLinks
  <2> QED BY <2>1, <2>2 DEF e
<1>4. ASSUME NEW t \in Said(u, w) PROVE ~VisibleFrom(s, t[1], w, d)
  <2>1. t[1] \in Seq(AllLinks) /\ Extends(t[1], w)
    BY SaidExtends
  <2>2. Level(w) <= Level(t[1]) /\ Level(w) \in Nat /\ Level(t[1]) \in Nat
    BY <2>1, LevelForm
  <2>3. ~(d + (Level(t[1]) - Level(w)) + 1 < s.maxDepth)
    BY <2>2, Limits
  <2> QED BY <2>3 DEF VisibleFrom
<1>5. ASSUME NEW t, t[2] # "gone"
      PROVE  t \in Said(Encoded(s, u, d), w) <=> t \in Said(u, w) /\ VisibleFrom(s, t[1], w, d)
  <2>1. t # <<w, "gone">>
    BY <1>5
  <2> QED BY <1>3, <1>4, <2>1
<1> QED BY <1>5 DEF EncodesWell

(* A tree above that shows what it should if those it links to do.         *)
LEMMA NotTooDeep ==
    ASSUME NEW s \in Situations, NEW u \in Infos, NEW w \in Seq(AllLinks), NEW d \in Nat, ~(d >= s.maxDepth),
           \A l \in u.links : \A way \in Seq(AllLinks) : \A e \in Nat : EncodesWell(s, l.to, way, e)
    PROVE  EncodesWell(s, u, w, d)
<1> DEFINE r == Encoded(s, u, d)
           kept == {k \in u.links : KeepsLink(s, k)}
           text == IF d + 1 < s.maxDepth /\ Keeps(s, "message") THEN u.text ELSE "gone"
           new(l) == Link(l.kind, l.at, Encoded(s, l.to, d + Deeper(l.kind)))
           onTo(l) == Append(w, Linked(l))
<1>1. \A l \in u.links : /\ Linked(l) \in AllLinks /\ Linked(l).kind = l.kind /\ Linked(l).at = l.at
                         /\ l.to \in Infos /\ l = Link(l.kind, l.at, l.to) /\ d + Deeper(l.kind) \in Nat
                         /\ onTo(l) \in Seq(AllLinks)
  <2> SUFFICES ASSUME NEW l \in u.links
               PROVE  /\ Linked(l) \in AllLinks /\ Linked(l).kind = l.kind /\ Linked(l).at = l.at
                      /\ l.to \in Infos /\ l = Link(l.kind, l.at, l.to) /\ d + Deeper(l.kind) \in Nat
                      /\ onTo(l) \in Seq(AllLinks)
    OBVIOUS
  <2>1. Linked(l) \in AllLinks /\ Linked(l).kind = l.kind /\ Linked(l).at = l.at
        /\ l.to \in Infos /\ l = Link(l.kind, l.at, l.to)
    BY LinkedForm
  <2>2. onTo(l) \in Seq(AllLinks)
    BY <2>1, AppendForm
  <2>3. d + Deeper(l.kind) \in Nat
    BY DEF Deeper
  <2> QED BY <2>1, <2>2, <2>3
<1>2. r \in Infos
  BY EncodedIsInfo
<1>3. r.text = text /\ r.links = {new(l) : l \in kept}
  <2> DEFINE old(l) == [l EXCEPT !.to = Encoded(s, l.to, d + Deeper(l.kind))]
             linked == {old(l) : l \in kept}
  <2>1. r = [of |-> u.of, text |-> text, links |-> linked]
    BY EncodeRec
  <2>2. \A l \in kept : old(l) = new(l)
    BY <1>1, TreeForms
  <2> HIDE DEF old, new, text, r, kept
  <2>3. linked = {new(l) : l \in kept}
    BY <2>2
  <2> HIDE DEF linked
  <2> QED BY <2>1, <2>3
<1>4. \A l \in u.links : new(l).to = Encoded(s, l.to, d + Deeper(l.kind))
                         /\ Link(new(l).kind, new(l).at, new(l).to.of) = Linked(l)
  <2> SUFFICES ASSUME NEW l \in u.links
               PROVE  new(l).to = Encoded(s, l.to, d + Deeper(l.kind))
                      /\ Link(new(l).kind, new(l).at, new(l).to.of) = Linked(l)
    OBVIOUS
  <2>1. new(l).kind = l.kind /\ new(l).at = l.at /\ new(l).to = Encoded(s, l.to, d + Deeper(l.kind))
    BY TreeForms
  <2>2. Encoded(s, l.to, d + Deeper(l.kind)).of = l.to.of
    BY <1>1, EncodedIsInfo
  <2> HIDE DEF new
  <2> QED BY <2>1, <2>2 DEF Linked
<1> HIDE DEF r, new, onTo
<1>5. ASSUME NEW t, t[2] # "gone"
      PROVE  t \in Said(r, w) <=> t \in Said(u, w) /\ VisibleFrom(s, t[1], w, d)
  <2>1. t \in Said(r, w) <=>
            \/ t = <<w, text>>
            \/ \E l \in kept : t \in Said(Encoded(s, l.to, d + Deeper(l.kind)), onTo(l))
    <3>1. t \in Said(r, w) <=>
              \/ t = <<w, r.text>>
              \/ \E m \in r.links : t \in Said(m.to, Append(w, Link(m.kind, m.at, m.to.of)))
      BY <1>2, SaidRec DEF AllLinks
    <3>2. (\E m \in r.links : t \in Said(m.to, Append(w, Link(m.kind, m.at, m.to.of)))) <=>
              \E l \in kept : t \in Said(Encoded(s, l.to, d + Deeper(l.kind)), onTo(l))
      BY <1>3, <1>4 DEF onTo
    <3> QED BY <1>3, <3>1, <3>2
  <2>2. t \in Said(u, w) <=> \/ t = <<w, u.text>>
                             \/ \E l \in u.links : t \in Said(l.to, onTo(l))
    BY SaidRec DEF AllLinks, onTo, Linked
  <2>3. t = <<w, text>> <=> t = <<w, u.text>> /\ VisibleFrom(s, t[1], w, d)
    <3>1. VisibleFrom(s, w, w, d) <=> d + 1 < s.maxDepth /\ Keeps(s, "message")
      BY VisibleHere
    <3>2. t # <<w, "gone">>
      BY <1>5
    <3>3. \A x : t = <<w, x>> => t[1] = w
      OBVIOUS
    <3> QED BY <3>1, <3>2, <3>3
  <2>4. ASSUME NEW l \in u.links
        PROVE  /\ l \in kept => (t \in Said(Encoded(s, l.to, d + Deeper(l.kind)), onTo(l)) <=>
                                     t \in Said(l.to, onTo(l)) /\ VisibleFrom(s, t[1], w, d))
               /\ l \notin kept => ~(t \in Said(l.to, onTo(l)) /\ VisibleFrom(s, t[1], w, d))
    <3>1. EncodesWell(s, l.to, onTo(l), d + Deeper(l.kind))
      BY <1>1
    <3>2. t \in Said(Encoded(s, l.to, d + Deeper(l.kind)), onTo(l)) <=>
              t \in Said(l.to, onTo(l)) /\ VisibleFrom(s, t[1], onTo(l), d + Deeper(l.kind))
      BY <1>5, <3>1 DEF EncodesWell
    <3>3. ASSUME t \in Said(l.to, onTo(l))
          PROVE  VisibleFrom(s, t[1], w, d) <=>
                     KeepsLink(s, l) /\ VisibleFrom(s, t[1], onTo(l), d + Deeper(l.kind))
      <4>1. t[1] \in Seq(AllLinks) /\ Extends(t[1], onTo(l))
        BY <1>1, <3>3, SaidExtends
      <4>2. VisibleFrom(s, t[1], w, d) <=>
                KeepsLink(s, Linked(l)) /\ VisibleFrom(s, t[1], onTo(l), d + Deeper(Linked(l).kind))
        BY <1>1, <4>1, VisibleRec DEF onTo
      <4>3. KeepsLink(s, Linked(l)) <=> KeepsLink(s, l)
        BY <1>1 DEF KeepsLink
      <4>4. Linked(l).kind = l.kind
        BY <1>1
      <4> QED BY <4>2, <4>3, <4>4
    <3>4. l \in kept <=> KeepsLink(s, l)
      OBVIOUS
    <3> HIDE DEF kept
    <3> QED BY <3>2, <3>3, <3>4
  <2>5. \A l : l \in kept => l \in u.links
    OBVIOUS
  <2> HIDE DEF kept, text
  <2> QED BY <2>1, <2>2, <2>3, <2>4, <2>5
<1> QED BY <1>5 DEF EncodesWell, r

(* So every tree does.                                                     *)
LEMMA EncodeSays ==
    ASSUME NEW s \in Situations
    PROVE  \A u \in Infos : \A w \in Seq(AllLinks) : \A d \in Nat : EncodesWell(s, u, w, d)
<1> DEFINE T == {u \in Infos : \A w \in Seq(AllLinks) : \A d \in Nat : EncodesWell(s, u, w, d)}
<1>1. ASSUME NEW u \in Infos, \A l \in u.links : l.to \in T PROVE u \in T
  <2>1. ASSUME NEW w \in Seq(AllLinks), NEW d \in Nat PROVE EncodesWell(s, u, w, d)
    <3>1. CASE d >= s.maxDepth
      BY <3>1, TooDeep
    <3>2. CASE ~(d >= s.maxDepth)
      <4>1. \A l \in u.links : \A way \in Seq(AllLinks) : \A e \in Nat : EncodesWell(s, l.to, way, e)
        BY <1>1
      <4> QED BY <3>2, <4>1, NotTooDeep
    <3> QED BY <3>1, <3>2
  <2> QED BY <2>1
<1>2. Infos \subseteq T
  <2> HIDE DEF T
  <2> QED BY <1>1, InfoInduction
<1> QED BY <1>2

(* encode shows of a tree what is visible at its depth, if it says nothing *)
(* that looks gone.                                                        *)
LEMMA ShownOfEncoded ==
    ASSUME NEW s \in Situations, NEW u \in Infos, NEW d \in Nat, \A t \in Texts(u) : t[2] # "gone"
    PROVE  Shown(Encode(s, u, d)) = {t \in Texts(u) : Visible(s, t[1], d)}
<1>1. Texts(u) = Said(u, <<>>) /\ Texts(Encode(s, u, d)) = Said(Encoded(s, u, d), <<>>)
  BY FromTheRoot
<1>2. <<>> \in Seq(AllLinks)
  OBVIOUS
<1>3. EncodesWell(s, u, <<>>, d)
  BY <1>2, EncodeSays
<1>4. ASSUME NEW t \in Said(u, <<>>) PROVE VisibleFrom(s, t[1], <<>>, d) <=> Visible(s, t[1], d)
  <2>1. t[1] \in Seq(AllLinks)
    BY <1>2, SaidExtends
  <2> DEFINE v == t[1]
  <2> HIDE DEF v
  <2>2. Level(v) \in Nat /\ Level(<<>>) = 0 /\ (Len(<<>>) + 1)..Len(v) = DOMAIN v
    <3>1. Level(<<>>) = 0
      <4>1. {i \in DOMAIN <<>> : <<>>[i].kind = "child"} = {}
        OBVIOUS
      <4>2. Len(<<>>) + Cardinality({}) = 0
        BY FS_EmptySet
      <4> QED BY <4>1, <4>2 DEF Level
    <3>2. v \in Seq(AllLinks)
      BY <2>1 DEF v
    <3> QED BY <3>1, <3>2, LevelForm
  <2>3. d + (Level(v) - Level(<<>>)) + 1 = d + Level(v) + 1
    BY <2>2
  <2> QED BY <2>2, <2>3 DEF VisibleFrom, Visible, v
<1>5. ASSUME NEW t PROVE t \in Said(Encoded(s, u, d), <<>>) /\ t[2] # "gone" <=> t \in Said(u, <<>>) /\ Visible(s, t[1], d)
  <2>1. t[2] # "gone" => (t \in Said(Encoded(s, u, d), <<>>) <=> t \in Said(u, <<>>) /\ VisibleFrom(s, t[1], <<>>, d))
    BY <1>3 DEF EncodesWell
  <2>2. t \in Said(u, <<>>) => t[2] # "gone"
    BY <1>1
  <2> QED BY <1>4, <2>1, <2>2
<1> QED BY <1>1, <1>5 DEF Shown

(* What is not there shows nothing.                                        *)
LEMMA GoneSaysNothing == ASSUME NEW e \in Exceptions PROVE Shown(Node(e, "gone")) = {}
<1> DEFINE u == Node(e, "gone")
<1>1. u \in Infos
  <2>1. Last \in 0..Last /\ Last # 0 /\ Infos = Levels[Last] /\ Last - 1 \in 0..Last /\ Last - 1 # Last /\ (Last - 1) + 1 = Last
    BY LastIsNumber DEF Infos, Last
  <2>2. Infos = Over(Levels[Last - 1])
    BY <2>1, LevelsForm
  <2>3. "gone" \in Readings
    BY DEF Readings
  <2> QED BY <2>2, <2>3, NodeIsOver
<1>2. u.links = {} /\ u.text = "gone"
  BY TreeForms
<1> HIDE DEF u
<1>3. \A t : t \in Texts(u) <=> t = <<<<>>, "gone">>
  <2>1. Texts(u) = Said(u, <<>>) /\ <<>> \in Seq(LinksTo(Exceptions))
    BY FromTheRoot
  <2> QED BY <1>1, <1>2, <2>1, LeafSays
<1>4. \A t \in Texts(u) : t[2] = "gone"
  BY <1>3
<1> QED BY <1>4 DEF Shown, u

(* The root is recorded, and the cause it has.                             *)
LEMMA RootRecorded ==
    ASSUME NEW h \in Heaps, NEW s \in Situations
    PROVE  LET r == Sanitize(s, Build(h, s, Root))
           IN  r.of = Root /\ r.text = "clean" /\ CauseOf(r) = {h[Root].cause} \cap Exceptions
<1> DEFINE r == Recorded(h, s, 0, <<>>)
           sent == Sanitize(s, Build(h, s, Root))
           below(l) == Below(h, s, 0, <<>>, l)
<1>1. 0 \in 0..s.exceptionDepth /\ 0 # s.exceptionDepth /\ s.exceptionDepth - 0 = s.exceptionDepth
      /\ s.exceptionDepth \in Nat /\ Root \in Exceptions
  BY Limits, ExceptionAssumption
<1>2. <<>> \in WaysOf(h, s, 0) /\ End(<<>>) = Root /\ Met(<<>>) = {}
  BY <1>1, WaysRec DEF End, Met
<1>3. sent = r
  <2>1. Build(h, s, Root) = Built(h, s, s.exceptionDepth, Root, {})
    BY AtTheEnd
  <2>2. \A u : Sanitize(s, u) = Sanitized(s, u, 0)
    BY FromTheRoot
  <2> QED BY <1>1, <1>2, <2>1, <2>2 DEF Recorded
<1>4. /\ r.of = Root /\ r.text = "clean"
      /\ r.links = {Link(l.kind, l.at, below(l)) : l \in LinksOf(h, s, Root)}
      /\ \A l \in LinksOf(h, s, Root) : below(l).of = l.to
  BY <1>1, <1>2, RecordedForm
<1> HIDE DEF r, sent, below
<1>5. \A c : c \in CauseOf(r) <=> \E l \in LinksOf(h, s, Root) : l.kind = "cause" /\ c = l.to
  <2>1. \A l : Link(l.kind, l.at, below(l)).kind = l.kind /\ Link(l.kind, l.at, below(l)).to = below(l)
    BY TreeForms
  <2>2. \A c : c \in CauseOf(r) <=> \E m \in r.links : m.kind = "cause" /\ c = m.to.of
    BY DEF CauseOf
  <2> QED BY <1>4, <2>1, <2>2
<1>6. \A l \in LinksOf(h, s, Root) : l.kind = "cause" <=> l = Link("cause", 1, h[Root].cause) /\ h[Root].cause \in Exceptions
  <2>1. "cause" # "context" /\ "cause" # "child"
    OBVIOUS
  <2>2. \A l : l \in LinksOf(h, s, Root) <=>
            \/ l = Link("cause", 1, h[Root].cause) /\ h[Root].cause \in Exceptions
            \/ l = Link("context", 1, h[Root].context) /\ h[Root].context \in Exceptions /\ ~h[Root].suppress
            \/ \E i \in DOMAIN ChildrenOf(h, s, Root) : l = Link("child", i, ChildrenOf(h, s, Root)[i])
    BY DEF LinksOf
  <2> QED BY <2>1, <2>2, TreeForms
<1>7. h[Root].cause \in Exceptions => Link("cause", 1, h[Root].cause) \in LinksOf(h, s, Root)
  BY DEF LinksOf
<1>8. CauseOf(r) = {h[Root].cause} \cap Exceptions
  BY <1>5, <1>6, <1>7, TreeForms
<1> QED BY <1>3, <1>4, <1>8 DEF sent

-----------------------------------------------------------------------------
(* The first and the last of a number of things.                           *)

(* The lesser of two numbers.                                              *)
LEMMA LeastForm ==
    ASSUME NEW a \in Nat, NEW b \in Nat
    PROVE  /\ Least(a, b) \in Nat /\ Least(a, b) <= a /\ Least(a, b) <= b
           /\ (a <= b => Least(a, b) = a) /\ (b <= a => Least(a, b) = b)
BY DEF Least

(* The first so many numbers.                                              *)
LEMMA UpToForm ==
    ASSUME NEW n \in Nat
    PROVE  UpTo(n) \in Seq(Nat) /\ Len(UpTo(n)) = n /\ DOMAIN UpTo(n) = 1..n /\ \A i \in 1..n : UpTo(n)[i] = i
BY DEF UpTo

(* Some of them are the first fewer numbers.                               *)
LEMMA TakeUpTo ==
    ASSUME NEW n \in Nat, NEW k \in Nat
    PROVE  Take(n, UpTo(k)) = UpTo(Least(n, k))
<1> DEFINE u == UpTo(k)
           m == Least(n, k)
<1>1. u \in Seq(Nat) /\ Len(u) = k /\ DOMAIN u = 1..k /\ (\A i \in 1..k : u[i] = i) /\ m \in Nat /\ m <= k
  BY UpToForm, LeastForm
<1> HIDE DEF u, m
<1>2. SubSeq(u, 1, m) = [i \in 1..m |-> u[i]]
  BY <1>1
<1>3. [i \in 1..m |-> u[i]] = [i \in 1..m |-> i]
  BY <1>1
<1> QED BY <1>1, <1>2, <1>3 DEF Take, UpTo, m, u

(* Something ends with the last thing if it holds them all.                *)
LEMMA EndsForm ==
    ASSUME NEW n \in Nat, NEW last \in Nat, n <= last
    PROVE  Ends(UpTo(n), last) <=> last \in 1..n
<1>1. DOMAIN UpTo(n) = 1..n /\ \A i \in 1..n : UpTo(n)[i] = i
  BY UpToForm
<1>2. (\E i \in DOMAIN UpTo(n) : UpTo(n)[i] = last) <=> last \in 1..n
  BY <1>1
<1> QED BY <1>2 DEF Ends

-----------------------------------------------------------------------------
(* The record is what its functions make of the exceptions of the program. *)

Typed ==
    /\ heap \in Heaps
    /\ now \in Situations
    /\ phase \in {"program", "frames", "redact", "save", "saved"}

ExceptionMade ==
    /\ phase \in {"frames", "redact"} => exception = Build(heap, now, Root)
    /\ phase \in {"save", "saved"} => exception = Sanitize(now, Build(heap, now, Root))

ContentsMade == phase \in {"redact", "save", "saved"} => frames = BuildFrames /\ crumbs = BuildCrumbs

FingerprintMade == phase \in {"save", "saved"} => canonical = Canonical(exception)

PackageMade == phase = "saved" => package = BuildFiles

RecordIInv == Typed /\ ExceptionMade /\ ContentsMade /\ FingerprintMade /\ PackageMade

(* Nothing has been made of anything.                                      *)
LEMMA InitRecord == Init => RecordIInv
<1> SUFFICES ASSUME Init PROVE RecordIInv
  OBVIOUS
<1>1. Plain \in Objects
  BY DEF Plain, Objects, Group
<1>2. heap \in Heaps
  BY <1>1 DEF Init, Heaps
<1> QED BY <1>2 DEF Init, RecordIInv, Typed, ExceptionMade, ContentsMade, FingerprintMade, PackageMade

(* The program sets an attribute.                                          *)
LEMMA SetRecord ==
    ASSUME RecordIInv, NEW e \in Exceptions, NEW changed \in Objects, Set(e, changed)
    PROVE  RecordIInv'
<1>1. heap' \in Heaps
  BY DEF Set, RecordIInv, Typed, Heaps
<1> QED BY <1>1 DEF Set, RecordIInv, Typed, ExceptionMade, ContentsMade, FingerprintMade, PackageMade

(* Every step makes what its function makes.                               *)
LEMMA NextRecord == RecordIInv /\ [Next]_vars => RecordIInv'
<1> SUFFICES ASSUME RecordIInv, [Next]_vars PROVE RecordIInv'
  OBVIOUS
<1>1. ASSUME NEW e \in Exceptions, SetCause(e) \/ SetContext(e) \/ ShowContext(e) \/ SetChildren(e)
      PROVE  RecordIInv'
  <2>1. heap[e] \in Objects
    BY DEF RecordIInv, Typed, Heaps
  <2>2. CASE SetCause(e)
    <3>1. PICK c \in Exceptions \cup {Unreadable} : Set(e, [heap[e] EXCEPT !.cause = c, !.suppress = TRUE])
      BY <2>2 DEF SetCause
    <3>2. [heap[e] EXCEPT !.cause = c, !.suppress = TRUE] \in Objects
      BY <2>1 DEF Objects
    <3> QED BY <3>1, <3>2, SetRecord
  <2>3. CASE SetContext(e)
    <3>1. PICK c \in Exceptions \cup {Unreadable} : Set(e, [heap[e] EXCEPT !.context = c])
      BY <2>3 DEF SetContext
    <3>2. [heap[e] EXCEPT !.context = c] \in Objects
      BY <2>1 DEF Objects
    <3> QED BY <3>1, <3>2, SetRecord
  <2>4. CASE ShowContext(e)
    <3>1. [heap[e] EXCEPT !.suppress = FALSE] \in Objects
      BY <2>1 DEF Objects
    <3> QED BY <2>4, <3>1, SetRecord DEF ShowContext
  <2>5. CASE SetChildren(e)
    <3>1. PICK group \in Groups : Set(e, [heap[e] EXCEPT !.children = group])
      BY <2>5 DEF SetChildren
    <3>2. group \in Group \cup {Unreadable}
      BY RecordAssumption DEF Group
    <3>3. [heap[e] EXCEPT !.children = group] \in Objects
      BY <2>1, <3>2 DEF Objects
    <3> QED BY <3>1, <3>3, SetRecord
  <2> QED BY <1>1, <2>2, <2>3, <2>4, <2>5
<1>2. CASE Begin
  BY <1>2 DEF Begin, RecordIInv, Typed, ExceptionMade, ContentsMade, FingerprintMade, PackageMade
<1>3. CASE CollectContents
  <2>1. BuildFrames' = BuildFrames /\ BuildCrumbs' = BuildCrumbs
    BY <1>3 DEF CollectContents, BuildFrames, BuildCrumbs
  <2> QED BY <1>3, <2>1 DEF CollectContents, RecordIInv, Typed, ExceptionMade, ContentsMade, FingerprintMade, PackageMade
<1>4. CASE RedactAndFingerprint
  <2>1. BuildFrames' = BuildFrames /\ BuildCrumbs' = BuildCrumbs /\ now' = now /\ frames' = frames
    BY <1>4 DEF RedactAndFingerprint, BuildFrames, BuildCrumbs
  <2>2. exception' = Sanitize(now', Build(heap', now', Root))
    BY <1>4 DEF RedactAndFingerprint, RecordIInv, ExceptionMade
  <2>3. canonical' = Canonical(exception)'
    BY <1>4, <2>1 DEF RedactAndFingerprint, Canonical
  <2> QED BY <1>4, <2>1, <2>2, <2>3
          DEF RedactAndFingerprint, RecordIInv, Typed, ExceptionMade, ContentsMade, FingerprintMade, PackageMade
<1>5. CASE SavePackage
  <2>1. BuildFrames' = BuildFrames /\ BuildCrumbs' = BuildCrumbs /\ Canonical(exception)' = Canonical(exception)
    BY <1>5 DEF SavePackage, BuildFrames, BuildCrumbs, Canonical
  <2>2. BuildFiles' = BuildFiles
    BY <1>5 DEF SavePackage, BuildFiles, EncodeItems
  <2> QED BY <1>5, <2>1, <2>2
          DEF SavePackage, RecordIInv, Typed, ExceptionMade, ContentsMade, FingerprintMade, PackageMade
<1>6. CASE UNCHANGED vars
  <2>1. BuildFrames' = BuildFrames /\ BuildCrumbs' = BuildCrumbs /\ Canonical(exception)' = Canonical(exception)
    BY <1>6 DEF vars, BuildFrames, BuildCrumbs, Canonical
  <2>2. BuildFiles' = BuildFiles
    BY <1>6 DEF vars, BuildFiles, EncodeItems
  <2> QED BY <1>6, <2>1, <2>2
          DEF vars, RecordIInv, Typed, ExceptionMade, ContentsMade, FingerprintMade, PackageMade
<1> QED BY <1>1, <1>2, <1>3, <1>4, <1>5, <1>6 DEF Next

(* The invariant holds.                                                    *)
LEMMA RecordInductive == Spec => []RecordIInv
BY InitRecord, NextRecord, PTL DEF Spec

-----------------------------------------------------------------------------

(* However exceptions refer to each other, the record holds each way once. *)
THEOREM WaysRecorded == Spec => []EveryWayRecorded
<1>1. RecordIInv => EveryWayRecorded
  BY RecordOfWays DEF RecordIInv, Typed, ExceptionMade, EveryWayRecorded
<1> QED BY RecordInductive, <1>1, PTL

(* A file shows of the record what lies above its own limits, unchanged.   *)
THEOREM RecordInFiles == Spec => []FilesShowRecord
<1>1. ASSUME RecordIInv, phase = "saved"
      PROVE  LET said == Texts(exception) IN
             /\ Shown(package.exception) = {t \in said : Visible(now, t[1], 0)}
             /\ Shown(package.whole.exception) =
                   {t \in said : Keeps(now, "exception") /\ Visible(now, t[1], 1)}
  <2>1. heap \in Heaps /\ now \in Situations /\ exception = Sanitize(now, Build(heap, now, Root)) /\ package = BuildFiles
    BY <1>1 DEF RecordIInv, Typed, ExceptionMade, PackageMade
  <2>2. exception \in Infos /\ Texts(exception) = {<<way, Reading(now, way)>> : way \in Ways(heap, now)}
    BY <2>1, RecordOfWays
  <2>3. \A t \in Texts(exception) : t[2] # "gone"
    <3>1. \A way : Reading(now, way) # "gone"
      BY ReadingForm
    <3> QED BY <2>2, <3>1
  <2>4. \A d \in Nat : Shown(Encode(now, exception, d)) = {t \in Texts(exception) : Visible(now, t[1], d)}
    BY <2>1, <2>2, <2>3, ShownOfEncoded
  <2>5. package.exception = Encode(now, exception, 0)
        /\ package.whole.exception = IF Keeps(now, "exception") THEN Encode(now, exception, 1) ELSE Node(Root, "gone")
    BY <2>1 DEF BuildFiles
  <2>6. CASE Keeps(now, "exception")
    BY <2>4, <2>5, <2>6
  <2>7. CASE ~Keeps(now, "exception")
    <3>1. Shown(Node(Root, "gone")) = {}
      BY GoneSaysNothing, ExceptionAssumption
    <3> QED BY <2>4, <2>5, <2>7, <3>1
  <2> QED BY <2>6, <2>7
<1>2. RecordIInv => FilesShowRecord
  BY <1>1 DEF FilesShowRecord
<1> QED BY RecordInductive, <1>2, PTL

(* What a file shows of the first so many things ends with the last of all *)
(* of them if neither limit is below their number.                         *)
LEMMA EndOfItems ==
    ASSUME now \in Situations, NEW d \in Nat, NEW limit \in Nat, NEW all \in Nat
    PROVE  Ends(EncodeItems(UpTo(Least(limit, all)), d), all) <=>
               (Keeps(now, "message") /\ now.maxDepth > d + 2) /\ all \in 1..Least(limit, now.maxItems)
<1> DEFINE items == Least(limit, all)
           c == Least(now.maxItems, items)
<1>1. now.maxItems \in Nat /\ now.maxDepth \in Nat /\ items \in Nat /\ items <= all
  BY Limits, LeastForm
<1>2. CASE d + 2 < now.maxDepth /\ Keeps(now, "message")
  <2>1. EncodeItems(UpTo(items), d) = UpTo(c)
    <3> HIDE DEF items
    <3> QED BY <1>1, <1>2, TakeUpTo DEF EncodeItems
  <2>2. c \in Nat /\ c <= all
    <3>1. c \in Nat /\ c <= items
      <4> HIDE DEF items
      <4> QED BY <1>1, LeastForm
    <3> HIDE DEF c, items
    <3> QED BY <1>1, <3>1
  <2>3. Ends(UpTo(c), all) <=> all \in 1..c
    <3> HIDE DEF c
    <3> QED BY <2>2, EndsForm
  <2>4. all \in 1..c <=> all \in 1..Least(limit, now.maxItems)
    BY <1>1 DEF Least
  <2>5. now.maxDepth > d + 2
    BY <1>1, <1>2
  <2> HIDE DEF c
  <2> QED BY <1>2, <2>1, <2>3, <2>4, <2>5
<1>3. CASE ~(d + 2 < now.maxDepth /\ Keeps(now, "message"))
  <2>1. EncodeItems(UpTo(items), d) = <<>>
    BY <1>3 DEF EncodeItems
  <2>2. ~Ends(<<>>, all)
    BY DEF Ends
  <2>3. ~(Keeps(now, "message") /\ now.maxDepth > d + 2)
    BY <1>1, <1>3
  <2> QED BY <2>1, <2>2, <2>3
<1> QED BY <1>2, <1>3

(* The end of the traceback and of the breadcrumbs is shown unless there   *)
(* was more of them than some limit lets pass.                             *)
THEOREM EndShown == Spec => []EndIsShown
<1>1. ASSUME RecordIInv, phase = "saved"
      PROVE  LET top == Len(frames)
                 Deep(depth) == Keeps(now, "message") /\ now.maxDepth > depth + 2
                 MostCrumbs == Least(now.maxCrumbs, now.maxItems)
             IN
             /\ Ends(package.traceback, top) <=> Deep(0) /\ top \in 1..now.maxItems
             /\ Ends(package.whole.frames, top) <=>
                   Deep(1) /\ Keeps(now, "frames") /\ top \in 1..now.maxItems
             /\ Ends(package.breadcrumbs, now.crumbs) <=> Deep(0) /\ now.crumbs \in 1..MostCrumbs
             /\ Ends(package.whole.breadcrumbs, now.crumbs) <=>
                   Deep(1) /\ Keeps(now, "breadcrumbs") /\ now.crumbs \in 1..MostCrumbs
  <2>1. now \in Situations /\ frames = BuildFrames /\ crumbs = BuildCrumbs /\ package = BuildFiles
    BY <1>1 DEF RecordIInv, Typed, ContentsMade, PackageMade
  <2> DEFINE a == Least(now.maxFrames, now.traceback)
             b == Least(now.maxCrumbs, now.crumbs)
             deep(d) == Keeps(now, "message") /\ now.maxDepth > d + 2
             most == Least(now.maxCrumbs, now.maxItems)
  <2>2. now.maxFrames \in Nat /\ now.maxCrumbs \in Nat /\ now.traceback \in Nat /\ now.crumbs \in Nat
        /\ now.maxItems \in Nat /\ now.maxDepth \in Nat
    BY <2>1, Limits
  <2>3. frames = UpTo(a) /\ crumbs = UpTo(b) /\ a \in Nat /\ b \in Nat /\ Len(frames) = a
    <3>1. frames = UpTo(a) /\ crumbs = UpTo(b)
      BY <2>1, <2>2, TakeUpTo DEF BuildFrames, BuildCrumbs
    <3>2. a \in Nat /\ b \in Nat
      BY <2>2, LeastForm
    <3> HIDE DEF a, b
    <3> QED BY <3>1, <3>2, UpToForm
  <2>4. /\ package.traceback = EncodeItems(frames, 0)
        /\ package.breadcrumbs = EncodeItems(crumbs, 0)
        /\ package.whole.frames = IF Keeps(now, "frames") THEN EncodeItems(frames, 1) ELSE <<>>
        /\ package.whole.breadcrumbs = IF Keeps(now, "breadcrumbs") THEN EncodeItems(crumbs, 1) ELSE <<>>
    BY <2>1 DEF BuildFiles
  <2>5. ASSUME NEW d \in {0, 1}
        PROVE  /\ Ends(EncodeItems(frames, d), a) <=> deep(d) /\ a \in 1..now.maxItems
               /\ Ends(EncodeItems(crumbs, d), now.crumbs) <=> deep(d) /\ now.crumbs \in 1..most
    <3>1. Least(a, a) = a
      BY DEF Least
    <3>2. a \in 1..Least(a, now.maxItems) <=> a \in 1..now.maxItems
      <4> HIDE DEF a
      <4> QED BY <2>2, <2>3 DEF Least
    <3>3. Ends(EncodeItems(UpTo(Least(a, a)), d), a) <=> deep(d) /\ a \in 1..Least(a, now.maxItems)
      <4> HIDE DEF a
      <4> QED BY <2>1, <2>3, EndOfItems
    <3>4. Ends(EncodeItems(UpTo(b), d), now.crumbs) <=> deep(d) /\ now.crumbs \in 1..most
      BY <2>1, <2>2, EndOfItems
    <3> HIDE DEF a, b, deep, most
    <3> QED BY <2>3, <3>1, <3>2, <3>3, <3>4
  <2>6. ~Ends(<<>>, a) /\ ~Ends(<<>>, now.crumbs)
    BY DEF Ends
  <2>7. /\ Ends(package.traceback, a) <=> deep(0) /\ a \in 1..now.maxItems
        /\ Ends(package.whole.frames, a) <=> deep(1) /\ Keeps(now, "frames") /\ a \in 1..now.maxItems
        /\ Ends(package.breadcrumbs, now.crumbs) <=> deep(0) /\ now.crumbs \in 1..most
        /\ Ends(package.whole.breadcrumbs, now.crumbs) <=>
               deep(1) /\ Keeps(now, "breadcrumbs") /\ now.crumbs \in 1..most
    <3> HIDE DEF a, b, deep, most
    <3> QED BY <2>4, <2>5, <2>6
  <2> QED BY <2>3, <2>7
<1>2. RecordIInv => EndIsShown
  BY <1>1 DEF EndIsShown
<1> QED BY RecordInductive, <1>2, PTL

(* The fingerprint is of the root, of its cause and of the last frames.    *)
THEOREM FingerprintOfTheRaise == Spec => []FingerprintIsOfTheRaise
<1>1. ASSUME RecordIInv, phase \in {"save", "saved"}
      PROVE  /\ canonical.of = Root /\ canonical.text = "clean"
             /\ canonical.cause = {heap[Root].cause} \cap Exceptions
             /\ now.traceback <= now.maxFrames =>
                   canonical.frames = TakeLast(now.fingerprintFrames, UpTo(now.traceback))
  <2>1. heap \in Heaps /\ now \in Situations /\ exception = Sanitize(now, Build(heap, now, Root))
        /\ frames = BuildFrames /\ canonical = Canonical(exception)
    BY <1>1 DEF RecordIInv, Typed, ExceptionMade, ContentsMade, FingerprintMade
  <2>2. exception.of = Root /\ exception.text = "clean" /\ CauseOf(exception) = {heap[Root].cause} \cap Exceptions
    BY <2>1, RootRecorded
  <2>3. canonical.of = exception.of /\ canonical.text = exception.text /\ canonical.cause = CauseOf(exception)
        /\ canonical.frames = TakeLast(now.fingerprintFrames, frames)
    BY <2>1 DEF Canonical
  <2>4. now.traceback \in Nat /\ now.maxFrames \in Nat
    BY <2>1, Limits
  <2>5. now.traceback <= now.maxFrames => frames = UpTo(now.traceback)
    BY <2>1, <2>4, TakeUpTo, LeastForm DEF BuildFrames
  <2> QED BY <2>2, <2>3, <2>5
<1>2. RecordIInv => FingerprintIsOfTheRaise
  BY <1>1 DEF FingerprintIsOfTheRaise
<1> QED BY RecordInductive, <1>2, PTL

-----------------------------------------------------------------------------
(* Configuration.  That the configuration in force is the one that was set *)
(* last has to be known of the threads that are about to put the default   *)
(* there: those that were at it when something was set are in raced, and   *)
(* for any other one nothing but the default has been set.                 *)

(* Before there is a configuration none has been set, and nobody is about  *)
(* to answer one.                                                          *)
NoneYet ==
    current = Unset =>
        /\ set = Default
        /\ raced = {}
        /\ \A t \in Threads : doing[t] # "return"

(* A thread that puts the default there without a race.                    *)
HarmlessBuilder(t) == doing[t] = "build" /\ t \notin raced => set = Default

ConfigIInv ==
    /\ TypeOK
    /\ NoneYet
    /\ \A t \in Threads : HarmlessBuilder(t)
    /\ InForceIsSet

-----------------------------------------------------------------------------

(* An override by values is a configuration again.                         *)
LEMMA OverriddenType ==
    ASSUME NEW c \in Configs, NEW fields \in SUBSET Fields, NEW new \in [fields -> Values]
    PROVE  Overridden(c, new) \in Configs
BY DEF Overridden, Configs

LEMMA InitConfig == ConfigInit => ConfigIInv
BY ConfigurationAssumption
   DEF ConfigInit, ConfigIInv, TypeOK, NoneYet, HarmlessBuilder, InForceIsSet

(* Whatever is put there is in force, and what is being built is a race.   *)
LEMMA PutKeeps ==
    ASSUME ConfigIInv, NEW c \in Configs, Put(c)
    PROVE  /\ current' = c /\ current' # Unset
           /\ current' = set' /\ set' \in Configs
           /\ raced' = {t \in Threads : doing[t] = "build"}
BY ConfigurationAssumption DEF Put, Builders

LEMMA NextConfig == ConfigIInv /\ [ConfigNext]_configVars => ConfigIInv'
<1> USE ConfigurationAssumption
<1>1. ASSUME ConfigIInv, NEW t \in Threads, Look(t) PROVE ConfigIInv'
  BY <1>1 DEF Look, Goto, ConfigIInv, TypeOK, NoneYet, HarmlessBuilder, InForceIsSet
<1>2. ASSUME ConfigIInv, NEW t \in Threads, BuildDefault(t) PROVE ConfigIInv'
  <2>1. current' = Default /\ current' # Unset /\ doing'[t] # "build"
    BY <1>2 DEF BuildDefault, Goto, ConfigIInv, TypeOK
  <2>2. InForceIsSet'
    BY <1>2, <2>1 DEF BuildDefault, ConfigIInv, HarmlessBuilder, InForceIsSet
  <2>3. TypeOK' /\ NoneYet' /\ \A u \in Threads : HarmlessBuilder(u)'
    BY <1>2, <2>1 DEF BuildDefault, Goto, ConfigIInv, TypeOK, NoneYet, HarmlessBuilder
  <2> QED BY <2>2, <2>3 DEF ConfigIInv
<1>3. ASSUME ConfigIInv, NEW t \in Threads, Return(t) PROVE ConfigIInv'
  <2>1. current \in Configs
    BY <1>3 DEF Return, ConfigIInv, TypeOK, NoneYet
  <2>2. TypeOK' /\ NoneYet' /\ InForceIsSet' /\ \A u \in Threads : HarmlessBuilder(u)'
    BY <1>3, <2>1 DEF Return, Goto, ConfigIInv, TypeOK, NoneYet, HarmlessBuilder, InForceIsSet
  <2> QED BY <2>2 DEF ConfigIInv
<1>4. ASSUME ConfigIInv, NEW t \in Threads, ResetConfig(t) PROVE ConfigIInv'
  <2>1. /\ current' = Default /\ current' # Unset
        /\ current' = set' /\ set' \in Configs
        /\ raced' = {u \in Threads : doing[u] = "build"}
    BY <1>4, PutKeeps DEF ResetConfig
  <2>2. TypeOK' /\ NoneYet' /\ InForceIsSet' /\ \A u \in Threads : HarmlessBuilder(u)'
    BY <1>4, <2>1 DEF ResetConfig, Goto, ConfigIInv, TypeOK, NoneYet, HarmlessBuilder, InForceIsSet
  <2> QED BY <2>2 DEF ConfigIInv
<1>5. ASSUME ConfigIInv, NEW t \in Threads, NEW given \in {Default, answer[t]},
             NEW fields \in SUBSET Fields, NEW new \in [fields -> Values],
             Configure(t, given, new)
      PROVE  ConfigIInv'
  <2> DEFINE c == Overridden(given, new)
  <2>1. c \in Configs
    BY <1>5, OverriddenType DEF Configure, Accepts, ConfigIInv, TypeOK
  <2>2. /\ current' = c /\ current' # Unset
        /\ current' = set' /\ set' \in Configs
        /\ raced' = {u \in Threads : doing[u] = "build"}
    BY <1>5, <2>1, PutKeeps DEF Configure
  <2>3. answer' = [answer EXCEPT ![t] = c] /\ doing' = doing
    BY <1>5 DEF Configure
  <2> HIDE DEF c
  <2>4. TypeOK' /\ NoneYet' /\ InForceIsSet' /\ \A u \in Threads : HarmlessBuilder(u)'
    BY <1>5, <2>1, <2>2, <2>3 DEF ConfigIInv, TypeOK, NoneYet, HarmlessBuilder, InForceIsSet
  <2> QED BY <2>4 DEF ConfigIInv
<1>6. ASSUME ConfigIInv, UNCHANGED configVars PROVE ConfigIInv'
  BY <1>6 DEF configVars, ConfigIInv, TypeOK, NoneYet, HarmlessBuilder, InForceIsSet
<1> QED BY <1>1, <1>2, <1>3, <1>4, <1>5, <1>6 DEF ConfigNext, ConfigureRefused

LEMMA ConfigInductive == ConfigSpec => []ConfigIInv
BY InitConfig, NextConfig, PTL DEF ConfigSpec

-----------------------------------------------------------------------------

(* get_config, configure and reset_config without a lock lose what was set *)
(* in one case only: to a get_config that had found nothing before.        *)
THEOREM SetIsInForce == ConfigSpec => []InForceIsSet
<1>1. ConfigIInv => InForceIsSet
  BY DEF ConfigIInv
<1> QED BY ConfigInductive, <1>1, PTL
=============================================================================
