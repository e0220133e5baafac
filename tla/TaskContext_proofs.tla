-------------------------- MODULE TaskContext_proofs --------------------------
(***************************************************************************)
(* Proofs about TaskContext for any tasks, keys and limits.  That blocks,  *)
(* tokens and clears nest however the program likes is covered by InForce: *)
(* the dict each open token would put back is the one that the settings    *)
(* before its own add up to.                                               *)
(***************************************************************************)
EXTENDS TaskContext, FiniteSetTheorems, SequenceTheorems, WellFoundedInduction, TLAPS

(* What the first n settings of s add up to, on top of the values of from. *)
Value(from, s, n) ==
    [k \in Keys |->
        LET hits == {i \in 1..n : s[i].clear \/ k \in s[i].keys}
        IN IF hits = {} THEN from[k]
           ELSE IF s[Max(hits)].clear THEN Absent ELSE s[Max(hits)].token]

(* A task that does not run yet has nothing. *)
Unborn(t) ==
    /\ var[t] = 0 /\ base[t] = EmptyDict /\ settings[t] = <<>> /\ ~stale[t]
    /\ crumbs[t] = <<>> /\ said[t] = <<>>

(* The token of the j-th setting would put back what the settings before   *)
(* it add up to.                                                           *)
Restores(t, j) ==
    LET i == settings[t][j].token IN
    /\ i \in 1..Len(tokens)
    /\ Contents(tokens[i].old) = Value(base[t], settings[t], j - 1)

(* clear_context has no token: no reset ends it.                           *)
NoTokenOfClear(t) ==
    \A j \in 1..Len(settings[t]) : settings[t][j].clear => settings[t][j].token = 0

InForce(t) ==
    ~stale[t] =>
        /\ Shown(t) = Value(base[t], settings[t], Len(settings[t]))
        /\ \A j \in 1..Len(settings[t]) : settings[t][j].clear \/ Restores(t, j)

(* Limits are set before breadcrumbs are added: one that was in force then *)
(* is why breadcrumbs are missing, and the last of them is kept.           *)
Newest(kept, all) ==
    /\ IsSuffix(kept, all)
    /\ kept # all => \E i \in 1..Len(all) : all[i].limit <= Len(kept)
    /\ all # <<>> => kept # <<>> /\ Len(kept) <= Last(all).limit

IInv ==
    /\ TypeOK
    /\ \A t \in Tasks : NoTokenOfClear(t)
    /\ \A t \in Tasks \ alive : Unborn(t)
    /\ \A t \in Tasks : InForce(t) /\ Newest(crumbs[t], said[t])

-----------------------------------------------------------------------------
(* Least and greatest numbers.                                             *)

LEMMA LeastNumber ==
    ASSUME NEW S \in SUBSET Nat, S # {}
    PROVE  \E m \in S : \A n \in S : m <= n
<1> DEFINE less == OpToRel(<, Nat)
<1>1. PICK m \in S : \A n \in S : <<n, m>> \notin less
  <2>1. IsWellFoundedOn(less, Nat)
    BY NatLessThanWellFounded
  <2>2. S \subseteq Nat
    OBVIOUS
  <2> HIDE DEF less
  <2> QED BY <2>1, <2>2, WFMin, Zenon
<1>2. ASSUME NEW n \in S, n < m PROVE FALSE
  <2>1. <<n, m>> \in less
    BY <1>2 DEF OpToRel
  <2> QED BY <1>1, <2>1
<1>3. \A n \in S : m <= n
  BY <1>2
<1> QED BY <1>3

LEMMA MinOf ==
    ASSUME NEW S \in SUBSET Nat, S # {}
    PROVE  Min(S) \in S /\ \A n \in S : Min(S) <= n
BY LeastNumber DEF Min

LEMMA MaxOf ==
    ASSUME NEW n \in Nat, NEW S \in SUBSET 1..n, S # {}
    PROVE  Max(S) \in S /\ \A m \in S : m <= Max(S)
<1> DEFINE bounds == {b \in Nat : \A m \in S : m <= b}
<1>1. bounds \in SUBSET Nat /\ n \in bounds
  OBVIOUS
<1>2. PICK b \in bounds : \A c \in bounds : b <= c
  BY <1>1, LeastNumber
<1>3. b \in S
  <2> SUFFICES ASSUME b \notin S PROVE FALSE
    OBVIOUS
  <2>1. b # 0
    <3>1. PICK m \in S : m \in 1..n
      OBVIOUS
    <3> QED BY <3>1
  <2>2. b - 1 \in bounds
    BY <2>1
  <2> QED BY <1>2, <2>2
<1>4. \E m \in S : \A k \in S : m >= k
  BY <1>3
<1>5. Max(S) \in S /\ \A k \in S : Max(S) >= k
  BY <1>4 DEF Max
<1> QED BY <1>5

LEMMA MaxIs ==
    ASSUME NEW n \in Nat, NEW S \in SUBSET 1..n, NEW m \in S, \A k \in S : k <= m
    PROVE  Max(S) = m
<1> DEFINE x == Max(S)
<1>1. S # {}
  OBVIOUS
<1>2. x \in S /\ m <= x
  BY <1>1, MaxOf
<1> HIDE DEF x
<1>3. x \in Nat /\ m \in Nat /\ x <= m
  BY <1>2
<1>4. x = m
  BY <1>2, <1>3
<1> QED BY <1>4 DEF x

-----------------------------------------------------------------------------
(* Suffixes.                                                               *)

LEMMA SuffixIs ==
    ASSUME NEW S, NEW s \in Seq(S), NEW whole \in Seq(S)
    PROVE  IsSuffix(s, whole) <=>
              /\ Len(s) <= Len(whole)
              /\ \A i \in 1..Len(s) : s[i] = whole[Len(whole) - Len(s) + i]
<1>1. Len(s) \in Nat /\ Len(whole) \in Nat
  BY LenProperties
<1>2. /\ Reverse(s) \in Seq(S) /\ Len(Reverse(s)) = Len(s)
      /\ Reverse(whole) \in Seq(S) /\ Len(Reverse(whole)) = Len(whole)
      /\ \A i \in 1..Len(s) : Reverse(s)[i] = s[Len(s) - i + 1]
      /\ \A i \in 1..Len(whole) : Reverse(whole)[i] = whole[Len(whole) - i + 1]
  BY <1>1, ElementOfSeq DEF Reverse
<1> DEFINE n == Len(s)
           mine == SubSeq(Reverse(s), 1, n)
           its == SubSeq(Reverse(whole), 1, n)
<1> SUFFICES ASSUME n <= Len(whole)
             PROVE  mine = its <=> \A i \in 1..n : s[i] = whole[Len(whole) - n + i]
  BY <1>1, <1>2 DEF IsSuffix, IsPrefix
<1>3. \A i \in 1..n : Reverse(s)[i] \in S /\ Reverse(whole)[i] \in S
  BY <1>1, <1>2, ElementOfSeq
<1>4. /\ mine \in Seq(S) /\ Len(mine) = n /\ \A i \in 1..n : mine[i] = Reverse(s)[i]
      /\ its \in Seq(S) /\ Len(its) = n /\ \A i \in 1..n : its[i] = Reverse(whole)[i]
  BY <1>1, <1>3, SubSeqProperties
<1>5. mine = its <=> \A i \in 1..n : mine[i] = its[i]
  <2> HIDE DEF mine, its
  <2> QED BY <1>4, SeqEqual
<1>6. mine = its <=> \A i \in 1..n : s[n - i + 1] = whole[Len(whole) - i + 1]
  <2>1. \A i \in 1..n : i \in 1..Len(whole)
    BY <1>1
  <2>2. \A i \in 1..n : mine[i] = s[n - i + 1] /\ its[i] = whole[Len(whole) - i + 1]
    BY <1>2, <1>4, <2>1
  <2> HIDE DEF mine, its
  <2> QED BY <1>5, <2>2
<1> HIDE DEF mine, its
<1>7. ASSUME \A i \in 1..n : s[n - i + 1] = whole[Len(whole) - i + 1], NEW i \in 1..n
      PROVE  s[i] = whole[Len(whole) - n + i]
  <2>1. n - i + 1 \in 1..n /\ n - (n - i + 1) + 1 = i
        /\ Len(whole) - (n - i + 1) + 1 = Len(whole) - n + i
    BY <1>1
  <2> QED BY <1>7, <2>1
<1>8. ASSUME \A i \in 1..n : s[i] = whole[Len(whole) - n + i], NEW i \in 1..n
      PROVE  s[n - i + 1] = whole[Len(whole) - i + 1]
  <2>1. n - i + 1 \in 1..n /\ Len(whole) - n + (n - i + 1) = Len(whole) - i + 1
    BY <1>1
  <2> QED BY <1>8, <2>1
<1> QED BY <1>6, <1>7, <1>8

-----------------------------------------------------------------------------
(* What settings add up to.                                                *)

LEMMA ValueAgrees ==
    ASSUME NEW from, NEW n \in Nat, NEW r, NEW s, \A i \in 1..n : r[i] = s[i]
    PROVE  Value(from, r, n) = Value(from, s, n)
<1> DEFINE Hits(q, k) == {i \in 1..n : q[i].clear \/ k \in q[i].keys}
<1>1. ASSUME NEW k \in Keys PROVE Value(from, r, n)[k] = Value(from, s, n)[k]
  <2>1. Hits(r, k) = Hits(s, k)
    OBVIOUS
  <2>2. Hits(r, k) # {} => r[Max(Hits(r, k))] = s[Max(Hits(r, k))]
    <3>1. Hits(r, k) \in SUBSET 1..n
      OBVIOUS
    <3> HIDE DEF Hits
    <3>2. Hits(r, k) # {} => Max(Hits(r, k)) \in 1..n
      BY <3>1, MaxOf
    <3> QED BY <3>2
  <2>3. /\ Value(from, r, n)[k] = IF Hits(r, k) = {} THEN from[k]
                   ELSE IF r[Max(Hits(r, k))].clear THEN Absent ELSE r[Max(Hits(r, k))].token
        /\ Value(from, s, n)[k] = IF Hits(s, k) = {} THEN from[k]
                   ELSE IF s[Max(Hits(s, k))].clear THEN Absent ELSE s[Max(Hits(s, k))].token
    BY DEF Value
  <2> HIDE DEF Hits
  <2> QED BY <2>1, <2>2, <2>3
<1> QED BY <1>1 DEF Value

LEMMA ValueNext ==
    ASSUME NEW from, NEW n \in Nat, NEW next \in Nat, next = n + 1, NEW s, NEW k \in Keys
    PROVE  Value(from, s, next)[k] =
              IF s[next].clear THEN Absent
              ELSE IF k \in s[next].keys THEN s[next].token
              ELSE Value(from, s, n)[k]
<1> DEFINE Hits(m) == {i \in 1..m : s[i].clear \/ k \in s[i].keys}
<1>1. /\ Value(from, s, n)[k] = IF Hits(n) = {} THEN from[k]
                   ELSE IF s[Max(Hits(n))].clear THEN Absent ELSE s[Max(Hits(n))].token
      /\ Value(from, s, n + 1)[k] = IF Hits(n + 1) = {} THEN from[k]
                   ELSE IF s[Max(Hits(n + 1))].clear THEN Absent ELSE s[Max(Hits(n + 1))].token
  BY DEF Value
<1>2. CASE s[n + 1].clear \/ k \in s[n + 1].keys
  <2>1. Hits(n + 1) \in SUBSET 1..(n + 1) /\ n + 1 \in Hits(n + 1)
    BY <1>2
  <2>2. \A i \in Hits(n + 1) : i <= n + 1
    BY <2>1
  <2> HIDE DEF Hits
  <2>3. Max(Hits(n + 1)) = n + 1
    <3>1. n + 1 \in Nat
      OBVIOUS
    <3> QED BY <2>1, <2>2, <3>1, MaxIs
  <2> QED BY <1>1, <1>2, <2>1, <2>3
<1>3. CASE ~(s[n + 1].clear \/ k \in s[n + 1].keys)
  <2>1. Hits(n + 1) = Hits(n)
    BY <1>3
  <2> HIDE DEF Hits
  <2> QED BY <1>1, <1>3, <2>1
<1> QED BY <1>2, <1>3

-----------------------------------------------------------------------------
(* One more breadcrumb.                                                    *)

LEMMA WholeSuffix ==
    ASSUME NEW S, NEW s \in Seq(S)
    PROVE  IsSuffix(s, s)
<1> PICK size \in Nat : size = Len(s)
  BY LenProperties
<1>1. \A i \in 1..size : size - size + i = i
  OBVIOUS
<1>2. Len(s) <= Len(s) /\ \A i \in 1..Len(s) : s[i] = s[Len(s) - Len(s) + i]
  BY <1>1
<1> QED BY <1>2, SuffixIs

(* The last n elements of a suffix are a suffix.                           *)
LEMMA TailOfSuffix ==
    ASSUME NEW S, NEW s \in Seq(S), NEW whole \in Seq(S), IsSuffix(s, whole),
           NEW n \in Nat, 1 <= n, n <= Len(s)
    PROVE  LET tail == SubSeq(s, Len(s) - n + 1, Len(s)) IN
           tail \in Seq(S) /\ Len(tail) = n /\ IsSuffix(tail, whole)
<1> DEFINE tail == SubSeq(s, Len(s) - n + 1, Len(s))
<1> PICK size \in Nat : size = Len(s)
  BY LenProperties
<1> PICK total \in Nat : total = Len(whole)
  BY LenProperties
<1>1. size <= total /\ \A i \in 1..size : s[i] = whole[total - size + i]
  BY SuffixIs
<1>2. tail \in Seq(S) /\ Len(tail) = n /\ \A i \in 1..n : tail[i] = s[size - n + i]
  <2> PICK first \in Nat : first = size - n + 1
    OBVIOUS
  <2>1. first >= 1 /\ first <= size /\ size - first + 1 = n
    OBVIOUS
  <2>2. \A i \in first..size : s[i] \in S
    <3>1. \A i \in first..size : i \in 1..Len(s)
      BY <2>1
    <3> QED BY <3>1, ElementOfSeq
  <2>3. /\ SubSeq(s, first, size) \in Seq(S)
        /\ Len(SubSeq(s, first, size)) = IF first <= size THEN size - first + 1 ELSE 0
        /\ \A i \in 1..(size - first + 1) : SubSeq(s, first, size)[i] = s[first + i - 1]
    BY <2>2, SubSeqProperties
  <2>4. ASSUME NEW i \in 1..n PROVE first + i - 1 = size - n + i
    OBVIOUS
  <2>5. tail = SubSeq(s, first, size)
    OBVIOUS
  <2> HIDE DEF tail
  <2> QED BY <2>1, <2>3, <2>4, <2>5
<1> HIDE DEF tail
<1>3. ASSUME NEW i \in 1..n PROVE tail[i] = whole[total - n + i]
  <2>1. size - n + i \in 1..size /\ total - size + (size - n + i) = total - n + i
    OBVIOUS
  <2> QED BY <1>1, <1>2, <2>1
<1>4. IsSuffix(tail, whole)
  <2>1. n <= total
    BY <1>1
  <2>2. Len(tail) <= Len(whole)
    BY <1>2, <2>1
  <2>3. \A i \in 1..Len(tail) : tail[i] = whole[Len(whole) - Len(tail) + i]
    BY <1>2, <1>3
  <2> QED BY <1>2, <2>2, <2>3, SuffixIs
<1> QED BY <1>2, <1>4 DEF tail

(* So is it one with an element more at the end of both.                   *)
LEMMA LongerSuffix ==
    ASSUME NEW S, NEW s \in Seq(S), NEW whole \in Seq(S), IsSuffix(s, whole), NEW e \in S
    PROVE  IsSuffix(Append(s, e), Append(whole, e))
<1> PICK size \in Nat : size = Len(s)
  BY LenProperties
<1> PICK total \in Nat : total = Len(whole)
  BY LenProperties
<1> DEFINE more == Append(s, e)
           now == Append(whole, e)
<1>1. /\ more \in Seq(S) /\ Len(more) = size + 1 /\ more[size + 1] = e
      /\ \A i \in 1..size : more[i] = s[i]
      /\ now \in Seq(S) /\ Len(now) = total + 1 /\ now[total + 1] = e
      /\ \A i \in 1..total : now[i] = whole[i]
  BY AppendProperties
<1>2. size <= total /\ \A i \in 1..size : s[i] = whole[total - size + i]
  BY SuffixIs
<1> HIDE DEF more, now
<1>3. ASSUME NEW i \in 1..(size + 1) PROVE more[i] = now[(total + 1) - (size + 1) + i]
  <2>1. CASE i = size + 1
    <3>1. (total + 1) - (size + 1) + i = total + 1
      BY <2>1
    <3> QED BY <1>1, <2>1, <3>1
  <2>2. CASE i \in 1..size
    <3>1. (total + 1) - (size + 1) + i = total - size + i /\ total - size + i \in 1..total
      BY <1>2, <2>2
    <3> QED BY <1>1, <1>2, <2>2, <3>1
  <2> QED BY <2>1, <2>2
<1>4. Len(more) <= Len(now)
  BY <1>1, <1>2
<1>5. IsSuffix(more, now)
  BY <1>1, <1>3, <1>4, SuffixIs
<1> QED BY <1>5 DEF more, now

(* Nothing is the newest of nothing; then, one breadcrumb more.            *)
LEMMA NothingNewer == Newest(<<>>, <<>>)
<1>1. IsSuffix(<<>>, <<>>)
  <2>1. <<>> \in Seq(Crumbs)
    BY EmptySeq
  <2> QED BY <2>1, WholeSuffix
<1> QED BY <1>1 DEF Newest

LEMMA TrimKeepsNewest ==
    ASSUME NEW kept \in Seq(Crumbs), NEW all \in Seq(Crumbs), Newest(kept, all),
           NEW item \in Crumbs, item.limit \in Nat \ {0}
    PROVE  LET new == Trim(Append(kept, item), item.limit) IN
           /\ new \in Seq(Crumbs) /\ Len(new) <= item.limit
           /\ Newest(new, Append(all, item))
<1> PICK n \in Nat : n = item.limit /\ n # 0
  OBVIOUS
<1> PICK size \in Nat : size = Len(kept)
  BY LenProperties
<1> PICK total \in Nat : total = Len(all)
  BY LenProperties
<1> DEFINE more == Append(kept, item)
           now == Append(all, item)
           new == Trim(more, n)
<1>1. /\ more \in Seq(Crumbs) /\ Len(more) = size + 1 /\ more # <<>>
      /\ now \in Seq(Crumbs) /\ Len(now) = total + 1 /\ now[total + 1] = item /\ now # <<>>
      /\ \A i \in 1..total : now[i] = all[i]
  BY AppendProperties
<1>2. IsSuffix(more, now)
  BY LongerSuffix DEF Newest
<1>3. Last(now) = item
  BY <1>1 DEF Last
<1>4. new = IF size + 1 > n THEN SubSeq(more, Len(more) - n + 1, Len(more)) ELSE more
  BY <1>1 DEF Trim
<1> HIDE DEF now, new
<1>5. CASE size + 1 > n
  <2>1. new \in Seq(Crumbs) /\ Len(new) = n /\ IsSuffix(new, now)
    <3>1. 1 <= n /\ n <= Len(more)
      BY <1>1, <1>5
    <3> DEFINE tail == SubSeq(more, Len(more) - n + 1, Len(more))
    <3> HIDE DEF more
    <3>2. tail \in Seq(Crumbs) /\ Len(tail) = n /\ IsSuffix(tail, now)
      <4>1. more \in Seq(Crumbs) /\ now \in Seq(Crumbs)
        BY <1>1
      <4> QED BY <1>2, <3>1, <4>1, TailOfSuffix
    <3> QED BY <1>4, <1>5, <3>2
  <2>2. now[total + 1].limit <= Len(new) /\ total + 1 \in 1..Len(now)
    BY <1>1, <2>1
  <2>3. new # <<>>
    BY <2>1, EmptySeq
  <2>4. Newest(new, now)
    BY <1>3, <2>1, <2>2, <2>3 DEF Newest
  <2> QED BY <2>1, <2>4 DEF new, now, more
<1>6. CASE size + 1 <= n
  <2>1. new = more
    BY <1>4, <1>6
  <2>2. new # now => \E i \in 1..Len(now) : now[i].limit <= Len(new)
    <3> SUFFICES ASSUME new # now PROVE \E i \in 1..Len(now) : now[i].limit <= Len(new)
      OBVIOUS
    <3>1. kept # all
      BY <2>1 DEF more, now
    <3>2. PICK i \in 1..total : all[i].limit <= size
      BY <3>1 DEF Newest
    <3> PICK l \in Nat : l = all[i].limit
      <4>1. all[i] \in Crumbs
        BY ElementOfSeq
      <4> QED BY <4>1, ContextAssumption DEF Crumbs
    <3>3. l <= size + 1
      BY <3>2
    <3>4. i \in 1..Len(now) /\ now[i] = all[i]
      BY <1>1
    <3> QED BY <1>1, <2>1, <3>3, <3>4
  <2>3. Newest(new, now)
    BY <1>1, <1>2, <1>3, <1>6, <2>1, <2>2 DEF Newest
  <2> QED BY <1>1, <1>6, <2>1, <2>3 DEF new, now, more
<1> QED BY <1>5, <1>6

-----------------------------------------------------------------------------
(* What InForce rests on.                                                  *)

LEMMA ShownIsDict ==
    ASSUME TypeOK, NEW t \in Tasks
    PROVE  /\ Shown(t) \in [Keys -> Nat] /\ EmptyDict \in [Keys -> Nat]
           /\ \A i \in 0..Len(dicts) : Contents(i) \in [Keys -> Nat]
<1>1. EmptyDict \in [Keys -> Nat]
  BY DEF EmptyDict, Absent
<1>2. ASSUME NEW i \in 0..Len(dicts) PROVE Contents(i) \in [Keys -> Nat]
  <2>1. dicts \in Seq([Keys -> Nat])
    BY DEF TypeOK
  <2>2. i # 0 => i \in 1..Len(dicts)
    BY <2>1
  <2> QED BY <1>1, <2>1, <2>2, ElementOfSeq DEF Contents
<1>3. var[t] \in 0..Len(dicts)
  BY DEF TypeOK
<1> QED BY <1>1, <1>2, <1>3 DEF Shown

(* A dict keeps its contents when others are made.                         *)
LEMMA DictsStay ==
    ASSUME TypeOK, NEW d, dicts' = Append(dicts, d) \/ UNCHANGED dicts
    PROVE  \A i \in 0..Len(dicts) : Contents(i)' = Contents(i)
<1>1. dicts \in Seq([Keys -> Nat]) /\ Len(dicts) \in Nat
  BY LenProperties DEF TypeOK
<1>2. \A i \in 1..Len(dicts) : dicts'[i] = dicts[i]
  <2>1. CASE UNCHANGED dicts
    BY <2>1
  <2>2. CASE dicts' = Append(dicts, d)
    BY <1>1, <2>2
  <2> QED BY <2>1, <2>2
<1>3. ASSUME NEW i \in 0..Len(dicts) PROVE Contents(i)' = Contents(i)
  <2>1. i # 0 => i \in 1..Len(dicts)
    BY <1>1
  <2> QED BY <1>2, <2>1 DEF Contents, EmptyDict
<1> QED BY <1>3

(* So the settings of a task that a step does not touch mean what they did; *)
(* the same is true of the ones below the first n, if those stay.          *)
LEMMA BelowStays ==
    ASSUME IInv, NEW t \in Tasks, ~stale[t], NEW n \in Nat, n <= Len(settings[t]),
           \A i \in 0..Len(dicts) : Contents(i)' = Contents(i),
           Len(tokens) <= Len(tokens)', Len(tokens)' \in Nat,
           \A i \in 1..Len(tokens) : tokens'[i].old = tokens[i].old,
           base'[t] = base[t],
           \A j \in 1..n : settings'[t][j] = settings[t][j]
    PROVE  \A j \in 1..n : settings'[t][j].clear \/ Restores(t, j)'
<1> SUFFICES ASSUME NEW j \in 1..n, ~settings'[t][j].clear PROVE Restores(t, j)'
  OBVIOUS
<1>1. Len(tokens) = Len(dicts) /\ Len(tokens) \in Nat /\ Len(settings[t]) \in Nat
  BY LenProperties DEF IInv, TypeOK
<1> PICK i : i = settings[t][j].token
  OBVIOUS
<1>2. settings'[t][j] = settings[t][j] /\ j \in 1..Len(settings[t])
  BY <1>1
<1>3. i \in 1..Len(tokens) /\ Contents(tokens[i].old) = Value(base[t], settings[t], j - 1)
  BY <1>2 DEF IInv, InForce, Restores
<1> PICK o : o = tokens[i].old
  OBVIOUS
<1>4. tokens'[i].old = o /\ o \in 0..Len(dicts)
  <2>1. tokens[i] \in Tokens /\ tokens[i].old < i
    BY <1>1, <1>3, ElementOfSeq DEF IInv, TypeOK
  <2> QED BY <1>1, <1>3, <2>1 DEF Tokens
<1>5. Contents(tokens[settings[t][j].token].old)' = Contents(o)
  <2>1. Contents(tokens[settings[t][j].token].old)' = Contents(o)'
    BY <1>2, <1>4 DEF Contents, EmptyDict
  <2> QED BY <1>4, <2>1
<1>6. Value(base[t], settings[t], j - 1)' = Value(base[t], settings[t], j - 1)
  <2>1. j - 1 \in Nat /\ \A m \in 1..(j - 1) : settings'[t][m] = settings[t][m]
    OBVIOUS
  <2> PICK from : from = base[t]
    OBVIOUS
  <2> PICK then : then = settings[t]
    OBVIOUS
  <2> PICK now : now = settings'[t]
    OBVIOUS
  <2>2. Value(from, now, j - 1) = Value(from, then, j - 1)
    BY <2>1, ValueAgrees
  <2>3. Value(base[t], settings[t], j - 1)' = Value(from, now, j - 1)
    BY DEF Value, Absent
  <2> QED BY <2>2, <2>3
<1>7. i \in 1..Len(tokens)' /\ (settings[t][j].token)' = i
  BY <1>1, <1>2, <1>3
<1> QED BY <1>3, <1>5, <1>6, <1>7 DEF Restores

LEMMA UntouchedInForce ==
    ASSUME IInv, NEW t \in Tasks,
           \A i \in 0..Len(dicts) : Contents(i)' = Contents(i),
           Len(tokens) <= Len(tokens)', Len(tokens)' \in Nat,
           \A i \in 1..Len(tokens) : tokens'[i].old = tokens[i].old,
           var'[t] = var[t], base'[t] = base[t], settings'[t] = settings[t], stale'[t] = stale[t]
    PROVE  InForce(t)'
<1> SUFFICES ASSUME ~stale[t] PROVE InForce(t)'
  BY DEF InForce
<1> PICK n \in Nat : n = Len(settings[t])
  BY LenProperties DEF IInv, TypeOK
<1>1. \A j \in 1..n : settings'[t][j].clear \/ Restores(t, j)'
  <2>1. n <= Len(settings[t]) /\ \A j \in 1..n : settings'[t][j] = settings[t][j]
    OBVIOUS
  <2> QED BY <2>1, BelowStays
<1>2. Shown(t)' = Shown(t)
  <2> PICK v : v = var[t]
    OBVIOUS
  <2>1. v \in 0..Len(dicts)
    BY DEF IInv, TypeOK
  <2>2. Shown(t)' = Contents(v)' /\ Shown(t) = Contents(v)
    BY DEF Shown, Contents, EmptyDict
  <2> QED BY <2>1, <2>2
<1>3. Value(base[t], settings[t], Len(settings[t]))' = Value(base[t], settings[t], Len(settings[t]))
  BY DEF Value, Absent
<1>4. Shown(t) = Value(base[t], settings[t], Len(settings[t]))
  BY DEF IInv, InForce
<1>5. Len(settings[t])' = n
  OBVIOUS
<1> QED BY <1>1, <1>2, <1>3, <1>4, <1>5 DEF InForce

(* A setting is put on top of the others, with a dict that adds it to what *)
(* t saw.                                                                  *)
OnTop(t, d, e, one) ==
    /\ dicts' = Append(dicts, d) /\ tokens' = Append(tokens, e)
    /\ settings'[t] = Append(settings[t], one) /\ var'[t] = Len(dicts) + 1
    /\ base'[t] = base[t] /\ stale'[t] = stale[t]
    /\ d = [k \in Keys |-> IF one.clear THEN Absent
                           ELSE IF k \in one.keys THEN one.token ELSE Shown(t)[k]]
    /\ one.clear \/ (one.token = Len(dicts) + 1 /\ e.old = var[t])

LEMMA SetOnTop ==
    ASSUME IInv, NEW t \in Tasks, NEW d \in [Keys -> Nat], NEW e \in Tokens, NEW one \in Settings,
           OnTop(t, d, e, one)
    PROVE  InForce(t)'
<1> SUFFICES ASSUME ~stale[t] PROVE InForce(t)'
  BY DEF InForce, OnTop
<1> PICK made \in Nat : made = Len(dicts)
  BY LenProperties DEF IInv, TypeOK
<1> PICK n \in Nat : n = Len(settings[t])
  BY LenProperties DEF IInv, TypeOK
<1>1. /\ dicts \in Seq([Keys -> Nat]) /\ tokens \in Seq(Tokens) /\ Len(tokens) = made
      /\ settings[t] \in Seq(Settings)
  BY DEF IInv, TypeOK
<1>2. /\ Len(tokens)' = made + 1 /\ tokens'[made + 1] = e
      /\ \A i \in 1..made : tokens'[i] = tokens[i]
      /\ dicts'[made + 1] = d
      /\ Len(settings[t])' = n + 1 /\ settings'[t][n + 1] = one
      /\ \A j \in 1..n : settings'[t][j] = settings[t][j]
  BY <1>1, AppendProperties DEF OnTop
<1>3. \A i \in 0..made : Contents(i)' = Contents(i)
  BY DictsStay DEF IInv, OnTop
<1>4. \A j \in 1..n : settings'[t][j].clear \/ Restores(t, j)'
  <2>1. /\ n <= Len(settings[t])
        /\ Len(tokens) <= Len(tokens)' /\ Len(tokens)' \in Nat
        /\ \A i \in 1..Len(tokens) : tokens'[i].old = tokens[i].old
    BY <1>1, <1>2
  <2>2. base'[t] = base[t]
    BY DEF OnTop
  <2> QED BY <1>2, <1>3, <2>1, <2>2, BelowStays
<1> PICK from : from = base[t]
  OBVIOUS
<1> PICK then : then = settings[t]
  OBVIOUS
<1> PICK now : now = settings'[t]
  OBVIOUS
<1>5. Shown(t) = Value(from, then, n)
  BY DEF IInv, InForce
<1>6. Value(from, now, n) = Value(from, then, n)
  <2>1. \A i \in 1..n : now[i] = then[i]
    BY <1>2
  <2> QED BY <2>1, ValueAgrees
<1>7. Shown(t)' = d
  BY <1>2 DEF Shown, Contents, OnTop
<1>8. Value(base[t], settings[t], Len(settings[t]))' = Value(from, now, n + 1)
  BY <1>2 DEF Value, Absent, OnTop
<1>9. Value(from, now, n + 1) = d
  <2> PICK next \in Nat : next = n + 1
    OBVIOUS
  <2>1. ASSUME NEW k \in Keys
        PROVE  Value(from, now, next)[k] =
                  IF now[next].clear THEN Absent
                  ELSE IF k \in now[next].keys THEN now[next].token
                  ELSE Value(from, now, n)[k]
    BY ValueNext
  <2>2. now[next] = one
    BY <1>2
  <2>3. \A k \in Keys : Value(from, now, n + 1)[k] = d[k]
    BY <1>5, <1>6, <2>1, <2>2 DEF OnTop
  <2>4. /\ DOMAIN Value(from, now, n + 1) = Keys
        /\ Value(from, now, n + 1) = [k \in Keys |-> Value(from, now, n + 1)[k]]
    BY DEF Value
  <2>5. DOMAIN d = Keys /\ d = [k \in Keys |-> d[k]]
    OBVIOUS
  <2> QED BY <2>3, <2>4, <2>5
<1>10. one.clear \/ Restores(t, n + 1)'
  <2> SUFFICES ASSUME ~one.clear PROVE Restores(t, n + 1)'
    OBVIOUS
  <2> PICK v \in 0..made : v = var[t]
    BY DEF IInv, TypeOK
  <2>1. (settings[t][n + 1].token)' = made + 1 /\ (tokens[made + 1].old)' = v
    BY <1>2 DEF OnTop
  <2>2. Contents(tokens[settings[t][n + 1].token].old)' = Contents(v)'
    BY <2>1 DEF Contents, EmptyDict
  <2>3. Contents(v) = Value(from, then, n)
    BY <1>5 DEF Shown
  <2>4. Value(base[t], settings[t], (n + 1) - 1)' = Value(from, now, n)
    <3>1. (n + 1) - 1 = n
      OBVIOUS
    <3>2. Value(base[t], settings[t], (n + 1) - 1)' = Value(from, now, (n + 1) - 1)
      BY DEF Value, Absent, OnTop
    <3> QED BY <3>1, <3>2
  <2> QED BY <1>2, <1>3, <1>6, <2>1, <2>2, <2>3, <2>4 DEF Restores
<1>11. \A j \in 1..(n + 1) : settings'[t][j].clear \/ Restores(t, j)'
  BY <1>2, <1>4, <1>10
<1> QED BY <1>2, <1>7, <1>8, <1>9, <1>11 DEF InForce

-----------------------------------------------------------------------------
(* The steps.                                                              *)

(* A task with no setting more, or with a clear setting, has InForce; so   *)
(* steps that leave the context alone keep it.                             *)
LEMMA ContextStays ==
    ASSUME IInv, UNCHANGED <<dicts, tokens, var, base, settings, stale>>
    PROVE  \A t \in Tasks : InForce(t)'
<1>1. Len(tokens) <= Len(tokens)' /\ Len(tokens)' \in Nat
  BY LenProperties DEF IInv, TypeOK
<1>2. \A i \in 0..Len(dicts) : Contents(i)' = Contents(i)
  BY DictsStay DEF IInv
<1>3. ASSUME NEW t \in Tasks PROVE InForce(t)'
  BY <1>1, <1>2, UntouchedInForce
<1> QED BY <1>3

(* A call that makes a dict and a token leaves the other tasks as they were. *)
LEMMA OthersInForce ==
    ASSUME IInv, NEW d, NEW e \in Tokens,
           dicts' = Append(dicts, d), tokens' = Append(tokens, e),
           NEW u \in Tasks,
           var'[u] = var[u], base'[u] = base[u], settings'[u] = settings[u], stale'[u] = stale[u]
    PROVE  InForce(u)'
<1>1. tokens \in Seq(Tokens) /\ Len(tokens) \in Nat
  BY LenProperties DEF IInv, TypeOK
<1>2. /\ Len(tokens) <= Len(tokens)' /\ Len(tokens)' \in Nat
      /\ \A i \in 1..Len(tokens) : tokens'[i].old = tokens[i].old
  BY <1>1, AppendProperties
<1>3. \A i \in 0..Len(dicts) : Contents(i)' = Contents(i)
  BY DictsStay DEF IInv
<1> QED BY <1>2, <1>3, UntouchedInForce

(* The types of what such a call leaves.                                   *)
LEMMA MadeTypes ==
    ASSUME TypeOK, NEW t \in Tasks,
           NEW d \in [Keys -> Nat], NEW e \in Tokens, NEW one \in Settings,
           e.old = 0 \/ e.old = var[t],
           dicts' = Append(dicts, d), tokens' = Append(tokens, e),
           var' = [var EXCEPT ![t] = Len(dicts) + 1],
           settings' = [settings EXCEPT ![t] = Append(@, one)]
    PROVE  /\ dicts' \in Seq([Keys -> Nat])
           /\ tokens' \in Seq(Tokens) /\ Len(tokens') = Len(dicts')
           /\ \A i \in DOMAIN tokens' : tokens'[i].old < i
           /\ var' \in [Tasks -> 0..Len(dicts')]
           /\ settings' \in [Tasks -> Seq(Settings)]
<1> PICK made \in Nat : made = Len(dicts)
  BY LenProperties DEF TypeOK
<1>1. dicts \in Seq([Keys -> Nat]) /\ tokens \in Seq(Tokens) /\ Len(tokens) = made
  BY DEF TypeOK
<1>2. /\ dicts' \in Seq([Keys -> Nat]) /\ Len(dicts') = made + 1
      /\ tokens' \in Seq(Tokens) /\ Len(tokens') = made + 1 /\ tokens'[made + 1] = e
      /\ \A i \in 1..made : tokens'[i] = tokens[i]
  BY <1>1, AppendProperties
<1>3. ASSUME NEW i \in DOMAIN tokens' PROVE tokens'[i].old < i
  <2>1. i \in 1..(made + 1)
    BY <1>2
  <2>2. CASE i = made + 1
    <3>1. e.old \in Nat /\ e.old <= made
      BY DEF TypeOK, Tokens
    <3> QED BY <1>2, <2>2, <3>1
  <2>3. CASE i \in 1..made
    BY <1>1, <1>2, <2>3 DEF TypeOK
  <2> QED BY <2>1, <2>2, <2>3
<1>4. var' \in [Tasks -> 0..Len(dicts')]
  <2>1. made + 1 \in 0..(made + 1) /\ \A u \in Tasks : var[u] \in 0..(made + 1)
    BY DEF TypeOK
  <2> QED BY <1>2, <2>1 DEF TypeOK
<1>5. settings' \in [Tasks -> Seq(Settings)]
  BY AppendProperties DEF TypeOK
<1> QED BY <1>2, <1>3, <1>4, <1>5

LEMMA ClearsOnTop ==
    ASSUME IInv, NEW t \in Tasks, NEW one \in Settings, one.clear => one.token = 0,
           settings' = [settings EXCEPT ![t] = Append(@, one)]
    PROVE  \A u \in Tasks : NoTokenOfClear(u)'
<1> PICK n \in Nat : n = Len(settings[t])
  BY LenProperties DEF IInv, TypeOK
<1>1. settings'[t] = Append(settings[t], one) /\ \A u \in Tasks \ {t} : settings'[u] = settings[u]
  BY DEF IInv, TypeOK
<1>2. settings[t] \in Seq(Settings)
  BY DEF IInv, TypeOK
<1>3. /\ Len(settings'[t]) = n + 1 /\ settings'[t][n + 1] = one
      /\ \A j \in 1..n : settings'[t][j] = settings[t][j]
  BY <1>1, <1>2, AppendProperties
<1>4. ASSUME NEW j \in 1..(n + 1), settings'[t][j].clear PROVE settings'[t][j].token = 0
  <2>1. CASE j = n + 1
    BY <1>3, <1>4, <2>1
  <2>2. CASE j \in 1..n
    BY <1>3, <1>4, <2>2 DEF IInv, NoTokenOfClear
  <2> QED BY <2>1, <2>2
<1>5. NoTokenOfClear(t)'
  BY <1>3, <1>4 DEF NoTokenOfClear
<1>6. ASSUME NEW u \in Tasks \ {t} PROVE NoTokenOfClear(u)'
  BY <1>1 DEF IInv, NoTokenOfClear
<1> QED BY <1>5, <1>6

LEMMA PutStep ==
    ASSUME IInv, NEW t \in alive, NEW keys \in SUBSET Keys, NEW kind \in {"block", "token"},
           Put(t, keys, kind)
    PROVE  IInv'
<1> PICK made \in Nat : made = Len(dicts)
  BY LenProperties DEF IInv, TypeOK
<1> DEFINE d == Merged(t, keys, made + 1)
           e == [task |-> t, old |-> var[t], kind |-> kind, open |-> TRUE]
           one == Setting(keys, made + 1)
<1>1. t \in Tasks
  BY DEF IInv, TypeOK
<1>2. d \in [Keys -> Nat]
  BY <1>1, ShownIsDict DEF Merged, IInv
<1>3. e \in Tokens /\ e.old = var[t]
  BY <1>1 DEF Tokens, IInv, TypeOK
<1>4. one \in Settings /\ ~one.clear /\ one.keys = keys /\ one.token = made + 1
  BY DEF Setting, Settings
<1>5. d = [k \in Keys |-> IF one.clear THEN Absent
                          ELSE IF k \in one.keys THEN one.token ELSE Shown(t)[k]]
  BY <1>4 DEF Merged
<1>6. /\ dicts' = Append(dicts, d) /\ tokens' = Append(tokens, e)
      /\ var' = [var EXCEPT ![t] = made + 1]
      /\ settings' = [settings EXCEPT ![t] = Append(@, one)]
      /\ UNCHANGED <<alive, base, stale, crumbs, said, limit, layer>>
  BY DEF Put, crumbVars, captureVars
<1> HIDE DEF d, e, one
<1>7. TypeOK'
  <2>1. /\ dicts' \in Seq([Keys -> Nat])
        /\ tokens' \in Seq(Tokens) /\ Len(tokens') = Len(dicts')
        /\ \A i \in DOMAIN tokens' : tokens'[i].old < i
        /\ var' \in [Tasks -> 0..Len(dicts')]
        /\ settings' \in [Tasks -> Seq(Settings)]
    BY <1>1, <1>2, <1>3, <1>4, <1>6, MadeTypes DEF IInv
  <2> QED BY <1>6, <2>1 DEF IInv, TypeOK
<1>8. \A u \in Tasks : NoTokenOfClear(u)'
  BY <1>1, <1>4, <1>6, ClearsOnTop
<1>9. \A u \in Tasks \ alive' : Unborn(u)'
  BY <1>6 DEF IInv, TypeOK, Unborn, EmptyDict, Absent
<1>10. ASSUME NEW u \in Tasks PROVE InForce(u)'
  <2>1. CASE u = t
    <3>1. OnTop(t, d, e, one)
      BY <1>1, <1>3, <1>4, <1>5, <1>6 DEF OnTop, IInv, TypeOK
    <3> QED BY <1>1, <1>2, <1>3, <1>4, <2>1, <3>1, SetOnTop
  <2>2. CASE u # t
    <3>1. /\ var'[u] = var[u] /\ base'[u] = base[u]
          /\ settings'[u] = settings[u] /\ stale'[u] = stale[u]
      BY <1>6, <2>2 DEF IInv, TypeOK
    <3> QED BY <1>3, <1>6, <3>1, OthersInForce
  <2> QED BY <2>1, <2>2
<1>11. \A u \in Tasks : Newest(crumbs[u], said[u])'
  BY <1>6 DEF IInv, Newest
<1> QED BY <1>7, <1>8, <1>9, <1>10, <1>11 DEF IInv

LEMMA ClearStep ==
    ASSUME IInv, NEW t \in alive, Clear(t)
    PROVE  IInv'
<1> PICK made \in Nat : made = Len(dicts)
  BY LenProperties DEF IInv, TypeOK
<1> DEFINE e == [task |-> t, old |-> 0, kind |-> "none", open |-> FALSE]
<1>1. t \in Tasks
  BY DEF IInv, TypeOK
<1>2. EmptyDict \in [Keys -> Nat]
  BY <1>1, ShownIsDict DEF IInv
<1>3. e \in Tokens /\ e.old = 0
  BY <1>1 DEF Tokens
<1>4. Clearing \in Settings /\ Clearing.clear /\ Clearing.token = 0
  BY DEF Clearing, Settings
<1>5. /\ dicts' = Append(dicts, EmptyDict) /\ tokens' = Append(tokens, e)
      /\ var' = [var EXCEPT ![t] = made + 1]
      /\ settings' = [settings EXCEPT ![t] = Append(@, Clearing)]
      /\ crumbs' = [crumbs EXCEPT ![t] = <<>>] /\ said' = [said EXCEPT ![t] = <<>>]
      /\ UNCHANGED <<alive, base, stale, limit, layer>>
  BY DEF Clear, captureVars
<1> HIDE DEF e
<1>6. TypeOK'
  <2>1. /\ dicts' \in Seq([Keys -> Nat])
        /\ tokens' \in Seq(Tokens) /\ Len(tokens') = Len(dicts')
        /\ \A i \in DOMAIN tokens' : tokens'[i].old < i
        /\ var' \in [Tasks -> 0..Len(dicts')]
        /\ settings' \in [Tasks -> Seq(Settings)]
    BY <1>1, <1>2, <1>3, <1>4, <1>5, MadeTypes DEF IInv
  <2>2. crumbs' \in [Tasks -> Seq(Crumbs)] /\ said' \in [Tasks -> Seq(Crumbs)]
    BY <1>5 DEF IInv, TypeOK
  <2>3. \A u \in Tasks : \E n \in Limits : Len(crumbs'[u]) <= n
    <3> PICK n \in Limits : n \in Nat
      BY ContextAssumption
    <3>1. \A u \in Tasks \ {t} : crumbs'[u] = crumbs[u]
      BY <1>5 DEF IInv, TypeOK
    <3>2. crumbs'[t] = <<>>
      BY <1>1, <1>5 DEF IInv, TypeOK
    <3>3. Len(crumbs'[t]) <= n
      BY <3>2
    <3> QED BY <3>1, <3>3 DEF IInv, TypeOK
  <2> QED BY <1>5, <2>1, <2>2, <2>3 DEF IInv, TypeOK
<1>7. \A u \in Tasks : NoTokenOfClear(u)'
  BY <1>1, <1>4, <1>5, ClearsOnTop
<1>8. \A u \in Tasks \ alive' : Unborn(u)'
  BY <1>5 DEF IInv, TypeOK, Unborn, EmptyDict, Absent
<1>9. ASSUME NEW u \in Tasks PROVE InForce(u)'
  <2>1. CASE u = t
    <3>1. EmptyDict = [k \in Keys |-> IF Clearing.clear THEN Absent
                          ELSE IF k \in Clearing.keys THEN Clearing.token ELSE Shown(t)[k]]
      BY <1>4 DEF EmptyDict
    <3>2. OnTop(t, EmptyDict, e, Clearing)
      BY <1>1, <1>3, <1>4, <1>5, <3>1 DEF OnTop, IInv, TypeOK
    <3> QED BY <1>1, <1>2, <1>3, <1>4, <2>1, <3>2, SetOnTop
  <2>2. CASE u # t
    <3>1. /\ var'[u] = var[u] /\ base'[u] = base[u]
          /\ settings'[u] = settings[u] /\ stale'[u] = stale[u]
      BY <1>5, <2>2 DEF IInv, TypeOK
    <3> QED BY <1>3, <1>5, <3>1, OthersInForce
  <2> QED BY <2>1, <2>2
<1>10. ASSUME NEW u \in Tasks PROVE Newest(crumbs[u], said[u])'
  <2>1. CASE u = t
    <3>1. crumbs'[t] = <<>> /\ said'[t] = <<>>
      BY <1>1, <1>5 DEF IInv, TypeOK
    <3> QED BY <2>1, <3>1, NothingNewer
  <2>2. CASE u # t
    BY <1>5, <2>2 DEF IInv, TypeOK
  <2> QED BY <2>1, <2>2
<1> QED BY <1>6, <1>7, <1>8, <1>9, <1>10 DEF IInv

LEMMA BreadcrumbStep ==
    ASSUME IInv, NEW t \in alive, Breadcrumb(t)
    PROVE  IInv'
<1> DEFINE item == [task |-> t, n |-> Len(said[t]) + 1, limit |-> limit]
<1>1. t \in Tasks /\ crumbs[t] \in Seq(Crumbs) /\ said[t] \in Seq(Crumbs)
  BY DEF IInv, TypeOK
<1>2. item \in Crumbs /\ item.limit = limit /\ limit \in Limits /\ item.limit \in Nat \ {0}
  <2>1. limit \in Limits /\ Limits \subseteq Nat \ {0}
    BY ContextAssumption DEF IInv, TypeOK
  <2>2. Len(said[t]) + 1 \in Nat
    BY <1>1, LenProperties
  <2> QED BY <1>1, <2>1, <2>2 DEF Crumbs
<1>3. /\ crumbs' = [crumbs EXCEPT ![t] = Trim(Append(crumbs[t], item), item.limit)]
      /\ said' = [said EXCEPT ![t] = Append(said[t], item)]
      /\ UNCHANGED <<alive, dicts, tokens, var, base, settings, stale, limit, layer>>
  BY DEF Breadcrumb, contextVars, captureVars
<1> HIDE DEF item
<1>4. LET new == Trim(Append(crumbs[t], item), item.limit) IN
      /\ new \in Seq(Crumbs) /\ Len(new) <= item.limit
      /\ Newest(new, Append(said[t], item))
  <2>1. Newest(crumbs[t], said[t])
    BY <1>1 DEF IInv
  <2> QED BY <1>1, <1>2, <2>1, TrimKeepsNewest
<1>5. /\ crumbs'[t] = Trim(Append(crumbs[t], item), item.limit)
      /\ said'[t] = Append(said[t], item)
      /\ \A u \in Tasks \ {t} : crumbs'[u] = crumbs[u] /\ said'[u] = said[u]
  BY <1>1, <1>3 DEF IInv, TypeOK
<1>6. TypeOK'
  <2>1. crumbs' \in [Tasks -> Seq(Crumbs)]
    BY <1>3, <1>4 DEF IInv, TypeOK
  <2>2. said' \in [Tasks -> Seq(Crumbs)]
    <3>1. Append(said[t], item) \in Seq(Crumbs)
      BY <1>1, <1>2, AppendProperties
    <3> QED BY <1>3, <3>1 DEF IInv, TypeOK
  <2>3. \A u \in Tasks : \E n \in Limits : Len(crumbs'[u]) <= n
    BY <1>2, <1>4, <1>5 DEF IInv, TypeOK
  <2> QED BY <1>3, <2>1, <2>2, <2>3 DEF IInv, TypeOK
<1>7. \A u \in Tasks : InForce(u)'
  BY <1>3, ContextStays
<1>8. \A u \in Tasks : Newest(crumbs[u], said[u])'
  BY <1>4, <1>5 DEF IInv
<1>9. \A u \in Tasks \ alive' : Unborn(u)'
  BY <1>3, <1>5 DEF IInv, Unborn, EmptyDict
<1>10. \A u \in Tasks : NoTokenOfClear(u)'
  BY <1>3 DEF IInv, NoTokenOfClear
<1> QED BY <1>6, <1>7, <1>8, <1>9, <1>10 DEF IInv

(* The settings of t from the j-th on end, and the token of that one puts  *)
(* the dict of the settings before it back.                                *)
LEMMA CutInForce ==
    ASSUME IInv, NEW t \in Tasks, ~stale[t],
           NEW j \in 1..Len(settings[t]), ~settings[t][j].clear,
           UNCHANGED <<dicts, base>>,
           Len(tokens)' = Len(tokens),
           \A m \in 1..Len(tokens) : tokens'[m].old = tokens[m].old,
           settings'[t] = SubSeq(settings[t], 1, j - 1),
           var'[t] = tokens[settings[t][j].token].old
    PROVE  InForce(t)'
<1> PICK n \in Nat : n = j - 1
  BY LenProperties DEF IInv, TypeOK
<1>1. settings[t] \in Seq(Settings) /\ Len(settings[t]) \in Nat /\ Len(tokens) \in Nat
  BY LenProperties DEF IInv, TypeOK
<1>2. n <= Len(settings[t]) /\ n = j - 1
  BY <1>1
<1>3. Len(settings'[t]) = n /\ \A m \in 1..n : settings'[t][m] = settings[t][m]
  BY <1>1, <1>2
<1>4. \A m \in 0..Len(dicts) : Contents(m)' = Contents(m)
  BY DictsStay DEF IInv
<1>5. \A m \in 1..n : settings'[t][m].clear \/ Restores(t, m)'
  <2>1. n <= Len(settings[t]) /\ base'[t] = base[t]
    BY <1>2
  <2>2. /\ Len(tokens) <= Len(tokens)' /\ Len(tokens)' \in Nat
        /\ \A m \in 1..Len(tokens) : tokens'[m].old = tokens[m].old
    BY <1>1
  <2>3. \A m \in 1..n : settings'[t][m] = settings[t][m]
    BY <1>3
  <2> QED BY <1>4, <2>1, <2>2, <2>3, BelowStays
<1> PICK o : o = tokens[settings[t][j].token].old
  OBVIOUS
<1> PICK from : from = base[t]
  OBVIOUS
<1> PICK then : then = settings[t]
  OBVIOUS
<1> PICK now : now = settings'[t]
  OBVIOUS
<1>6. Contents(o) = Value(from, then, n)
  BY <1>2 DEF IInv, InForce, Restores
<1>7. Shown(t)' = Contents(o)
  BY DEF Shown, Contents, EmptyDict
<1>8. Value(from, now, n) = Value(from, then, n)
  <2>1. \A m \in 1..n : now[m] = then[m]
    BY <1>3
  <2> QED BY <2>1, ValueAgrees
<1>9. Value(base[t], settings[t], Len(settings[t]))' = Value(from, now, n)
  BY <1>3 DEF Value, Absent
<1> QED BY <1>3, <1>5, <1>6, <1>7, <1>8, <1>9 DEF InForce

LEMMA ResetStep ==
    ASSUME IInv, NEW t \in alive, NEW i \in DOMAIN tokens, Reset(t, i)
    PROVE  IInv'
<1> DEFINE closed == [tokens[i] EXCEPT !.open = FALSE]
           at == {j \in DOMAIN settings[t] : settings[t][j].token = i}
<1> PICK made \in Nat : made = Len(dicts)
  BY LenProperties DEF IInv, TypeOK
<1>1. /\ t \in Tasks /\ tokens \in Seq(Tokens) /\ Len(tokens) = made
      /\ i \in 1..made /\ tokens[i] \in Tokens /\ tokens[i].old < i
  BY ElementOfSeq DEF IInv, TypeOK
<1>2. /\ tokens' = [tokens EXCEPT ![i] = closed] /\ closed \in Tokens /\ closed.old = tokens[i].old
      /\ UNCHANGED <<alive, dicts, base, crumbs, said, limit, layer>>
  BY <1>1 DEF Reset, Tokens, crumbVars, captureVars
<1>3. /\ tokens' \in Seq(Tokens) /\ Len(tokens') = made
      /\ \A m \in 1..made : tokens'[m].old = tokens[m].old
  <2> HIDE DEF closed
  <2>1. tokens' \in Seq(Tokens) /\ Len(tokens') = made
    BY <1>1, <1>2, ExceptSeq
  <2>2. \A m \in 1..made : tokens'[m] = IF m = i THEN closed ELSE tokens[m]
    BY <1>1, <1>2
  <2> QED BY <1>2, <2>1, <2>2
<1>4. \A m \in DOMAIN tokens' : tokens'[m].old < m
  <2> HIDE DEF closed, at
  <2>1. DOMAIN tokens' = 1..made /\ DOMAIN tokens = 1..made
    BY <1>1, <1>3
  <2>2. \A m \in 1..made : tokens[m].old < m
    BY <2>1 DEF IInv, TypeOK
  <2> QED BY <1>3, <2>1, <2>2
<1>5. \A u \in Tasks : Newest(crumbs[u], said[u])'
  BY <1>2 DEF IInv
<1>6. \A m \in 0..made : Contents(m)' = Contents(m)
  BY <1>2, DictsStay DEF IInv
<1>7. ASSUME NEW u \in Tasks,
             var'[u] = var[u], settings'[u] = settings[u], stale'[u] = stale[u]
      PROVE  InForce(u)'
  BY <1>1, <1>2, <1>3, <1>6, <1>7, UntouchedInForce
<1>8. CASE UNCHANGED <<var, settings, stale>>
  <2>1. TypeOK'
    BY <1>2, <1>3, <1>4, <1>8 DEF IInv, TypeOK
  <2>2. \A u \in Tasks \ alive' : Unborn(u)'
    BY <1>2, <1>8 DEF IInv, Unborn, EmptyDict
  <2>3. \A u \in Tasks : NoTokenOfClear(u)'
    BY <1>8 DEF IInv, NoTokenOfClear
  <2>4. \A u \in Tasks : InForce(u)'
    BY <1>7, <1>8
  <2> QED BY <1>5, <2>1, <2>2, <2>3, <2>4 DEF IInv
<1>9. CASE var' = [var EXCEPT ![t] = tokens[i].old] /\ EndSetting(t, i)
  <2>1. var' \in [Tasks -> 0..Len(dicts')] /\ var'[t] = tokens[i].old
        /\ \A u \in Tasks \ {t} : var'[u] = var[u]
    <3>1. tokens[i].old \in 0..made
      BY <1>1 DEF Tokens
    <3> QED BY <1>1, <1>2, <1>9, <3>1 DEF IInv, TypeOK
  <2>2. CASE at = {}
    <3>1. stale' = [stale EXCEPT ![t] = TRUE] /\ UNCHANGED settings
      BY <1>9, <2>2 DEF EndSetting
    <3>2. TypeOK'
      BY <1>2, <1>3, <1>4, <2>1, <3>1 DEF IInv, TypeOK
    <3>3. \A u \in Tasks \ alive' : Unborn(u)'
      BY <1>2, <2>1, <3>1 DEF IInv, TypeOK, Unborn, EmptyDict
    <3>4. \A u \in Tasks : NoTokenOfClear(u)'
      BY <3>1 DEF IInv, NoTokenOfClear
    <3>5. ASSUME NEW u \in Tasks PROVE InForce(u)'
      <4>1. CASE u = t
        BY <1>1, <3>1, <4>1 DEF InForce, IInv, TypeOK
      <4>2. CASE u # t
        BY <1>7, <2>1, <3>1, <4>2 DEF IInv, TypeOK
      <4> QED BY <4>1, <4>2
    <3> QED BY <1>5, <3>2, <3>3, <3>4, <3>5 DEF IInv
  <2>3. CASE at # {}
    <3> DEFINE j == Min(at)
    <3>1. settings[t] \in Seq(Settings) /\ Len(settings[t]) \in Nat
      BY <1>1, LenProperties DEF IInv, TypeOK
    <3>2. j \in 1..Len(settings[t]) /\ settings[t][j].token = i
      <4>1. at \in SUBSET Nat
        BY <3>1
      <4>2. j \in at
        <5> HIDE DEF at
        <5> QED BY <2>3, <4>1, MinOf
      <4> QED BY <3>1, <4>2
    <3>3. /\ settings' = [settings EXCEPT ![t] = SubSeq(@, 1, j - 1)] /\ UNCHANGED stale
      BY <1>9, <2>3 DEF EndSetting
    <3> HIDE DEF j, at
    <3>4. ~settings[t][j].clear
      BY <1>1, <3>2 DEF IInv, NoTokenOfClear
    <3>5. /\ settings'[t] = SubSeq(settings[t], 1, j - 1)
          /\ \A u \in Tasks \ {t} : settings'[u] = settings[u]
      BY <1>1, <3>3 DEF IInv, TypeOK
    <3>6. SubSeq(settings[t], 1, j - 1) \in Seq(Settings)
          /\ Len(SubSeq(settings[t], 1, j - 1)) = j - 1
          /\ \A m \in 1..(j - 1) : SubSeq(settings[t], 1, j - 1)[m] = settings[t][m]
      <4>1. j \in Nat /\ j - 1 \in Nat /\ j - 1 <= Len(settings[t])
        BY <3>1, <3>2
      <4>2. \A m \in 1..(j - 1) : settings[t][m] \in Settings
        BY <3>1, <4>1, ElementOfSeq
      <4> QED BY <3>1, <4>1, <4>2
    <3>7. settings' \in [Tasks -> Seq(Settings)]
      BY <3>3, <3>6 DEF IInv, TypeOK
    <3>8. TypeOK'
      BY <1>2, <1>3, <1>4, <2>1, <3>3, <3>7 DEF IInv, TypeOK
    <3>9. \A u \in Tasks \ alive' : Unborn(u)'
      BY <1>2, <2>1, <3>3, <3>5 DEF IInv, TypeOK, Unborn, EmptyDict
    <3>10. ASSUME NEW u \in Tasks PROVE NoTokenOfClear(u)'
      <4>1. CASE u = t
        <5>1. \A m \in 1..(j - 1) : m \in 1..Len(settings[t])
          BY <3>1, <3>2
        <5>2. \A m \in 1..(j - 1) : settings[t][m].clear => settings[t][m].token = 0
          BY <1>1, <5>1 DEF IInv, NoTokenOfClear
        <5>3. /\ Len(settings'[t]) = j - 1
              /\ \A m \in 1..(j - 1) : settings'[t][m] = settings[t][m]
          BY <3>5, <3>6
        <5> QED BY <4>1, <5>2, <5>3 DEF NoTokenOfClear
      <4>2. CASE u # t
        BY <3>5, <4>2 DEF IInv, NoTokenOfClear
      <4> QED BY <4>1, <4>2
    <3>11. ASSUME NEW u \in Tasks PROVE InForce(u)'
      <4>1. CASE u = t /\ stale[t]
        BY <3>3, <4>1 DEF InForce
      <4>2. CASE u = t /\ ~stale[t]
        BY <1>1, <1>2, <1>3, <2>1, <3>2, <3>4, <3>5, <4>2, CutInForce
      <4>3. CASE u # t
        BY <1>7, <2>1, <3>3, <3>5, <4>3
      <4> QED BY <4>1, <4>2, <4>3
    <3> QED BY <1>5, <3>8, <3>9, <3>10, <3>11 DEF IInv
  <2> QED BY <2>2, <2>3
<1> QED BY <1>8, <1>9 DEF Reset

LEMMA SpawnStep ==
    ASSUME IInv, NEW t \in alive, NEW child \in Tasks, NEW copied \in BOOLEAN,
           Spawn(t, child, copied)
    PROVE  IInv'
<1>1. t \in Tasks /\ t # child /\ Unborn(child)
  BY DEF Spawn, IInv, TypeOK
<1>2. alive' = alive \cup {child} /\ UNCHANGED <<dicts, tokens, settings, stale, limit, layer>>
  BY DEF Spawn, captureVars
<1>3. \A u \in Tasks : NoTokenOfClear(u)'
  BY <1>2 DEF IInv, NoTokenOfClear
<1>4. CASE UNCHANGED <<var, base, crumbs, said>>
  <2>1. TypeOK'
    BY <1>2, <1>4 DEF IInv, TypeOK
  <2>2. \A u \in Tasks \ alive' : Unborn(u)'
    BY <1>2, <1>4 DEF IInv, Unborn, EmptyDict
  <2>3. \A u \in Tasks : InForce(u)'
    BY <1>2, <1>4, ContextStays
  <2>4. \A u \in Tasks : Newest(crumbs[u], said[u])'
    BY <1>4 DEF IInv
  <2> QED BY <1>3, <2>1, <2>2, <2>3, <2>4 DEF IInv
<1>5. CASE /\ var' = [var EXCEPT ![child] = var[t]]
           /\ base' = [base EXCEPT ![child] = Shown(t)]
           /\ crumbs' = [crumbs EXCEPT ![child] = crumbs[t]]
           /\ said' = [said EXCEPT ![child] = said[t]]
  <2>1. Shown(t) \in [Keys -> Nat]
    BY <1>1, ShownIsDict DEF IInv
  <2>2. /\ var'[child] = var[t] /\ base'[child] = Shown(t)
        /\ crumbs'[child] = crumbs[t] /\ said'[child] = said[t]
        /\ \A u \in Tasks \ {child} : /\ var'[u] = var[u] /\ base'[u] = base[u]
                                      /\ crumbs'[u] = crumbs[u] /\ said'[u] = said[u]
    BY <1>5 DEF IInv, TypeOK
  <2>3. TypeOK'
    <3>1. var' \in [Tasks -> 0..Len(dicts')] /\ base' \in [Tasks -> [Keys -> Nat]]
      BY <1>1, <1>2, <1>5, <2>1 DEF IInv, TypeOK
    <3>2. crumbs' \in [Tasks -> Seq(Crumbs)] /\ said' \in [Tasks -> Seq(Crumbs)]
      BY <1>1, <1>5 DEF IInv, TypeOK
    <3>3. \A u \in Tasks : \E n \in Limits : Len(crumbs'[u]) <= n
      BY <1>1, <2>2 DEF IInv, TypeOK
    <3> QED BY <1>2, <3>1, <3>2, <3>3 DEF IInv, TypeOK
  <2>4. \A u \in Tasks \ alive' : Unborn(u)'
    BY <1>2, <2>2 DEF IInv, Unborn, EmptyDict
  <2>5. ASSUME NEW u \in Tasks PROVE InForce(u)'
    <3>1. CASE u = child
      <4>1. settings'[child] = <<>> /\ Len(<<>>) = 0
        BY <1>1, <1>2 DEF Unborn
      <4> PICK from \in [Keys -> Nat] : from = Shown(t)
        BY <2>1
      <4>2. Shown(child)' = from
        BY <1>2, <2>2 DEF Shown, Contents, EmptyDict
      <4>3. Value(from, <<>>, 0) = from
        BY DEF Value
      <4>4. Value(base[child], settings[child], Len(settings[child]))' = Value(from, <<>>, 0)
        BY <2>2, <4>1 DEF Value, Absent
      <4>5. \A j \in 1..Len(settings'[child]) : FALSE
        BY <4>1
      <4> QED BY <3>1, <4>2, <4>3, <4>4, <4>5 DEF InForce
    <3>2. CASE u # child
      <4>1. /\ var'[u] = var[u] /\ base'[u] = base[u]
            /\ settings'[u] = settings[u] /\ stale'[u] = stale[u]
        BY <1>2, <2>2, <3>2
      <4>2. Len(tokens) <= Len(tokens)' /\ Len(tokens)' \in Nat
            /\ \A i \in 1..Len(tokens) : tokens'[i].old = tokens[i].old
        BY <1>2, LenProperties DEF IInv, TypeOK
      <4>3. \A i \in 0..Len(dicts) : Contents(i)' = Contents(i)
        BY <1>2, DictsStay DEF IInv
      <4> QED BY <4>1, <4>2, <4>3, UntouchedInForce
    <3> QED BY <3>1, <3>2
  <2>6. \A u \in Tasks : Newest(crumbs[u], said[u])'
    BY <1>1, <2>2 DEF IInv
  <2> QED BY <1>3, <2>3, <2>4, <2>5, <2>6 DEF IInv
<1> QED BY <1>4, <1>5 DEF Spawn

(* Configure, Call and Leave.                                              *)
LEMMA LimitStep ==
    ASSUME IInv, UNCHANGED <<alive, contextVars, crumbVars>>,
           limit' \in Limits, layer' \in [Tasks -> Limits \cup {0}]
    PROVE  IInv'
<1>1. UNCHANGED <<alive, dicts, tokens, var, base, settings, stale, crumbs, said>>
  BY DEF contextVars, crumbVars
<1>2. TypeOK'
  BY <1>1 DEF IInv, TypeOK
<1>3. \A t \in Tasks : InForce(t)'
  BY <1>1, ContextStays
<1>4. \A t \in Tasks : NoTokenOfClear(t)' /\ Newest(crumbs[t], said[t])'
  BY <1>1 DEF IInv, NoTokenOfClear
<1>5. \A t \in Tasks \ alive' : Unborn(t)'
  BY <1>1 DEF IInv, Unborn, EmptyDict
<1> QED BY <1>2, <1>3, <1>4, <1>5 DEF IInv

LEMMA InitIInv == Init => IInv
<1> SUFFICES ASSUME Init PROVE IInv
  OBVIOUS
<1>1. EmptyDict \in [Keys -> Nat]
  BY DEF EmptyDict, Absent
<1>2. TypeOK
  <2>1. <<>> \in Seq([Keys -> Nat]) /\ <<>> \in Seq(Tokens) /\ <<>> \in Seq(Crumbs)
        /\ <<>> \in Seq(Settings) /\ Len(<<>>) = 0
    OBVIOUS
  <2>2. \A t \in Tasks : \E n \in Limits : Len(crumbs[t]) <= n
    <3> PICK n \in Limits : n \in Nat
      BY ContextAssumption
    <3> QED BY <2>1 DEF Init
  <2> QED BY <1>1, <2>1, <2>2, ContextAssumption DEF Init, TypeOK
<1>3. \A t \in Tasks : Unborn(t)
  BY DEF Init, Unborn
<1>4. ASSUME NEW t \in Tasks PROVE NoTokenOfClear(t)
  BY DEF Init, NoTokenOfClear
<1>5. ASSUME NEW t \in Tasks PROVE InForce(t)
  <2> PICK from \in [Keys -> Nat] : from = EmptyDict
    BY <1>1
  <2>1. Value(from, <<>>, 0) = from
    BY DEF Value
  <2>2. settings[t] = <<>> /\ base[t] = from /\ Shown(t) = from
    BY DEF Init, Shown, Contents
  <2> QED BY <2>1, <2>2 DEF InForce
<1>6. ASSUME NEW t \in Tasks PROVE Newest(crumbs[t], said[t])
  BY NothingNewer DEF Init
<1> QED BY <1>2, <1>3, <1>4, <1>5, <1>6 DEF IInv

LEMMA NextIInv == IInv /\ [Next]_vars => IInv'
<1> SUFFICES ASSUME IInv, [Next]_vars PROVE IInv'
  OBVIOUS
<1>1. ASSUME NEW n \in Limits \ {limit}, Configure(n) PROVE IInv'
  BY <1>1, LimitStep DEF Configure, IInv, TypeOK
<1>2. ASSUME NEW t \in alive, Call(t) PROVE IInv'
  BY <1>2, LimitStep DEF Call, IInv, TypeOK
<1>3. ASSUME NEW t \in alive, Leave(t) PROVE IInv'
  BY <1>3, LimitStep DEF Leave, IInv, TypeOK
<1>4. ASSUME NEW t \in alive, NEW keys \in SUBSET Keys \ {{}}, EnterBlock(t, keys) PROVE IInv'
  BY <1>4, PutStep DEF EnterBlock
<1>5. ASSUME NEW t \in alive, NEW k \in Keys, SetContext(t, k) PROVE IInv'
  <2>1. {k} \in SUBSET Keys
    OBVIOUS
  <2> QED BY <1>5, <2>1, PutStep DEF SetContext
<1>6. CASE UNCHANGED vars
  BY <1>6, LimitStep DEF vars, captureVars, IInv, TypeOK
<1> QED
  BY <1>1, <1>2, <1>3, <1>4, <1>5, <1>6, SpawnStep, ResetStep, ClearStep, BreadcrumbStep DEF Next

LEMMA Inductive == Spec => []IInv
BY InitIInv, NextIInv, PTL DEF Spec

-----------------------------------------------------------------------------
(* The theorems.                                                           *)

(* Every variable keeps its type, references go back in time, and no task  *)
(* has more breadcrumbs than some limit allows, whatever configure sets.   *)
THEOREM Typing == Spec => []TypeOK
<1>1. IInv => TypeOK
  BY DEF IInv
<1> QED BY Inductive, <1>1, PTL

(* However blocks, tokens and clears of context.py nest and are skipped, a *)
(* task sees the sum of its settings in force.                             *)
THEOREM ContextIsScoped == Spec => []Scoped
<1>1. IInv => Scoped
  <2> SUFFICES ASSUME IInv, NEW t \in alive, ~stale[t] PROVE Shown(t) = Meaning(t)
    BY DEF Scoped
  <2>1. t \in Tasks
    BY DEF IInv, TypeOK
  <2>2. Shown(t) = Value(base[t], settings[t], Len(settings[t]))
    BY <2>1 DEF IInv, InForce
  <2>3. settings[t] \in Seq(Settings)
    BY <2>1 DEF IInv, TypeOK
  <2>4. DOMAIN settings[t] = 1..Len(settings[t])
    BY <2>3, LenProperties
  <2>5. Meaning(t) = Value(base[t], settings[t], Len(settings[t]))
    BY <2>4 DEF Meaning, Value
  <2> QED BY <2>2, <2>5
<1> QED BY Inductive, <1>1, PTL

(* add_breadcrumb leaves a task the newest of its breadcrumbs, and drops   *)
(* none before a limit it has met is reached.                              *)
THEOREM NewestAreKept == Spec => []CrumbsAreNewest
<1>1. IInv => CrumbsAreNewest
  <2> SUFFICES ASSUME IInv, NEW t \in Tasks
               PROVE  /\ IsSuffix(crumbs[t], said[t])
                      /\ crumbs[t] # said[t] =>
                            Len(crumbs[t]) >= Min({c.limit : c \in Range(said[t])})
    BY DEF CrumbsAreNewest
  <2>1. Newest(crumbs[t], said[t])
    BY DEF IInv
  <2> DEFINE met == {c.limit : c \in Range(said[t])}
  <2>2. ASSUME crumbs[t] # said[t] PROVE Len(crumbs[t]) >= Min(met)
    <3> PICK kept \in Nat : kept = Len(crumbs[t])
      BY LenProperties DEF IInv, TypeOK
    <3>1. PICK i \in 1..Len(said[t]) : said[t][i].limit <= kept
      BY <2>1, <2>2 DEF Newest
    <3>2. said[t] \in Seq(Crumbs)
      BY DEF IInv, TypeOK
    <3>3. \A j \in DOMAIN said[t] : said[t][j].limit \in Nat
      <4>1. \A j \in DOMAIN said[t] : said[t][j] \in Crumbs
        BY <3>2, ElementOfSeq, LenProperties
      <4> QED BY <4>1, ContextAssumption DEF Crumbs
    <3>4. met \in SUBSET Nat
      BY <3>3 DEF Range
    <3>5. i \in DOMAIN said[t] /\ said[t][i].limit \in met
      BY <3>2, LenProperties DEF Range
    <3> PICK l \in Nat : l = said[t][i].limit
      BY <3>3, <3>5
    <3>6. l \in met /\ l <= kept
      BY <3>1, <3>5
    <3> HIDE DEF met
    <3>7. Min(met) \in Nat /\ Min(met) <= l
      BY <3>4, <3>6, MinOf
    <3> PICK least \in Nat : least = Min(met)
      BY <3>7
    <3> QED BY <3>6, <3>7
  <2> QED BY <2>1, <2>2 DEF Newest
<1> QED BY Inductive, <1>1, PTL

(* A capture, which takes the first breadcrumbs by the configuration of    *)
(* its layer, leaves out the newest only if that was kept under a higher   *)
(* limit than the layer's.                                                 *)
THEOREM CapturedWithNewest == Spec => []CaptureTakesNewest
<1>1. IInv => CaptureTakesNewest
  <2> SUFFICES ASSUME IInv, NEW t \in Tasks, layer[t] # 0, said[t] # <<>>,
                      ~(Last(said[t]).limit > layer[t])
               PROVE  Taken(t) # <<>> /\ Last(Taken(t)) = Last(said[t])
    BY DEF CaptureTakesNewest
  <2>1. Newest(crumbs[t], said[t]) /\ crumbs[t] \in Seq(Crumbs) /\ said[t] \in Seq(Crumbs)
    BY DEF IInv, TypeOK
  <2> PICK n \in Nat : n = Len(crumbs[t])
    BY <2>1, LenProperties
  <2> PICK total \in Nat : total = Len(said[t])
    BY <2>1, LenProperties
  <2> PICK most \in Nat : most = layer[t]
    BY ContextAssumption DEF IInv, TypeOK
  <2> PICK last \in Nat : last = Last(said[t]).limit
    <3>1. total # 0
      BY <2>1, EmptySeq
    <3>2. said[t][total] \in Crumbs
      BY <2>1, <3>1, ElementOfSeq
    <3> QED BY <3>2, ContextAssumption DEF Last, Crumbs
  <2>2. n <= most
    <3>1. n <= last
      BY <2>1 DEF Newest
    <3>2. ~(last > most)
      OBVIOUS
    <3> QED BY <3>1, <3>2
  <2>3. n # 0 /\ crumbs[t] # <<>>
    BY <2>1, EmptySeq DEF Newest
  <2>4. Min({layer[t], Len(crumbs[t])}) = n
    <3>1. {most, n} \in SUBSET Nat /\ {most, n} # {}
      OBVIOUS
    <3>2. Min({most, n}) \in {most, n} /\ Min({most, n}) <= n
      BY <3>1, MinOf
    <3> PICK least \in Nat : least = Min({most, n})
      BY <3>2
    <3>3. least = n
      BY <2>2, <3>2
    <3> QED BY <3>3
  <2>5. Taken(t) = crumbs[t]
    <3>1. SubSeq(crumbs[t], 1, Len(crumbs[t])) = crumbs[t]
      BY <2>1, SubSeqFull
    <3> QED BY <2>4, <3>1 DEF Taken
  <2>6. crumbs[t][n] = said[t][total]
    <3>1. /\ Len(crumbs[t]) <= Len(said[t])
          /\ \A i \in 1..Len(crumbs[t]) :
                crumbs[t][i] = said[t][Len(said[t]) - Len(crumbs[t]) + i]
      BY <2>1, SuffixIs DEF Newest
    <3>2. n \in 1..n /\ total - n + n = total
      BY <2>3
    <3> QED BY <3>1, <3>2
  <2> QED BY <2>3, <2>5, <2>6 DEF Last
<1> QED BY Inductive, <1>1, PTL

(* "Context uses contextvars and stays isolated across async tasks": a step *)
(* changes what at most one running task sees.                             *)
THEOREM ContextIsIsolated == Spec => Isolated
<1> DEFINE changed == {t \in alive : Shown(t)' # Shown(t) \/ crumbs'[t] # crumbs[t]}
<1>1. ASSUME IInv, [Next]_vars PROVE Cardinality(changed) <= 1
  <2> SUFFICES \E u : changed \subseteq {u}
    <3> PICK u : changed \subseteq {u}
      OBVIOUS
    <3>1. IsFiniteSet({u}) /\ Cardinality({u}) = 1
      BY FS_Singleton
    <3> HIDE DEF changed
    <3>2. Cardinality(changed) <= Cardinality({u})
      BY <3>1, FS_Subset
    <3> QED BY <3>1, <3>2
  <2>1. alive \subseteq Tasks /\ \A v \in Tasks : var[v] \in 0..Len(dicts)
    BY <1>1 DEF IInv, TypeOK
  <2>2. ASSUME NEW d, dicts' = Append(dicts, d) \/ UNCHANGED dicts,
               NEW v \in alive, var'[v] = var[v]
        PROVE  Shown(v)' = Shown(v)
    <3> PICK i : i = var[v]
      OBVIOUS
    <3>1. Contents(i)' = Contents(i)
      BY <1>1, <2>1, <2>2, DictsStay DEF IInv
    <3>2. Shown(v)' = Contents(i)' /\ Shown(v) = Contents(i)
      BY <2>2 DEF Shown, Contents, EmptyDict
    <3> QED BY <3>1, <3>2
  <2>3. ASSUME UNCHANGED <<dicts, var, crumbs>> PROVE changed = {}
    BY <2>2, <2>3
  <2>4. ASSUME NEW t \in alive, NEW d, dicts' = Append(dicts, d) \/ UNCHANGED dicts,
               \A v \in Tasks \ {t} : var'[v] = var[v] /\ crumbs'[v] = crumbs[v]
        PROVE  changed \subseteq {t}
    BY <2>1, <2>2, <2>4
  <2>5. ASSUME NEW t \in alive, NEW keys, NEW kind, Put(t, keys, kind)
        PROVE  changed \subseteq {t}
    BY <1>1, <2>4, <2>5 DEF Put, IInv, TypeOK, crumbVars
  <2>6. ASSUME NEW t \in alive, NEW i, Reset(t, i) PROVE changed \subseteq {t}
    BY <1>1, <2>4, <2>6 DEF Reset, IInv, TypeOK, crumbVars
  <2>7. ASSUME NEW t \in alive, Clear(t) PROVE changed \subseteq {t}
    BY <1>1, <2>4, <2>7 DEF Clear, IInv, TypeOK
  <2>8. ASSUME NEW t \in alive, Breadcrumb(t) PROVE changed \subseteq {t}
    BY <1>1, <2>4, <2>8 DEF Breadcrumb, IInv, TypeOK, contextVars
  <2>9. ASSUME NEW t \in alive, NEW child \in Tasks, NEW copied, Spawn(t, child, copied)
        PROVE  changed = {}
    <3>1. \A v \in alive : var'[v] = var[v] /\ crumbs'[v] = crumbs[v]
      BY <1>1, <2>9 DEF Spawn, IInv, TypeOK
    <3>2. UNCHANGED dicts
      BY <2>9 DEF Spawn
    <3> QED BY <2>2, <3>1, <3>2
  <2>10. ASSUME UNCHANGED <<contextVars, crumbVars>> PROVE changed = {}
    BY <2>3, <2>10 DEF contextVars, crumbVars
  <2>11. CASE UNCHANGED vars
    BY <2>10, <2>11 DEF vars
  <2>12. CASE Next
    BY <2>5, <2>6, <2>7, <2>8, <2>9, <2>10, <2>12
       DEF Next, Configure, Call, Leave, EnterBlock, SetContext
  <2> QED BY <1>1, <2>11, <2>12
<1>2. IInv /\ [Next]_vars => [Cardinality(changed) <= 1]_vars
  BY <1>1
<1> QED BY Inductive, <1>2, PTL DEF Isolated, Spec

===============================================================================
