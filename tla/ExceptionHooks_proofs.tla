------------------------ MODULE ExceptionHooks_proofs ------------------------
(***************************************************************************)
(* Proofs about ExceptionHooks for any loops, exceptions and number of     *)
(* changes the program makes.  That an exception is captured at most once  *)
(* is a matter of what all hooks are made of: IInv says where TraceSeed's  *)
(* hook can be, in the slots, in what was saved of them, in what the       *)
(* program holds and in what is left of a chain that is being called.      *)
(***************************************************************************)
EXTENDS ExceptionHooks, SequenceTheorems, TLAPS

(* TraceSeed's hook is not part of a chain, or is at one place in it only. *)
Clean(hook) == \A i \in DOMAIN hook : hook[i] # "traceseed"

Once(hook) ==
    \A i, j \in DOMAIN hook : hook[i] = "traceseed" /\ hook[j] = "traceseed" => i = j

(* What may be in slot k: the hook once while it is installed, else never. *)
Fits(k, hook) == IF installed[Group(k)] THEN Once(hook) ELSE Clean(hook)

(* No hook that was taken before an install or uninstall has been put back *)
(* into slot k.                                                            *)
Untouched(k) == "revived" \notin touched[k]

SlotInv(k) == Untouched(k) => Fits(k, current[k]) /\ Clean(saved[k])

HeldInv ==
    held.slot # "none" /\ ~held.stale /\ Untouched(held.slot) => Fits(held.slot, held.hook)

(* What of a chain is still to be called, while it may and while it may    *)
(* not capture any more; and that an Exception has been or is about to be  *)
(* captured if it should be.                                               *)
MayCapture(h) ==
    ~h.revived =>
        /\ h.captures <= (IF h.live THEN 1 ELSE 0)
        /\ h.step = "run" => IF h.live /\ h.captures = 0 THEN Once(h.todo) ELSE Clean(h.todo)

Captured(h) ==
    /\ h.kind = "base" => h.captures = 0
    /\ h.kind = "app" /\ h.live /\ h.clean /\ h.captures = 0 =>
           h.step \in {"none", "run"} /\ (h.step = "run" => h.todo # <<>> /\ Head(h.todo) = "traceseed")

IInv ==
    /\ TypeOK
    /\ \A k \in Slots : SlotInv(k)
    /\ HeldInv
    /\ \A x \in Exceptions : MayCapture(handling[x])
    /\ InstalledIsFirst
    /\ \A x \in Exceptions : Captured(handling[x])

-----------------------------------------------------------------------------
(* Chains.                                                                 *)

Parts == {"traceseed", "wrapper", "app"}

LEMMA ShortChains ==
    /\ <<>> \in Hooks /\ Clean(<<>>) /\ Once(<<>>)
    /\ <<"app">> \in Hooks /\ Clean(<<"app">>) /\ Once(<<"app">>)
BY DEF Hooks, Clean, Once

LEMMA CleanIsOnce == ASSUME NEW hook, Clean(hook) PROVE Once(hook)
BY DEF Clean, Once

(* A hook that calls the one it found. *)
LEMMA PutInFront ==
    ASSUME NEW hook \in Hooks, NEW part \in Parts
    PROVE  LET chain == <<part>> \o hook IN
           /\ chain \in Hooks /\ chain # <<>> /\ Head(chain) = part
           /\ Clean(hook) => Once(chain)
           /\ part # "traceseed" => (Clean(hook) => Clean(chain)) /\ (Once(hook) => Once(chain))
<1> DEFINE chain == <<part>> \o hook
<1>1. <<part>> \in Seq(Parts) /\ hook \in Seq(Parts) /\ Len(<<part>>) = 1 /\ <<part>>[1] = part
  BY DEF Hooks, Parts
<1>2. /\ chain \in Seq(Parts) /\ Len(chain) = 1 + Len(hook)
      /\ \A i \in 1..(1 + Len(hook)) : chain[i] = IF i <= 1 THEN <<part>>[i] ELSE hook[i - 1]
  BY <1>1, ConcatProperties
<1>3. DOMAIN chain = 1..(1 + Len(hook)) /\ DOMAIN hook = 1..Len(hook) /\ Len(hook) \in Nat
  BY <1>1, <1>2, LenProperties
<1> HIDE DEF chain
<1>4. chain[1] = part /\ \A i \in DOMAIN chain \ {1} : i - 1 \in DOMAIN hook /\ chain[i] = hook[i - 1]
  BY <1>1, <1>2, <1>3
<1>5. chain # <<>> /\ Head(chain) = part
  BY <1>2, <1>3, <1>4
<1>6. Clean(hook) => Once(chain)
  BY <1>3, <1>4 DEF Clean, Once
<1>7. part # "traceseed" => (Clean(hook) => Clean(chain))
  BY <1>3, <1>4 DEF Clean
<1>8. ASSUME part # "traceseed", Once(hook) PROVE Once(chain)
  <2> SUFFICES ASSUME NEW i \in DOMAIN chain, NEW j \in DOMAIN chain,
                      chain[i] = "traceseed", chain[j] = "traceseed"
               PROVE  i = j
    BY DEF Once
  <2>1. i # 1 /\ j # 1
    BY <1>4, <1>8
  <2>2. i - 1 = j - 1
    BY <1>4, <1>8, <2>1 DEF Once
  <2> QED BY <1>3, <2>2
<1> QED BY <1>2, <1>5, <1>6, <1>7, <1>8 DEF chain, Hooks, Parts

(* What is left of a chain when its first hook calls the next one. *)
LEMMA CallNext ==
    ASSUME NEW hook \in Hooks, hook # <<>>
    PROVE  /\ Tail(hook) \in Hooks
           /\ Clean(hook) => Clean(Tail(hook)) /\ Head(hook) # "traceseed"
           /\ Once(hook) => Once(Tail(hook)) /\ (Head(hook) = "traceseed" => Clean(Tail(hook)))
<1>1. /\ hook \in Seq(Parts) /\ DOMAIN hook = 1..Len(hook) /\ Len(hook) \in Nat
      /\ Tail(hook) \in Seq(Parts) /\ Len(Tail(hook)) = Len(hook) - 1
      /\ \A i \in 1..Len(Tail(hook)) : Tail(hook)[i] = hook[i + 1]
      /\ DOMAIN Tail(hook) = 1..Len(Tail(hook))
  BY HeadTailProperties, LenProperties DEF Hooks, Parts
<1>2. 1 \in DOMAIN hook /\ Head(hook) = hook[1]
  BY <1>1
<1>3. \A i \in DOMAIN Tail(hook) : i + 1 \in DOMAIN hook /\ i + 1 # 1 /\ Tail(hook)[i] = hook[i + 1]
  BY <1>1
<1>4. \A i, j \in DOMAIN Tail(hook) : i + 1 = j + 1 => i = j
  BY <1>1
<1>5. Clean(hook) => Clean(Tail(hook)) /\ Head(hook) # "traceseed"
  BY <1>2, <1>3 DEF Clean
<1>6. Once(hook) => Once(Tail(hook)) /\ (Head(hook) = "traceseed" => Clean(Tail(hook)))
  BY <1>2, <1>3, <1>4 DEF Clean, Once
<1> QED BY <1>1, <1>5, <1>6 DEF Hooks, Parts

LEMMA GroupType ==
    /\ \A k \in Slots : Group(k) \in Groups
    /\ \A l \in Loops : Group(l) = l /\ l \in Slots /\ l \in Groups
    /\ \A l \in Loops : \A k \in Slots : Group(k) = l => k = l
    /\ "none" \notin Slots
BY HooksAssumption DEF Group, Groups, Slots, Interpreter

-----------------------------------------------------------------------------
(* TraceSeed's own steps.                                                  *)

(* What a step says of slots, as far as the invariants go: everything else *)
(* follows from it.                                                        *)
SlotsKept == TypeOK' /\ (\A k \in Slots : SlotInv(k)') /\ HeldInv' /\ InstalledIsFirst'

LEMMA InstallKeeps ==
    ASSUME IInv, NEW g \in Groups, Install(g)
    PROVE  SlotsKept
<1>1. /\ ~installed[g] /\ current \in [Slots -> Hooks] /\ installed \in [Groups -> BOOLEAN]
      /\ saved \in [Slots -> Hooks] /\ touched \in [Slots -> SUBSET {"sinceInstall", "revived"}]
      /\ held \in [slot : Slots \cup {"none"}, hook : Hooks, stale : BOOLEAN]
  BY DEF Install, IInv, TypeOK
<1>2. installed' = [installed EXCEPT ![g] = TRUE] /\ UNCHANGED <<moves, handling>>
  BY DEF Install, PutTraceSeed
<1>3. \A k \in Slots : Group(k) = g =>
         /\ current'[k] = <<"traceseed">> \o current[k] /\ saved'[k] = current[k]
         /\ installed'[Group(k)] /\ ~installed[Group(k)]
         /\ touched'[k] = touched[k] \ {"sinceInstall"}
  BY <1>1, <1>2 DEF Install, PutTraceSeed, SlotsOf
<1>4. \A k \in Slots : Group(k) # g =>
         /\ current'[k] = current[k] /\ saved'[k] = saved[k] /\ touched'[k] = touched[k]
         /\ installed'[Group(k)] = installed[Group(k)]
  BY <1>1, <1>2, GroupType DEF Install, PutTraceSeed, SlotsOf
<1>5. \A k \in Slots : LET chain == <<"traceseed">> \o current[k] IN
         /\ chain \in Hooks /\ chain # <<>> /\ Head(chain) = "traceseed"
         /\ Clean(current[k]) => Once(chain)
  BY <1>1, PutInFront DEF Parts
<1>6. current' \in [Slots -> Hooks] /\ saved' \in [Slots -> Hooks]
  BY <1>1, <1>5 DEF Install, PutTraceSeed
<1>7. /\ held'.slot = held.slot /\ held'.hook = held.hook
      /\ held' \in [slot : Slots \cup {"none"}, hook : Hooks, stale : BOOLEAN]
      /\ ~held'.stale => ~held.stale /\ held.slot \notin SlotsOf(g)
  BY <1>1 DEF Install, PutTraceSeed
<1>8. touched' \in [Slots -> SUBSET {"sinceInstall", "revived"}]
  BY <1>1 DEF Install, PutTraceSeed
<1>9. TypeOK'
  BY <1>1, <1>2, <1>3, <1>4, <1>6, <1>7, <1>8 DEF IInv, TypeOK
<1>10. ASSUME NEW k \in Slots PROVE SlotInv(k)'
  BY <1>3, <1>4, <1>5 DEF IInv, SlotInv, Untouched, Fits
<1>11. HeldInv'
  BY <1>4, <1>7 DEF IInv, HeldInv, SlotsOf, Untouched, Fits
<1>12. InstalledIsFirst'
  BY <1>3, <1>4, <1>5 DEF IInv, InstalledIsFirst
<1> QED BY <1>9, <1>10, <1>11, <1>12 DEF SlotsKept

LEMMA UninstallKeeps ==
    ASSUME IInv, NEW g \in Groups, Uninstall(g)
    PROVE  SlotsKept
<1>1. /\ installed[g] /\ current \in [Slots -> Hooks] /\ installed \in [Groups -> BOOLEAN]
      /\ saved \in [Slots -> Hooks] /\ touched \in [Slots -> SUBSET {"sinceInstall", "revived"}]
      /\ held \in [slot : Slots \cup {"none"}, hook : Hooks, stale : BOOLEAN]
  BY DEF Uninstall, IInv, TypeOK
<1>2. installed' = [installed EXCEPT ![g] = FALSE] /\ UNCHANGED <<moves, handling>>
  BY DEF Uninstall
<1>3. \A k \in Slots : Group(k) = g =>
         /\ current'[k] = saved[k] /\ saved'[k] = <<>> /\ ~installed'[Group(k)]
         /\ touched'[k] = touched[k] \ {"sinceInstall"}
  BY <1>1, <1>2 DEF Uninstall, SlotsOf
<1>4. \A k \in Slots : Group(k) # g =>
         /\ current'[k] = current[k] /\ saved'[k] = saved[k] /\ touched'[k] = touched[k]
         /\ installed'[Group(k)] = installed[Group(k)]
  BY <1>1, <1>2, GroupType DEF Uninstall, SlotsOf
<1>5. current' \in [Slots -> Hooks] /\ saved' \in [Slots -> Hooks]
  BY <1>1, ShortChains DEF Uninstall
<1>6. /\ held'.slot = held.slot /\ held'.hook = held.hook
      /\ held' \in [slot : Slots \cup {"none"}, hook : Hooks, stale : BOOLEAN]
      /\ ~held'.stale => ~held.stale /\ held.slot \notin SlotsOf(g)
  BY <1>1 DEF Uninstall
<1>7. touched' \in [Slots -> SUBSET {"sinceInstall", "revived"}]
  BY <1>1 DEF Uninstall
<1>8. TypeOK'
  BY <1>1, <1>2, <1>3, <1>4, <1>5, <1>6, <1>7 DEF IInv, TypeOK
<1>9. ASSUME NEW k \in Slots PROVE SlotInv(k)'
  BY <1>3, <1>4, ShortChains DEF IInv, SlotInv, Untouched, Fits
<1>10. HeldInv'
  BY <1>4, <1>6 DEF IInv, HeldInv, SlotsOf, Untouched, Fits
<1>11. InstalledIsFirst'
  BY <1>3, <1>4 DEF IInv, InstalledIsFirst
<1> QED BY <1>8, <1>9, <1>10, <1>11 DEF SlotsKept

-----------------------------------------------------------------------------
(* The program's steps.                                                    *)

(* A change of slot k to a hook that fits, or by which it is revived. *)
LEMMA MovedKeeps ==
    ASSUME IInv, NEW k \in Slots, NEW hook \in Hooks, NEW new \in SUBSET {"revived"},
           current' = [current EXCEPT ![k] = hook],
           Moved(k, new),
           held' \in [slot : Slots \cup {"none"}, hook : Hooks, stale : BOOLEAN],
           new = {} /\ Untouched(k) => Fits(k, hook),
           held'.slot # "none" /\ ~held'.stale /\ Untouched(held'.slot) =>
              Fits(held'.slot, held'.hook)
    PROVE  SlotsKept
<1>1. /\ current \in [Slots -> Hooks] /\ installed' = installed /\ saved' = saved
      /\ touched \in [Slots -> SUBSET {"sinceInstall", "revived"}]
      /\ touched' = [touched EXCEPT ![k] = @ \cup {"sinceInstall"} \cup new]
      /\ handling' = handling /\ moves < MaxMoves /\ moves' = moves + 1
  BY DEF IInv, TypeOK, Moved
<1>2. TypeOK'
  <2>1. current' \in [Slots -> Hooks] /\ touched' \in [Slots -> SUBSET {"sinceInstall", "revived"}]
    BY <1>1
  <2>2. moves' \in 0..MaxMoves
    BY <1>1, HooksAssumption DEF IInv, TypeOK
  <2> QED BY <1>1, <2>1, <2>2 DEF IInv, TypeOK
<1>3. \A j \in Slots \ {k} : current'[j] = current[j] /\ touched'[j] = touched[j]
  BY <1>1
<1>4. current'[k] = hook /\ touched'[k] = touched[k] \cup {"sinceInstall"} \cup new
  BY <1>1
<1>5. \A j \in Slots : Untouched(j)' => Untouched(j)
  BY <1>3, <1>4 DEF Untouched
<1>6. \A h, j : Fits(j, h)' = Fits(j, h)
  BY <1>1 DEF Fits
<1>7. ASSUME NEW j \in Slots PROVE SlotInv(j)'
  <2>1. CASE j = k
    <3>1. Untouched(j)' => new = {}
      BY <1>4, <2>1 DEF Untouched
    <3> QED BY <1>1, <1>4, <1>5, <1>6, <2>1, <3>1 DEF IInv, SlotInv
  <2>2. CASE j # k
    BY <1>1, <1>3, <1>5, <1>6, <2>2 DEF IInv, SlotInv
  <2> QED BY <2>1, <2>2
<1>8. HeldInv'
  BY <1>2, <1>5, <1>6 DEF HeldInv, TypeOK
<1>9. InstalledIsFirst'
  BY <1>1, <1>3, <1>4 DEF IInv, InstalledIsFirst
<1> QED BY <1>2, <1>7, <1>8, <1>9 DEF SlotsKept

LEMMA ProgramKeeps ==
    ASSUME IInv, NEW k \in Slots, SetHook(k) \/ SwapHook(k) \/ PutBack(k)
    PROVE  SlotsKept
<1>1. /\ current[k] \in Hooks
      /\ held \in [slot : Slots \cup {"none"}, hook : Hooks, stale : BOOLEAN]
      /\ Untouched(k) => Fits(k, current[k])
  BY DEF IInv, TypeOK, SlotInv
<1>2. CASE SetHook(k)
  <2>1. PICK hook \in {<<>>, <<"app">>, <<"wrapper">> \o current[k]} :
           current' = [current EXCEPT ![k] = hook]
    BY <1>2 DEF SetHook
  <2>2. hook \in Hooks /\ (Untouched(k) => Fits(k, hook))
    BY <1>1, <2>1, ShortChains, PutInFront DEF Parts, Fits
  <2>3. Moved(k, {}) /\ held' = held
    BY <1>2 DEF SetHook
  <2> QED BY <1>1, <2>1, <2>2, <2>3, MovedKeeps DEF IInv, HeldInv
<1>3. CASE SwapHook(k)
  <2>1. /\ held' = [slot |-> k, hook |-> current[k], stale |-> FALSE]
        /\ current' = [current EXCEPT ![k] = <<"app">>] /\ Moved(k, {})
    BY <1>3 DEF SwapHook
  <2>2. <<"app">> \in Hooks /\ Fits(k, <<"app">>)
    BY ShortChains DEF Fits
  <2> QED BY <1>1, <2>1, <2>2, MovedKeeps
<1>4. CASE PutBack(k)
  <2> DEFINE new == IF held.stale THEN {"revived"} ELSE {}
  <2>1. /\ held.slot = k /\ held' = NothingHeld
        /\ current' = [current EXCEPT ![k] = held.hook] /\ Moved(k, new)
    BY <1>4 DEF PutBack
  <2>2. new = {} /\ Untouched(k) => Fits(k, held.hook)
    BY <2>1, GroupType DEF IInv, HeldInv
  <2>3. NothingHeld \in [slot : Slots \cup {"none"}, hook : Hooks, stale : BOOLEAN]
    BY ShortChains DEF NothingHeld
  <2>4. new \in SUBSET {"revived"} /\ held.hook \in Hooks
    BY <1>1
  <2> HIDE DEF new
  <2> QED BY <2>1, <2>2, <2>3, <2>4, MovedKeeps DEF NothingHeld
<1> QED BY <1>2, <1>3, <1>4

LEMMA NewLoopKeeps ==
    ASSUME IInv, NEW l \in Loops, NewLoop(l)
    PROVE  SlotsKept
<1>1. /\ current \in [Slots -> Hooks] /\ installed \in [Groups -> BOOLEAN]
      /\ saved \in [Slots -> Hooks] /\ touched \in [Slots -> SUBSET {"sinceInstall", "revived"}]
      /\ held \in [slot : Slots \cup {"none"}, hook : Hooks, stale : BOOLEAN]
      /\ l \in Slots /\ l \in Groups /\ Group(l) = l
  BY GroupType DEF IInv, TypeOK
<1>2. /\ current' = [current EXCEPT ![l] = <<>>] /\ touched' = [touched EXCEPT ![l] = {}]
      /\ installed' = [installed EXCEPT ![l] = FALSE] /\ saved' = [saved EXCEPT ![l] = <<>>]
      /\ held' = (IF held.slot = l THEN NothingHeld ELSE held) /\ UNCHANGED <<moves, handling>>
  BY DEF NewLoop, FreshLoop
<1>3. /\ current'[l] = <<>> /\ saved'[l] = <<>> /\ ~installed'[Group(l)]
      /\ held' \in [slot : Slots \cup {"none"}, hook : Hooks, stale : BOOLEAN]
      /\ held'.slot # l /\ (held' # NothingHeld => held' = held)
  BY <1>1, <1>2, ShortChains, GroupType DEF NothingHeld
<1>4. \A k \in Slots \ {l} :
         /\ current'[k] = current[k] /\ saved'[k] = saved[k] /\ touched'[k] = touched[k]
         /\ installed'[Group(k)] = installed[Group(k)]
  BY <1>1, <1>2, GroupType
<1>5. TypeOK'
  BY <1>1, <1>2, <1>3, <1>4, ShortChains DEF IInv, TypeOK
<1>6. ASSUME NEW k \in Slots PROVE SlotInv(k)'
  BY <1>3, <1>4, ShortChains DEF IInv, SlotInv, Untouched, Fits
<1>7. HeldInv'
  <2>1. CASE held' = NothingHeld
    BY <2>1 DEF NothingHeld, HeldInv
  <2>2. CASE held' = held /\ held.slot # l
    BY <1>1, <1>4, <2>2 DEF IInv, HeldInv, Untouched, Fits
  <2> QED BY <1>3, <2>1, <2>2
<1>8. InstalledIsFirst'
  BY <1>3, <1>4 DEF IInv, InstalledIsFirst
<1> QED BY <1>5, <1>6, <1>7, <1>8 DEF SlotsKept

-----------------------------------------------------------------------------
(* The handling of an exception.                                           *)

(* What a step says of the exceptions that are being handled. *)
HandlingKept ==
    /\ handling' \in [Exceptions -> Handling]
    /\ \A x \in Exceptions : MayCapture(handling[x])' /\ Captured(handling[x])'

(* A step of x's handling changes nothing of another exception's. *)
LEMMA HandlingOf ==
    ASSUME IInv, NEW x \in Exceptions, NEW new \in Handling,
           handling' = [handling EXCEPT ![x] = new],
           MayCapture(new), Captured(new)
    PROVE  HandlingKept
<1>1. handling \in [Exceptions -> Handling]
  BY DEF IInv, TypeOK
<1>2. handling' \in [Exceptions -> Handling] /\ handling'[x] = new
      /\ \A y \in Exceptions \ {x} : handling'[y] = handling[y]
  BY <1>1
<1>3. ASSUME NEW y \in Exceptions PROVE MayCapture(handling'[y]) /\ Captured(handling'[y])
  BY <1>2 DEF IInv
<1> QED BY <1>2, <1>3 DEF HandlingKept

LEMMA OccurKeeps ==
    ASSUME IInv, NEW x \in Exceptions, NEW k \in Slots, Occur(x, k)
    PROVE  HandlingKept
<1> DEFINE revived == "revived" \in touched[k]
           clean == "sinceInstall" \notin touched[k]
           new(kind) == [NotRaised EXCEPT !.step = "run", !.slot = k, !.kind = kind,
                            !.live = installed[Group(k)], !.clean = clean,
                            !.revived = revived, !.todo = current[k]]
<1>1. PICK kind \in {"app", "base"} : handling' = [handling EXCEPT ![x] = new(kind)]
  BY DEF Occur
<1>2. revived \in BOOLEAN /\ (~revived => Fits(k, current[k]))
  BY DEF IInv, SlotInv, Untouched
<1>7. clean \in BOOLEAN
        /\ (installed[Group(k)] /\ clean => current[k] # <<>> /\ Head(current[k]) = "traceseed")
  BY DEF IInv, InstalledIsFirst
<1> HIDE DEF revived, clean
<1>3. current[k] \in Hooks /\ installed[Group(k)] \in BOOLEAN
  BY GroupType DEF IInv, TypeOK
<1>4. /\ new(kind).step = "run" /\ new(kind).captures = 0 /\ new(kind).live = installed[Group(k)]
      /\ new(kind).revived = revived /\ new(kind).todo = current[k] /\ new(kind).clean = clean
  BY DEF NotRaised
<1>5. new(kind) \in Handling
  BY <1>2, <1>3, <1>7 DEF NotRaised, Handling
<1> HIDE DEF new
<1>6. MayCapture(new(kind)) /\ Captured(new(kind))
  BY <1>2, <1>3, <1>4, <1>7 DEF MayCapture, Captured, Fits
<1> QED BY <1>1, <1>5, <1>6, HandlingOf

LEMMA HookKeeps ==
    ASSUME IInv, NEW x \in Exceptions,
           TraceSeedHook(x) \/ AppHook(x) \/ WrapperHook(x) \/ DefaultHook(x) \/ Fallback(x)
    PROVE  HandlingKept
<1> DEFINE h == handling[x]
<1>1. h \in Handling /\ MayCapture(h) /\ Captured(h)
  BY DEF IInv, TypeOK
<1>2. CASE TraceSeedHook(x)
  <2> DEFINE next == [h EXCEPT !.todo = Tail(@)]
  <2>1. h.step = "run" /\ h.todo # <<>> /\ Head(h.todo) = "traceseed" /\ h.todo \in Hooks
    BY <1>1, <1>2 DEF TraceSeedHook, At, Handling
  <2>2. /\ Tail(h.todo) \in Hooks
        /\ ~h.revived => h.live /\ h.captures = 0 /\ Clean(Tail(h.todo)) /\ Once(Tail(h.todo))
    <3>1. ~h.revived => ~Clean(h.todo)
      BY <2>1, CallNext
    <3>2. ~h.revived => h.live /\ h.captures = 0 /\ Once(h.todo)
      BY <1>1, <2>1, <3>1 DEF MayCapture
    <3> QED BY <2>1, <3>2, CallNext, CleanIsOnce
  <2>3. /\ next \in Handling /\ next.step = "run" /\ next.todo = Tail(h.todo)
        /\ next.revived = h.revived /\ next.live = h.live /\ next.captures = h.captures
        /\ next.kind = h.kind /\ next.clean = h.clean
    BY <1>1, <2>1, <2>2 DEF Handling
  <2> HIDE DEF next
  <2>4. ASSUME h.kind = "base", handling' = [handling EXCEPT ![x] = next] PROVE HandlingKept
    <3>1. MayCapture(next) /\ Captured(next)
      BY <1>1, <2>2, <2>3, <2>4 DEF MayCapture, Captured
    <3> QED BY <2>3, <2>4, <3>1, HandlingOf
  <2>5. ASSUME NEW step \in {"run", "broken"}, h.kind = "app",
               handling' = [handling EXCEPT ![x] = [next EXCEPT !.captures = @ + 1, !.step = step]]
        PROVE  HandlingKept
    <3> DEFINE new == [next EXCEPT !.captures = next.captures + 1, !.step = step]
    <3>1. next.captures + 1 \in Nat /\ step \in {"none", "run", "raised", "done", "broken"}
      BY <2>3 DEF Handling
    <3>2. new \in Handling
      BY <2>3, <3>1 DEF Handling
    <3>3. /\ new.step = step /\ new.todo = next.todo
          /\ new.revived = next.revived /\ new.live = next.live
          /\ new.captures = next.captures + 1 /\ new.kind = h.kind
      BY <2>3 DEF Handling
    <3> HIDE DEF new
    <3>4. MayCapture(new) /\ Captured(new)
      <4>1. ~new.revived => new.live /\ new.captures = 1 /\ Clean(new.todo)
        BY <2>2, <2>3, <3>3
      <4>2. new.kind = "app" /\ new.captures # 0
        BY <1>1, <2>3, <2>5, <3>3 DEF Handling
      <4> QED BY <3>3, <4>1, <4>2 DEF MayCapture, Captured
    <3>5. handling' = [handling EXCEPT ![x] = new]
      BY <2>5 DEF new
    <3> QED BY <3>2, <3>4, <3>5, HandlingOf
  <2> QED BY <1>2, <2>4, <2>5 DEF TraceSeedHook, next
<1>3. ASSUME NEW step \in {"raised", "done"}, handling' = [handling EXCEPT ![x].step = step],
             h.step = "run" => h.todo = <<>> \/ Head(h.todo) # "traceseed",
             h.step \in {"run", "raised"}
      PROVE  HandlingKept
  <2> DEFINE new == [h EXCEPT !.step = step]
  <2>1. /\ new \in Handling /\ new.step = step /\ new.revived = h.revived /\ new.kind = h.kind
        /\ new.live = h.live /\ new.captures = h.captures /\ new.clean = h.clean
    BY <1>1 DEF Handling
  <2>2. handling' = [handling EXCEPT ![x] = new]
    BY <1>3
  <2> HIDE DEF new
  <2>3. MayCapture(new) /\ Captured(new)
    BY <1>1, <1>3, <2>1 DEF MayCapture, Captured
  <2> QED BY <2>1, <2>2, <2>3, HandlingOf
<1>5. CASE AppHook(x)
  BY <1>3, <1>5 DEF AppHook, At
<1>6. CASE WrapperHook(x)
  <2>1. h.step = "run" /\ h.todo # <<>> /\ Head(h.todo) = "wrapper" /\ h.todo \in Hooks
    BY <1>1, <1>6 DEF WrapperHook, At, Handling
  <2>2. ASSUME handling' = [handling EXCEPT ![x].todo = Tail(@)] PROVE HandlingKept
    <3> DEFINE new == [h EXCEPT !.todo = Tail(h.todo)]
    <3>1. Tail(h.todo) \in Hooks /\ (Clean(h.todo) => Clean(Tail(h.todo)))
          /\ (Once(h.todo) => Once(Tail(h.todo)))
      BY <2>1, CallNext
    <3>2. /\ new \in Handling /\ new.step = "run" /\ new.todo = Tail(h.todo)
          /\ new.revived = h.revived /\ new.live = h.live /\ new.captures = h.captures
          /\ new.kind = h.kind /\ new.clean = h.clean
      BY <1>1, <2>1, <3>1 DEF Handling
    <3>3. handling' = [handling EXCEPT ![x] = new]
      BY <2>2
    <3> HIDE DEF new
    <3>4. MayCapture(new) /\ Captured(new)
      BY <1>1, <2>1, <3>1, <3>2 DEF MayCapture, Captured
    <3> QED BY <3>2, <3>3, <3>4, HandlingOf
  <2> QED BY <1>3, <1>6, <2>1, <2>2 DEF WrapperHook
<1>7. CASE DefaultHook(x)
  BY <1>3, <1>7 DEF DefaultHook
<1>8. CASE Fallback(x)
  BY <1>3, <1>8 DEF Fallback
<1> QED BY <1>2, <1>5, <1>6, <1>7, <1>8

-----------------------------------------------------------------------------

LEMMA InitIInv == Init => IInv
<1> SUFFICES ASSUME Init PROVE IInv
  OBVIOUS
<1> USE DEF Init
<1>1. TypeOK
  BY ShortChains, HooksAssumption DEF TypeOK, NothingHeld, NotRaised, Handling
<1>2. (\A k \in Slots : SlotInv(k)) /\ HeldInv
  BY ShortChains, GroupType DEF SlotInv, Fits, HeldInv, NothingHeld
<1>3. (\A x \in Exceptions : MayCapture(handling[x]) /\ Captured(handling[x])) /\ InstalledIsFirst
  BY GroupType DEF MayCapture, Captured, NotRaised, InstalledIsFirst
<1> QED BY <1>1, <1>2, <1>3 DEF IInv

LEMMA NextIInv == IInv /\ [Next]_vars => IInv'
<1> SUFFICES ASSUME IInv, [Next]_vars PROVE IInv'
  OBVIOUS
<1>1. ASSUME SlotsKept, handling' = handling PROVE IInv'
  BY <1>1 DEF SlotsKept, IInv, MayCapture, Captured
<1>2. ASSUME HandlingKept, UNCHANGED hookVars PROVE IInv'
  BY <1>2 DEF HandlingKept, hookVars, IInv, TypeOK, SlotInv, HeldInv, Untouched, Fits, InstalledIsFirst
<1>3. ASSUME NEW g \in Groups, Install(g) \/ Uninstall(g) PROVE IInv'
  BY <1>1, <1>3, InstallKeeps, UninstallKeeps DEF Install, PutTraceSeed, Uninstall
<1>4. ASSUME NEW k \in Slots, SetHook(k) \/ SwapHook(k) \/ PutBack(k) PROVE IInv'
  BY <1>1, <1>4, ProgramKeeps DEF SetHook, SwapHook, PutBack, Moved
<1>5. ASSUME NEW l \in Loops, NewLoop(l) PROVE IInv'
  BY <1>1, <1>5, NewLoopKeeps DEF NewLoop, FreshLoop
<1>6. ASSUME NEW x \in Exceptions, NEW k \in Slots, Occur(x, k) PROVE IInv'
  BY <1>2, <1>6, OccurKeeps DEF Occur
<1>7. ASSUME NEW x \in Exceptions,
             TraceSeedHook(x) \/ AppHook(x) \/ WrapperHook(x) \/ DefaultHook(x) \/ Fallback(x)
      PROVE  IInv'
  BY <1>2, <1>7, HookKeeps DEF TraceSeedHook, AppHook, WrapperHook, DefaultHook, Fallback, At
<1>8. CASE UNCHANGED vars
  <2>1. UNCHANGED hookVars /\ handling' = handling
    BY <1>8 DEF vars, hookVars
  <2> QED BY <1>2, <2>1 DEF IInv, TypeOK, MayCapture, Captured, HandlingKept
<1> QED BY <1>3, <1>4, <1>5, <1>6, <1>7, <1>8 DEF Next, InstallAgain

LEMMA Inductive == Spec => []IInv
BY InitIInv, NextIInv, PTL DEF Spec

(* Every variable always has its type. *)
THEOREM Typing == Spec => []TypeOK
<1>1. IInv => TypeOK
  BY DEF IInv
<1> QED BY Inductive, <1>1, PTL

(* system_hook, thread_hook and handler capture before they call anything: *)
(* an Exception that occurs under an installed hook is captured, whatever  *)
(* is uninstalled or raises until it is handled.                           *)
THEOREM NoExceptionMissed == Spec => []NoneMissed
<1>1. IInv => NoneMissed
  <2> SUFFICES ASSUME IInv, NEW x \in Exceptions,
                      handling[x].step \in {"raised", "done", "broken"},
                      handling[x].live, handling[x].clean
               PROVE  handling[x].captures # 0 <=> handling[x].kind = "app"
    BY DEF NoneMissed
  <2>1. Captured(handling[x]) /\ handling[x].kind \in {"app", "base"}
    BY DEF IInv, TypeOK, Handling
  <2> QED BY <2>1 DEF Captured
<1> QED BY Inductive, <1>1, PTL

(* However often and in whatever order TraceSeed is installed and          *)
(* uninstalled and the program changes hooks, no exception is captured     *)
(* twice or without TraceSeed being installed, unless a stale hook was     *)
(* put back.                                                               *)
THEOREM NeverCapturedTwice == Spec => []CapturedOnce
<1>1. IInv => CapturedOnce
  BY DEF IInv, MayCapture, CapturedOnce
<1> QED BY Inductive, <1>1, PTL

(* An installed hook is the first in its slot until the program changes it. *)
THEOREM InstalledComesFirst == Spec => []InstalledIsFirst
<1>1. IInv => InstalledIsFirst
  BY DEF IInv
<1> QED BY Inductive, <1>1, PTL
=============================================================================
