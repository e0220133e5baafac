----------------------------- MODULE FailureRecord -----------------------------
(***************************************************************************)
(* What a capture makes of an exception: the record (build_exception_info, *)
(* build_frames, the redaction of both, the fingerprint) and what of the   *)
(* record its package shows (encode under _build_files).  Exceptions refer *)
(* to each other as the program pleases, in cycles too; each step on the   *)
(* way to the package has a limit of its own.                              *)
(*                                                                         *)
(* Frames and breadcrumbs are numbered: frame 1 is the outermost, the last *)
(* frame the one that raised, the last breadcrumb the newest.              *)
(***************************************************************************)
EXTENDS ExceptionTree

CONSTANTS
    Groups,     \* the lists of children an exception may have
    Situations, \* limits of a configuration, and how much there is to record
    MaxLinks    \* bound on the attributes the program sets

ASSUME RecordAssumption ==
    /\ Groups \subseteq Seq(Exceptions \cup {Nothing}) \cup {Unreadable}
    /\ MaxLinks \in Nat

(* The limits are max_exception_depth, max_exception_children, max_frames, *)
(* fingerprint_frame_limit, max_breadcrumbs, max_depth and                 *)
(* max_collection_items.                                                   *)
ASSUME SituationAssumption ==
    /\ Situations \subseteq [exceptionDepth : Nat \ {0}, exceptionChildren : Nat,
                          maxFrames : Nat \ {0}, fingerprintFrames : Nat \ {0},
                          maxCrumbs : Nat \ {0}, maxDepth : Nat \ {0}, maxItems : Nat \ {0},
                          traceback : Nat, crumbs : Nat]
    /\ \A s \in Situations : s.exceptionDepth <= MaxHeight

VARIABLES
    heap,       \* the exception objects
    links,      \* how many attributes the program has set
    phase,      \* where the capture is
    now,        \* the situation of the capture
    exception,  \* the ExceptionInfo, raw and then redacted
    frames,     \* the frames of the record
    crumbs,     \* the breadcrumbs of the record
    canonical,  \* what the fingerprint is computed from
    package     \* what the members of the package show

vars == <<heap, links, phase, now, exception, frames, crumbs, canonical, package>>

Plain == [cause |-> Nothing, context |-> Nothing, suppress |-> FALSE, children |-> <<>>]

Init ==
    /\ heap = [e \in Exceptions |-> Plain]
    /\ links = 0
    /\ phase = "program"
    /\ now \in Situations
    /\ exception = Nothing
    /\ frames = <<>>
    /\ crumbs = <<>>
    /\ canonical = Nothing
    /\ package = Nothing

Least(a, b) == IF a <= b THEN a ELSE b
Take(n, seq) == SubSeq(seq, 1, Least(n, Len(seq)))
TakeLast(n, seq) == SubSeq(seq, Len(seq) - Least(n, Len(seq)) + 1, Len(seq))
UpTo(n) == [i \in 1..n |-> i]

-----------------------------------------------------------------------------
(* The program: raise ... from, handlers that raise, exception groups, and *)
(* direct assignment to the attributes.                                    *)

Set(e, changed) ==
    /\ phase = "program"
    /\ links < MaxLinks
    /\ links' = links + 1
    /\ heap' = [heap EXCEPT ![e] = changed]
    /\ UNCHANGED <<phase, now, exception, frames, crumbs, canonical, package>>

(* Python sets __suppress_context__ along with __cause__.                  *)
SetCause(e) ==
    \E c \in Exceptions \cup {Unreadable} :
        Set(e, [heap[e] EXCEPT !.cause = c, !.suppress = TRUE])

SetContext(e) ==
    \E c \in Exceptions \cup {Unreadable} : Set(e, [heap[e] EXCEPT !.context = c])

ShowContext(e) == heap[e].suppress /\ Set(e, [heap[e] EXCEPT !.suppress = FALSE])

SetChildren(e) == \E group \in Groups : Set(e, [heap[e] EXCEPT !.children = group])

-----------------------------------------------------------------------------
(* The record.                                                             *)

Begin ==
    /\ phase = "program"
    /\ phase' = "frames"
    /\ exception' = Build(heap, now, Root)
    /\ UNCHANGED <<heap, links, now, frames, crumbs, canonical, package>>

(* build_frames walks the traceback from its outermost frame.              *)
BuildFrames == Take(now.maxFrames, UpTo(now.traceback))

(* current_breadcrumbs()[: config.max_breadcrumbs].                        *)
BuildCrumbs == Take(now.maxCrumbs, UpTo(now.crumbs))

CollectContents ==
    /\ phase = "frames"
    /\ phase' = "redact"
    /\ frames' = BuildFrames
    /\ crumbs' = BuildCrumbs
    /\ UNCHANGED <<heap, links, now, exception, canonical, package>>

CauseOf(info) == {l.to.of : l \in {k \in info.links : k.kind = "cause"}}

(* Variant: the outermost of the frames.                                   *)
CanonicalFirst(info) ==
    [of |-> info.of, text |-> info.text, cause |-> CauseOf(info),
     frames |-> Take(now.fingerprintFrames, frames)]

(* generate: type and text of the exception, type of its cause, and the    *)
(* last of the frames.                                                     *)
Canonical(info) ==
    [of |-> info.of, text |-> info.text, cause |-> CauseOf(info),
     frames |-> TakeLast(now.fingerprintFrames, frames)]

RedactAndFingerprint ==
    /\ phase = "redact"
    /\ phase' = "save"
    /\ exception' = Sanitize(now, exception)
    /\ canonical' = Canonical(exception')
    /\ UNCHANGED <<heap, links, now, frames, crumbs, package>>

-----------------------------------------------------------------------------
(* The package.                                                            *)

(* Variant: the fields of an item are on the level of the item.            *)
EncodeItemsFlat(items, depth) ==
    IF depth + 1 < now.maxDepth /\ Keeps(now, "message") THEN Take(now.maxItems, items) ELSE <<>>

(* encode of a tuple of frames or breadcrumbs: those whose fields show.    *)
EncodeItems(items, depth) ==
    IF depth + 2 < now.maxDepth /\ Keeps(now, "message") THEN Take(now.maxItems, items) ELSE <<>>

(* exception.json, traceback.json and breadcrumbs.json hold one part of    *)
(* the record each, record.json the whole of it, one level deeper;         *)
(* summary.json names the last frame.                                      *)
BuildFiles ==
    [exception |-> Encode(now, exception, 0),
     traceback |-> EncodeItems(frames, 0),
     breadcrumbs |-> EncodeItems(crumbs, 0),
     topFrame |-> TakeLast(1, frames),
     whole |-> [exception |-> IF Keeps(now, "exception") THEN Encode(now, exception, 1) ELSE Node(Root, "gone"),
                frames |-> IF Keeps(now, "frames") THEN EncodeItems(frames, 1) ELSE <<>>,
                breadcrumbs |-> IF Keeps(now, "breadcrumbs") THEN EncodeItems(crumbs, 1) ELSE <<>>]]

SavePackage ==
    /\ phase = "save"
    /\ phase' = "saved"
    /\ package' = BuildFiles
    /\ UNCHANGED <<heap, links, now, exception, frames, crumbs, canonical>>

Next ==
    \/ \E e \in Exceptions : SetCause(e) \/ SetContext(e) \/ ShowContext(e) \/ SetChildren(e)
    \/ Begin \/ CollectContents \/ RedactAndFingerprint \/ SavePackage

Spec == Init /\ [][Next]_vars

-----------------------------------------------------------------------------
(* Properties.                                                             *)

(* However exceptions refer to each other, the record holds the root and   *)
(* every exception on a way to it within the limits, once for each way,    *)
(* redacted, and no text of any other; and where a way was cut it says     *)
(* which limit did that.                                                   *)
EveryWayRecorded ==
    phase \in {"save", "saved"} =>
        Texts(exception) = {<<way, Reading(now, way)>> : way \in Ways(heap, now)}

(* A file of the package shows of the record what is above its own depth   *)
(* limit, unchanged; so record.json shows less than exception.json, and    *)
(* both may show less than max_exception_depth promises.                   *)
FilesShowRecord ==
    phase = "saved" =>
        LET said == Texts(exception) IN
        /\ Shown(package.exception) = {t \in said : Visible(now, t[1], 0)}
        /\ Shown(package.whole.exception) =
              {t \in said : Keeps(now, "exception") /\ Visible(now, t[1], 1)}

Ends(shown, last) == last > 0 /\ \E i \in DOMAIN shown : shown[i] = last

(* The last frame that was recorded, which summary.json and the            *)
(* fingerprint name, is in traceback.json, and the newest breadcrumb in    *)
(* breadcrumbs.json, unless there was more to show than some limit on the  *)
(* way lets pass; record.json shows them one level later.                  *)
EndIsShown ==
    phase = "saved" =>
        LET top == Len(frames)
            Deep(depth) == Keeps(now, "message") /\ now.maxDepth > depth + 2
            MostCrumbs == Least(now.maxCrumbs, now.maxItems)
        IN
        /\ Ends(package.traceback, top) <=> Deep(0) /\ top \in 1..now.maxItems
        /\ Ends(package.whole.frames, top) <=>
              Deep(1) /\ Keeps(now, "frames") /\ top \in 1..now.maxItems
        /\ Ends(package.breadcrumbs, now.crumbs) <=> Deep(0) /\ now.crumbs \in 1..MostCrumbs
        /\ Ends(package.whole.breadcrumbs, now.crumbs) <=>
              Deep(1) /\ Keeps(now, "breadcrumbs") /\ now.crumbs \in 1..MostCrumbs

(* Two raises that end in the same frames have one fingerprint whatever    *)
(* called them and whatever the limits on exceptions: it is made of the    *)
(* redacted root, of its cause even if that lies beyond                    *)
(* max_exception_depth, and of the last frames of a traceback that was     *)
(* recorded whole.                                                         *)
FingerprintIsOfTheRaise ==
    phase \in {"save", "saved"} =>
        /\ canonical.of = Root /\ canonical.text = "clean"
        /\ canonical.cause = {heap[Root].cause} \cap Exceptions
        /\ now.traceback <= now.maxFrames =>
              canonical.frames = TakeLast(now.fingerprintFrames, UpTo(now.traceback))
=============================================================================
