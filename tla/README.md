# TraceSeed, specified

TLA+ modules about TraceSeed (`src/`), a Python library that turns an exception
into a `.tseed` diagnostic package.  The modules are written from the source
under `src/src/traceseed/`; each definition that models code is listed with its
lines in `PROJECT.json` under `map`.

## 1. The system

| Component | State it keeps | Operations | Interacts with |
|---|---|---|---|
| capture layers (`api.py`) | `_last_capture_var` (a context variable), the configuration chosen on entry | `@capture` on functions and coroutines, `guard`, `capture_exception`, `get_last_capture` | build an engine per capture; call the callback; re-raise or end the exception |
| capture engine (`engine.py`) | none between captures | `capture`, `_save_safe`, `_build_replay` | collectors, redactor, fingerprinter, storage |
| collector registry (`collectors/`) | the list of collectors | `register`, `unregister`, `snapshot`, `run` | called under `_registry_lock` by the API, without it by captures |
| codec registry (`api.py`, `serialization.py`) | a dictionary of codecs | `register_codec`, `unregister_codec` | copied into each serializer |
| global hooks (`api.py`) | `_installed`, the saved hooks, `_asyncio_handlers`, and the interpreter's own `sys.excepthook`, `threading.excepthook` and loop handlers | `install`, `uninstall`, `install_asyncio`, `uninstall_asyncio` | capture unhandled exceptions, then call the hook that was there before |
| context and breadcrumbs (`context.py`) | two context variables per task | `context`, `set_context`, `reset_context`, `clear_context`, `breadcrumb` | read by the engine |
| configuration (`config.py`) | the global configuration, made on first use; no lock | `configure`, `reset_config`, `get_config` | read by layers, hooks and breadcrumbs |
| archive storage (`storage/archive.py`) | files in one directory | `save`, `load_files`, `verify_files` | called by the engine, the replay runner, the command line |
| directory storage (`storage/directory.py`) | directories in one directory | the same | the same |
| memory storage (`storage/memory.py`) | two lists | `save` | the engine |
| replay runner (`replay/runner.py`) | none | `inspect`, `run` | archive storage, serializer, the program's own functions |
| serialization, redaction, fingerprint | none | `encode`, `decode`, `redact`, `generate` | pure, but they call user code (codecs, redactors, `repr`) |
| command line (`cli.py`) | none | `show`, `verify`, `list`, `compare`, `replay` | storage and runner |

What is hard in it: everything a capture calls is user code that may fail, at
any step, while the program's own exception is in flight; threads and asyncio
tasks capture, register and configure at the same time; a save may be
interrupted or killed between any two system calls while other processes read
the directory; hooks and registrations are process-wide and outlive the code
that made them; and a package is read, much later, by a program whose
configuration and codecs are not those of the one that wrote it.
`PROJECT.json` lists each of these at its line under `hazards`.

## 2. The modules

| Module | What it is |
|---|---|
| `PackageStore` | abstract: what a directory of packages promises its readers and callers |
| `ArchiveSave` | `ArchiveStorage.save` and `verify`, one action per system call; implements `PackageStore` |
| `DirectorySave` | `DirectoryStorage.save` and `verify`; implements `PackageStore` too, without ever replacing a package |
| `LayerContract` | abstract: what a program may rely on that puts capture layers around its code |
| `CaptureFlow` | the layers of `api.py` around the engine, nested and in several tasks; implements `LayerContract` |
| `Collectors` | the collector registry, the run of a snapshot and the merge of the results |
| `ExceptionHooks` | `install`, `uninstall` and their asyncio counterparts, the hooks they leave behind, and a program that changes hooks as well |
| `ValueTree` | pure: `encode`, `redact`, `redact_encoded`, `_find_replay_issue` and `decode` over trees of kinds, with reference definitions of what they should amount to |
| `ReplayRunner` | a call from the `arguments.json` and `replay.json` of its capture to the call `ReplayRunner.run` makes of it, step by step; `encode`, `redact` and `decode` are parameters |
| `Replay` | the same over trees: `ReplayRunner` on the functions of `ValueTree`, and what then is true of the arguments |
| `ExceptionTree` | pure: `build_exception_info`, `redact_exception_info` and `encode` over trees of exceptions, and the ways through causes, contexts and children they should amount to |
| `FailureRecord` | what the record, the fingerprint and the package hold of an exception, its causes, contexts and children, its frames and the breadcrumbs |
| `TaskContext` | `context.py` in several tasks, and the breadcrumbs a capture takes |
| `Configuration` | the process's configuration, made on first use without a lock, and the validation of limits that depend on each other |
| `ArchiveSave_proofs`, `DirectorySave_proofs`, `CaptureFlow_proofs`, `Collectors_proofs`, `ExceptionHooks_proofs`, `Replay_proofs`, `TaskContext_proofs`, `FailureRecord_proofs` | the inductive invariant of each of these modules, and its theorems for every value of the constants (section 5); `FailureRecord_proofs` also has those of `Configuration`, where the limits of a record come from |
| `MC...` | instances for TLC |

Definitions marked "Variant" are plausible mistakes in the definition that
follows them.  No specification uses them; put in its place, each breaks the
property `PROJECT.json` pairs it with.

How state and actions correspond to the code:

- **ArchiveSave.** `pc[s]` is the line `save` is about to execute, `known[s]`
  says whether its local `temporary` is set, `temp[s]` what has become of the
  `mkstemp` file, `body[s]` what the `zipfile` context manager has written and
  `at[n]` the file a name links to.  Every system call is an action of its own
  with its success and its `OSError`; `Leave` is the way through `finally`.
  `Interrupt` is a `KeyboardInterrupt`, `Crash` a killed process.  The
  `temporary.exists()` of the cleanup may raise an `OSError` of its own
  (`CheckFails`), since `suppress` is around the `unlink` alone.  A load
  keeps the file it has opened (a ZIP is read through one handle).
  `verify_files` is abstracted to the three facts it establishes: the members
  are those the manifest declares, all of them, and of one package.
- **DirectorySave.** The same, with `mkdtemp` and `chmod` outside the `try`, a
  rename that refuses a target with files in it, and a reader that goes
  through paths rather than through a handle.
- **CaptureFlow.** `stack[t]` are the layers a task is inside of, each with
  the configuration chosen on entry; `flight[t]` is the exception in flight
  as its chain of causes; `phase[t]` is the step of a capture.  Each step may
  meet user code that raises, and user code that captures an exception of its own
  in the same task (`NestedCapture`): `inner[t]` is what a callback has stored
  that way.  `get_last_capture` reads `last[t]`.  The reports and errors of a
  failed capture contain `str()` of the internal error; where that raises, what
  it raises ("text") leaves the layer (`FailedSetUp`, `Callback`).
- **Collectors.** `registered` is `_collectors`.  Registering and
  unregistering are two steps each, under `lock`, since Python may change
  threads between reading and assigning the list; a capture copies the list in
  one step without the lock, as `CollectorRegistry.run` does.  A key of the
  extensions is a pair, so that a suffix made up by the merge can meet a key
  that a collector returns.  A registration that is refused holds the lock
  until its `ValueError` leaves the `with` statement.  The name of a collector
  is a property of the program; one that is `Unstable` may fail to be read at
  any time, during a registration, an unregistration or a capture, and is then
  the fallback name.
- **ExceptionHooks.** A hook is the chain of hooks it calls.  The program may
  set, wrap, take and put back hooks at any time.  Steps of one exception's
  handling interleave with installs.
- **ValueTree, ReplayRunner and Replay.** A value is a tree of kinds: what a
  text or a number says is left out, its kind (a text matching a pattern, a text too
  long, a value of a registered codec's type, ...) is what the code branches
  on.  Bytes have five kinds, for their limits are those of bytes, of the text
  they are decoded to and of their base64, which `redact_text` cuts.  An
  `odd_dict` is one like `{1: a, '1': b}`: `redact_encoded` has no name for its
  first key, and `redact` writes two keys over each other.  `JsonTooDeep` counts
  the levels of JSON an encoding has, where an item of a list is two below the
  list and one of a dict three.
  Between capture and replay the codec is registered or unregistered,
  the package is changed, restored or lost, and the function, or the class of
  an argument, moves.  A runner has limits of its own (`Limits`), and
  `traceseed replay` is a run in a process without codecs and with the default
  configuration (`NewCommand`).
  `_load_replay_data`'s and `_validate_schema`'s complaints about malformed
  JSON are one rejection, `ChangePackage`'s; packages are written with hashes
  (the default).  `ReplayRunner` has all the steps, and no word about values:
  the functions on them are its constants, to which `MCReplay.cfg` gives
  those of `ValueTree` and `Replay`.
  The arguments are one tree, positional (a list) or by keyword (a dict), and
  they bind to the parameters; `arguments.json` is made of them by `redact`
  before the encoding, `replay.json` by `redact_encoded` after it.  A dict
  that is cut gets the key `[TRUNCATED]`, which the encoding then sorts among
  the others: the model puts it before the last kept key, where it is for
  names in lower case.
- **ExceptionTree and FailureRecord.** `heap` is the exception objects; until the capture begins
  the program raises, chains and assigns as it likes, so that exceptions are
  shared and form cycles.  Then one action for each stretch of
  `_capture_impl`: `Begin` is `build_exception_info`, `CollectContents`
  `build_frames` and the breadcrumbs, `RedactAndFingerprint` the redaction of
  the exception and `generate`, `SavePackage` the files of `_build_files` that
  show any of it.  The record is a tree of nodes: which exception, what its
  text has become, and a set of links, each of a kind and with a place (the
  first cause, the third child).  `Build`, `Sanitize` and `Encode` are recursive
  functions, of the depth that is left or of a tree.  Frames and breadcrumbs are
  their numbers.  `now` is the configuration and how much there is to record.
  Exceptions are not changed while they are captured.
- **TaskContext.** A `ContextVar` holds a reference to a dict, and tasks share
  the dicts they inherit: `dicts` is that heap.  `layer[t]` is the `max_breadcrumbs` of the capture layer a task is in: that of
  its own `config=`, or that of the process when it was entered.  `base`,
  `settings`, `said` and `stale` are history the properties refer to and no
  action reads.
- **Configuration.** `Look`, `BuildDefault` and `Return` are the three reads
  and writes of `_current_config` in `get_config`; `configure` and
  `reset_config` write it in one step.  A configuration is a function from its
  limits to values: a flag that has to be set is a limit with the minimum 1,
  and a value of the wrong type is one below the minimum, for `_validate`
  raises the same error for both.  `set` and `raced` are history.

These modules meet others: `ArchiveSave` and `DirectorySave` refine one store;
`CaptureFlow` takes a store's answer as its `Save` step, the collectors' run as
part of `Engine`; `FailureRecord` takes its breadcrumbs as `TaskContext` leaves
them; `ReplayRunner` takes `ArchiveSave`'s whole-or-rejected loads as its
`LoadFiles`.  They are checked apart: a capture runs in one thread from set-up
to callback, and what other threads do reaches it only through the registry
(`Collectors`), the configuration (`CaptureFlow`) and the file system
(`ArchiveSave`).

## 3. The runs

| Run | Instance | What it shows |
|---|---|---|
| `archive` | three saves, two of one name, one beyond the reader's limits; one load; two members | a name never links to a half-written package; "stored" is the truth, from then on; which litter can stay; a racing load reads one whole package; nothing published is undone; the store implements `PackageStore` |
| `directory` | three saves, two of one record, one beyond the limits; one load; two files | the same for directories, and that a package is never replaced |
| `capture_flow` | two tasks, two layers deep and one; two exceptions, nested captures among them | strict layers are never silent; `get_last_capture` names stored captures only, in a callback that of its own capture or of one the callback has made itself; nested layers keep `LayerContract` |
| `capture_stderr` | the same | *violation*: a closed `sys.stderr` makes a failed capture replace the program's exception |
| `collectors` | two threads, two collectors, the name of one of which may fail to be read, three registrations at a time | names that can be read stay unique, no registration is lost, every collector of a snapshot has left a result or an error before the merge, a result is lost only to the name it was put under; every call ends and the lock comes free (liveness) |
| `collectors_merge` | the same | *violation*: that loss |
| `hooks` | both interpreter hooks, one loop, three changes by the program, exceptions one after another | no unhandled exception is missed while TraceSeed is installed and its slot untouched, whatever changes while the hooks run; none is captured twice; an installed hook comes first |
| `record` | three exceptions, three attributes set by the program, seven configurations in each of which another limit cuts | whatever the exceptions refer to, the record has each on every way to it within the limits and says where it was cut; what each file shows of the record; when the last recorded frame and the newest breadcrumb are shown; what the fingerprint is made of |
| `replay` | some 370 argument trees, four codec states, two events between capture and replay; seven of the trees with two sizes of a payload, all three cases of a capture, and runners with the default limits, a lower or a higher one | `replayable` says that nothing was hidden, cut or lost, and fails to say so in the three cases of `TakenForLoss` only; what `arguments.json` shows, place by place; the two redactions agree but for three named cases; nothing is imported before it is authorized and verified; the call gets the captured arguments, and a run fails for the named reasons only |
| `replay_reconstructable` | the same, one event | *violation*: `replayable` does not imply that `decode` succeeds |
| `context` | two tasks, two keys, limits 1 and 2, three dicts and breadcrumbs in all | tasks do not affect each other; a task sees its settings in force whatever the nesting; the newest breadcrumbs are kept, and when a capture misses the newest: only where the limit of its layer is below the one they were kept under |
| `configuration` | three threads, three limits in two ordered pairs, one value too small | a configuration that was set is lost to a racing first `get_config` only |

Bounds, and why they are enough.  *Archives and directories*: a step of a save
reads its own state and one name; two saves of one name are every conflict
there is and the third save has another name and breaks the limits.  *Layers*:
a layer looks at the exception that reaches it and at its own configuration, so
two nested layers show every meeting of an inner layer's outcome with an outer
layer, and the second task every interference.  *Collectors*: a clash of names
needs one collector registered twice, a lost result three registrations: the one
whose result is overwritten, the one that clashed and the one that overwrites,
two of which may be of one collector whose name could not be read.  *Records*: a
way that meets an exception twice, or two ways to one exception, need two
exceptions and three links; the third exception makes ways as long as the
smallest limits.  `MaxHeight`, 4 in the run, bounds `max_exception_depth`,
which the code does not.  The exceptions other than the root are
interchangeable, hence the symmetry.  *Hooks*: three changes let the program take a hook, have it go
stale and put it back; installs are unbounded.  *Trees*: `max_depth` 5,
`max_collection_items` 2 and a safety depth of 8 levels of JSON in place of 128
are passed by trees of height 6 (the `MaxHeight` of `ValueTree`, a bound on
values that the code does not have) and width 3; the functions recurse on items alone, so a kind at each depth and each kind of container around each
other are what can differ.  *Replay*: two events turn one
codec into another, or change the package twice; a runner's limits are below,
at or above what the capture wrote.  `MCSpec` is `Spec` with one size and the
default limits for all but seven of the trees: what the tree is made of and
what the limits of the runner are meet in `decode` and in the size of the payload
only.  *Context*: three dicts are
two nested settings and a clear, or a setting over two more.  *Configuration*:
two threads that race to make the default and one that sets another; a limit
between two others can be pushed against either.

The proofs remove these bounds, for the properties they are about (section 5):
their constants are any sets of saves, tasks, threads, layers or values, and any
number of files, events or changes, exceptions and links between them, and
limits.  The bounds that stay are any numbers: `MaxHeight`, of values and of
`max_exception_depth`, and the number of attributes the program sets.  In
`Collectors`, `MaxSuffix` is any number too, but a capture that has used up the
suffixes cannot go on in the model where the code counts further.

Fairness is assumed in one run, `collectors`: `FairSpec` has weak fairness of
`Continue(t)`, the next step of the call a thread is in.  It says that the
operating system schedules a thread that can run, and that what the registry
calls - a collector's `name` and `collect` - returns.  None of these steps
waits: the only wait is for `_registry_lock` at the start of a call, and
nothing is assumed about it, for `threading.RLock` promises no order among
those who wait.  Nor is it assumed that a thread ever makes a call.  Under it
`NobodyStuck` holds: a registration that is refused gives the lock back, and a
capture runs to the end of its snapshot though others keep registering.  The
other modules state safety only: a capture waits for user code and for the
file system, and no promise of the code is about either.  The run `record`
ends when the package is saved (`CHECK_DEADLOCK FALSE`).

## 4. The findings

1. `capture_stderr`: the report of a failed capture is itself unprotected
   (`api.py:123`, also 163 and 281).
2. `collectors_merge`: `extensions.update` may overwrite another collector's
   result (`collectors/__init__.py:126`).
3. `replay_reconstructable`: a namedtuple argument is called replayable, and so
   is one of a class or an enum that cannot be imported
   (`serialization.py:160`, 303-326).

Seen while modelling, without a run of their own: `save` stores a package above
a limit of `load_files`, which its own `verify` then rejects (the third save of
`archive` and `directory` is one); "installed" is remembered, not looked up, so
that `install_asyncio` does nothing for a loop whose handler the program has
reset since (`api.py:378`); `max_depth` (8 by default) cuts a chain of causes in
every file long before `max_exception_depth` (20), and `breadcrumbs.json` has the
oldest 64 of up to 100 breadcrumbs; `capture_arguments=False` empties
`arguments.json` and leaves `replay.json` as it is; `traceseed replay` knows no
codecs, so that it decodes no argument that needed one, and has the default
limits, so that it refuses an intact package of a capture with larger ones
(`runner.py:21`); arguments that lose nothing are refused when a text in them
has one of the marks of the redaction in it, when a dataclass has a field
`truncated` that is true, or when their JSON is deeper than 128
(`TakenForLoss`, `engine.py:37-60`); bytes that are within `max_value_length` but
not as base64 are cut in `replay.json` (`redaction.py:304`); of two keys of a
dict with one text, one is lost from `arguments.json` (`redaction.py:78`);
`build_frames` keeps the
first `max_frames` frames (`collectors/__init__.py:237`) where
`docs/ARCHITECTURE.md:124` has "Final N frames (limited).", so that the frames
the fingerprint and `summary.json` take of a long traceback are from its middle
and not of the raise (`FingerprintIsOfTheRaise` says when they are);
`docs/EXTENDING.md:32` has "Pass `replace=True` to replace a previously
registered collector with the same name.", but `register_collector` has no such
parameter (`api.py:416`): the call is a `TypeError`, a taken name is refused
(`RegisterRefuse`), and a registration ends by unregistering its name only
(`RegistrationStays`); `thread_hook` swallows what the previous hook raises (`api.py:346`), where the
other hooks fall back to the default one; the report of a failed capture calls
`str()` on the internal error, which may raise in its turn and leave the layer
(`api.py:160`); a `configure` that
races the first `get_config` may be overwritten by the default (`config.py:220`),
and the overrides given to `configure` alone start from the defaults, not from
the configuration in force.

## 5. The proofs

Each proof module has the same plan.  The properties of the runs are seldom
inductive, so `IInv` strengthens them with what the code's order of steps makes
true between them; TLC was run on it, at the bounds of section 3 or lower, before
it was proved.  One lemma per
action shows that the action keeps `IInv`, `Inductive` puts them together with
temporal logic, and each theorem follows from `Inductive`.  The only assumptions
are the named `ASSUME` of each module, which TLC evaluates in its runs: `NoSave`
is no save, a package has at least one file, and the like.

Every invariant and every action property that a run checks of the modules
below is a theorem, for any value of their constants, and so are the two
refinements of `PackageStore` and the one of `LayerContract`.

- **ArchiveSave.** `NeverHalfWritten`, `StoredIsDurable`, `NoLitter`,
  `WholeLoads`, `PublishedForGood`, `Refinement`.  That a name links to a whole
  file follows from the order of the steps of the save that linked it, so the
  induction carries how `pc`, `temp`, `known`, `body` and `outcome` of a save go
  together (`SaveInv`); `MovedIsShown` and `AtIsMoved` tie saves to names: a
  renamed save left its name linked to something, and a name links to nothing
  but renamed saves of that name; `LoadInv`: a load holds a renamed file and has
  read nothing but it.
- **DirectorySave.** `StoredOnce`, `NoLitter`, `WholeLoads`, `PublishedForGood`,
  `Refinement`.  The same shape, but a name is given once and for all:
  `MovedIsShown` says that a renamed save *is* what its name shows.  That is what
  a load which opens file after file by path rests on: all it has read
  (`LoadContent`) is from the one directory its name will ever show.
- **CaptureFlow.** `StrictNeverEndsSilently`, `OnlyStoredIsNamed`,
  `CallbackAgrees`, `Refinement`.  `Shape` says what is in flight at each step:
  an exception unless the program runs, an `Exception` and a layer on the stack
  while a layer works, a layer that is not strict when it only reports.
  `Recorded` says how far the capture has come: stored before it is accepted,
  named before the callback runs and still named when it has run, unless the
  callback has captured something itself, all of it at the exit of a strict
  layer.  The refinement goes action by action: a step that ends or passes on an exception
  is one of the contract, every other one is a stutter.
- **Collectors.** `NoNameTwice`, `NoRegistrationLost`,
  `EachCollectorAccountedFor`, `MergeLosesNothingElse`.  `LockInv`: whoever is
  between its check or its filter and the assignment of the list holds the lock,
  and what it has computed from the list, given the names it could read, is still so.
  `CollectInv`: each collector of the snapshot the run is through with has left
  one result or an error, the others nothing, and the merge begins when it is
  through with all.  `MergeInv`:
  where each merged result is to be found, or under which later result it went.
- **ExceptionHooks.** `NoExceptionMissed`, `NeverCapturedTwice`,
  `InstalledComesFirst`.  A hook is a chain, so that "captured once" becomes a
  fact about chains: `SlotInv`, `HeldInv` and `MayCapture` say that TraceSeed's
  hook is at one place at most in what is in a slot, saved of it, held by the
  program or still to be called, and nowhere after it has captured - until the
  program puts a stale hook back, which the property excepts.  `Captured` is about the
  chain of one exception as well: until TraceSeed's hook has captured it, that
  hook is the next to be called.
- **TaskContext.** `ContextIsScoped`, `NewestAreKept`, `CapturedWithNewest`,
  `ContextIsIsolated`.  Blocks, tokens and clears need not end in order, so it is
  not enough to know what is in force: `InForce` also says of each open token
  that the dict it would put back is what the settings before its own add up to.
  `Newest`: the breadcrumbs are the last ones said, and the very last of them was
  kept under a limit that lets all of them stay, so that a capture misses it only
  under a lower one.  `Isolated` rests on dicts being added and never changed (`DictsStay`).
- **ReplayRunner.** `NothingUnverified`, `CallFromTheCapture`,
  `FailureHasAReason`.  `OfTheCapture`: a package on disk or in memory is the one
  the capture wrote, or none.  `Progress`: what a run has found out by the step
  it is at.  Nothing is assumed of the functions on values but that
  `_find_replay_issue` answers yes or no and that decoding does or does not
  import.  The last two theorems state invariants of `ReplayRunner` that no run
  checks; they reduce two that `replay` does check: what is called is `decode`
  of `encode` of the captured arguments (`CallIsOfTheCapture`), and a run fails
  for what the package is, for a limit of the runner, for something that has
  moved, or because `decode` fails (`FailureExplained`).
- **ValueTree and Replay.** `ReplayableExactly`, `CallWithTheArguments`,
  `FailureOfTrees`, `ArgumentsShown`, `RedactionsMatch`: every property of the
  run `replay`, with `NothingUnverified`, for arguments of any size and height,
  any `MaxDepth`, any safety depth of the search for issues, any `MaxItems` but
  0, and runners with any limits.  `ReplayAssumption` says what the constants of
  `ReplayRunner` stand for here; it is what `MCReplay.cfg` gives them, and TLC
  evaluates it.  The recursive methods are recursive functions of a tree, and
  trees are of levels: `Levels[n]` are those of up to `n`.  The argument has
  four parts:
  1. *That the functions exist.*  A function on `Levels[n]` that calls itself on
     items extends to the next level (`EncodeExtends` and its like), so there is
     one on all trees (`RecursionsExist`); with it each function equals its body
     (`EncodeRec`, `RedactRec`, `DecodeRec`, ...).  What is to hold of every tree
     follows when it holds of a tree whose items have it (`TreeInduction`).
  2. *Lossless and back.*  By that induction, `_find_replay_issue` has an issue
     with the redacted encoding exactly when some part of the arguments was
     hidden, cut or lost, is taken for such, or the JSON is too deep
     (`SuspectIffLost`, `IssueIffLost`), and decoding gives back what was
     encoded, up to base classes, unless the codec has changed, a class has no
     way back or a part is beyond the reader's depth (`LosslessReadsBack`).  With `CallFromTheCapture` and
     `FailureHasAReason` these are the first three theorems.
  3. *Place by place.*  `ArgumentsSanitized` compares an encoding with the
     arguments at every path into them, and says what may be shown in terms of
     whole paths: `PlacesSplit`, `ShownSplit` and `VisibleSplit` say what a path
     is worth given the rest of it after its first step.  `Agrees` is the
     property at one place of one part; it holds of a part past the depth limit
     (`TooDeep`), of a leaf (`LeafAgrees`), of a container if it does of its
     items (`BranchAgrees`), and hence of all (`ArgumentAgrees`).
  4. *The two redactions.*  `OnlyBytes`, by the same induction: where nothing
     was lost the redaction of the plain arguments takes away no more than the
     other one, but for texts in bytes, what a dict has under a key that is no
     text, and positional arguments whose parameter has a sensitive name.  `ArgumentsWritten` is the invariant that
     `arguments.json` on disk is the one the capture wrote.
- **ExceptionTree and FailureRecord.** `WaysRecorded`, `RecordInFiles`,
  `EndShown`, `FingerprintOfTheRaise`: every property of the run `record`, for
  any exceptions, whatever they refer to, and any limits of at least 1
  (`max_exception_children` may be 0), as `_validate` demands.  `RecordIInv` says that what a
  step leaves behind is what its function makes of the heap: nothing between
  `Begin` and `SavePackage` takes from or adds to it.  What is left is what the
  functions make:
  1. *The functions exist.*  The trees `Build` makes are of the levels below
     `MaxHeight`, so that `Sanitize` and `Encode`, functions on all trees, are
     defined on them; each equals its body.
  2. *The record.*  `BoundedInduction`, on the depth that is left: the tree
     built below an exception and then redacted says, after a way to it,
     what `Reading` says of each way that goes on from there.  It rests on
     three facts.  `LinksForm`: the links `build_exception_info` follows are
     those of `LeadsOn`, where a child's place counts the exceptions before it
     in its group.  `StraightForm`: a way is straight as long as no exception
     is on it twice, which is what the set of seen exceptions decides.  And
     the limit on children that the redaction applies again drops none.  From
     the root this is `RecordOfWays`.
  3. *The files.*  `InfoInduction`, on trees: what `Encode` shows of a tree at
     some depth is what the tree says where `Visible` allows it
     (`ShownOfEncoded`).
  4. *Frames, breadcrumbs, fingerprint.*  Prefixes and suffixes of the numbers
     up to one: no induction, but each limit against each other.
- **Configuration.** `SetIsInForce`, for any threads, limits and orders between
  them.
  `HarmlessBuilder`: a thread about to put the default over a configuration is
  in `raced`, or nothing but the default has been set; `NoneYet`: before there
  is a configuration none has been set.

Where an induction is needed it is over a set of numbers (or of trees) and not
over an operator, since the library's induction theorems take one as a
parameter: `SetInduction` (`Collectors_proofs`, `Replay_proofs`,
`FailureRecord_proofs`) and `LeastNumber` (`TaskContext_proofs`)
follow from the well-foundedness of `<` alone.  With them the filter of
`unregister` is shown to drop one name and keep no name twice (`WithoutName`),
a name made up by the merge to be free (`SafeNameIsFree`), and the setting that
is in force for a key to exist.

Only model-checked: `NobodyStuck`, a liveness property under fairness, which is
out of the provers' reach; every safety property of a run is proved.  The runs
of several modules do not check `TypeOK`; `Typing` proves it.

## 6. What is not modelled

- Texts: the regular expressions of `redaction.py`, the normalisation and the
  digest of `fingerprint.py`, `traceback.txt`; the models tell apart texts that
  match, are too long, or neither.  Of arguments: patterns, marks or too much text in
  the keys of a dict or in the name of a class; collisions of texts of keys
  beyond the first two of a dict; insertion order against the order encode sorts
  by, but for the mark of a dict that is cut; mappings that are no dicts;
  attributes of a dataclass that raise; what a codec makes of its value, and a
  codec that is named like a type `decode` knows (`serialization.py:228`).
- The `custom` function of `Redactor`: the engine builds `Redactor(config)` and
  gives it none.
- Notes of an exception, locals of a frame, metadata and the runtime: each is
  redacted and cut like the parts that are modelled.  `threads.json`: a list of
  the threads there are.
- `_minimal_record`: the record of a capture that failed inside, built from
  constants; that there is one is a step of `CaptureFlow`.
- Calls that do not fit the signature: `_bind_arguments` answers nothing.
- Of `config.py`, the normalisation of the output directory, the field names and
  the patterns; `errors.py`: data.
- `MemoryStorage`: two list appends; its `save` is one outcome of `Save`.
- `cli.py` but for `replay`: reading with the functions `ArchiveSave` models,
  and printing.
- A machine that loses power: files keep what was written when a process dies
  (`save` calls no `fsync`).
- Interpreters without a global lock, for the hooks.

## 7. The plan

Done in this order, the most important first: the store and its proof; the
layers and their contract; the registry; the hooks; replay; context;
directories; the record and the fingerprint; the arguments; liveness of the
registry; the configuration and its proof; the proofs about directories, layers,
the registry, the hooks, context, the steps of a replay, trees of arguments and
the record.  What is left:

1. *Modules*: `verify_files` member by member.
2. *Proofs*: that `ValueTree` and `ExceptionTree`, which have an `encode` each, of
   arguments and of the record's dataclasses, describe one function.
