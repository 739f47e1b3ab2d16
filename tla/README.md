# FacePass in TLA+

FacePass is face authentication for Linux: a daemon recognises a user in front
of the camera, a PAM module asks it to, and a command-line tool manages the
stored faces and the configuration. This directory holds TLA+ models of its
parts, TLC configurations that check them on small instances, and proofs checked
by TLAPS. `PROJECT.json` lists the components, runs, mutants, the map from
definitions to source lines, findings, hazards and theorems.

To check a run, `tlc -config X.cfg M` with the module and configuration of the
table below; to check the proofs, `tlapm M.tla` for each module whose name ends
in `Proofs`.

## The system

| Component | Source | State it keeps | Operations |
|---|---|---|---|
| Session registry | `facepass-daemon/src/control.rs` | `next_id`, `current_id` (atomics), `sessions` (map under a mutex), a cancel flag per session | `register`, `finish`, `cancel_current` |
| Recognition session | `facepass-daemon/src/auth.rs` | frame, valid-frame, streak and error counters, the liveness detector, the best match | `authenticate_sync`: setup, then the frame loop |
| IPC server | `facepass-daemon/src/server.rs` | one task per connection | accept, read one line, dispatch `auth` / `cancel`, answer |
| Lifecycle, reload | `facepass-daemon/src/main.rs`, `runtime.rs` | shared configuration, pid file, runtime-state file, socket, shutdown channel | start, publish, serve, reload on SIGHUP, stop on SIGINT/SIGTERM, clean up |
| PAM module | `facepass-pam/src` | none | one request with a read timeout; maps the answer to a PAM code |
| Face store | `facepass-core/src/storage.rs`, `models.rs` | per user: `metadata.json`; per group: `metadata.json` and `.face` files | create group, save face, delete faces / group / user, set or repair the default group, resolve selectors, load |
| CLI commands | `facepass-cli/src/commands` | none of their own | `add`, `remove`, `config`, `test`, `cancel`, `list`, `status`, `enable`, `disable`, `cameras` |
| Configuration | `facepass-core/src/config.rs` | the TOML document: base, presets, active preset | load with fallbacks, resolve a preset over the base, validate, switch presets |
| Matching | `facepass-core/src/matching.rs` | none | similarity, best match, any match |
| Face selection and liveness crops | `face_validation.rs`, `anti_spoofing.rs` | none | primary face, crop rectangles, model profiles |
| Security and identity | `facepass-core/src/security.rs` | none | SSH and lid checks, current user |
| OpenCV wrappers | `camera.rs`, `detection.rs`, `recognition.rs`, `alignment.rs` | device handles | read, detect, align, extract |

How they interact: a client connects to the socket and sends one JSON line. For
`auth` the connection's task takes a snapshot of the shared configuration,
registers a session, runs `authenticate_sync` on a blocking thread and finishes
the session when that returns or panics. For `cancel`, another connection's task
raises the flag of the session `current_id` names; the recognition loop looks at
its flag twice per frame. The signal task replaces the shared configuration;
sessions keep their snapshot. The recognition session reads the store that the
CLI's processes write, with nothing but the file system between them.

What is hard about it:

* *interleaving*: the registry's atomics are not covered by its mutex; CLI
  processes read and rewrite whole files without locks; main and the signal task
  race during startup;
* *failure*: a process is killed between two file writes or in the middle of
  one; the liveness detector fails in the middle of a session; a reload fails
  half-way;
* *ordering*: a cancel arrives while a frame is being read, a signal before
  anyone listens, a timeout during the last frame;
* *termination*: sessions and shutdown depend on limits that may be switched off.

What makes each component correct is stated as the properties below.

How the modules fit together:

```
CancelService <-- implements -- AuthControl      AuthService <-- implements -- Daemon
      ^                                                                          |
      +------------------------------- INSTANCE ---------------------------------+
Matching, FaceGeometry <-- EXTENDS -- Capture     Recognition  Storage  Lifecycle  Config
```

A module `M` is checked through `MCM`, which gives its constants values, and proved
about in `MProofs`; `CaptureProofs` also holds the lemmas about `Matching`.

`Daemon` takes from the other modules what they show and not how: the registry
is `CancelService`, a session is something that ends when a limit is reached or
a cancel is seen (`Recognition!LimitedSessionEnds`, `CancelledSessionEnds`), a
reload keeps the endpoint and a stop leaves the accept loop (`Lifecycle`).

## What is modelled

### AuthControl, CancelService

`AuthControl` is `control.rs` at the grain of single atomic operations and
mutex-protected sections. A handler goes through `RegisterId` (`fetch_add`),
`RegisterInsert`, `RegisterPublish` (the store to `current_id`), runs, and then
`FinishRemove`, `FinishCompare`, `FinishClear`; a canceller through `CancelLoad`
and `CancelLookup`. The atomics are `Relaxed`; each is a single variable, on
which relaxed operations are already totally ordered, and the only data reached
through them is behind the mutex, so interleaving the operations is enough.
`overlapped` and `witness` are history variables.

`CancelService` is what the registry promises: sessions open once and close, a
cancel flags one session that is open at that moment, or is refused. It does not
say when a cancel may be refused; that is the subject of
`LoneSessionIsCancellable` (never for a session that is alone) and of
`NoActiveAnswerIsTrue` (which the code does not keep). `AuthControl` implements
it under the mapping `Service`: a session opens when its entry is inserted.

### Recognition

One session of `authenticate_sync`. A frame passes the stages `head`, `read`,
`gate` (restart of a missing liveness detector), `detect`, `live`, `match`; each
way a stage can end is an action, with its `continue`, its `return` and its
resets. What camera and models deliver is nondeterministic. `Expire` is the
clock, `RequestCancel` is `AuthControl!CancelLookup` seen from the session. The
history variables count what the code does not: matches, matches without a
liveness check, and matches on directly successive frames.

### Storage

The files of one user and the commands that write them. Every read or write of
a file is an action, so `add`, `remove --face`, `remove --group`,
`remove --user` and `config --set-default-group` interleave wherever the
operating system can switch between them. `Abandon` kills a process between two
accesses, or makes it return an error there, and `Tear` kills it inside
`fs::write`, which truncates first. The directory trees that `remove_dir_all`
takes apart go entry by entry in any order.

`added` and `removed` record what a command has reported; `stale`, `overlap` and
`cut` record what the weaker guarantees are conditional on. Empty directories are
not kept apart from absent ones: `remove --user` finds a user if there is any
file, and for a user whose directory is there and empty, which an `add` killed
at its first write leaves, it would remove that directory and nothing else.

### Lifecycle

The daemon's process from start to exit, twice in a row, with main and the
signal task as two threads and what they leave on disk as state that survives.
A configuration is its preset and its endpoint (socket path and pid file, the
fields a reload defers). `Crash` is a kill at any point, `MainFails` an I/O
error of main's own steps.

The runtime-state file is written as `fs::write` does, a truncation and then the
text, by main and by the signal task, each of which may fall between the other's
two halves (`Truncated`, `Written`, `CutShort`). `remove_file` may fail, and its
result is ignored, before binding, after serving and in the cleanup (`Removed`,
`Cleanup`); `kept` records that something stayed. `bind` then finds the path in
use. Of the connections only the blocking threads of their sessions appear
(`BeginSession`, `EndSession`), because dropping the runtime waits for them
(`Exit`): those in `Endless` have no limit and need not end.

### Daemon, AuthService

Clients, connections, sessions and the process. A client connects, writes one
line and reads one; its connection's task goes `reading`, `session`, `sending`,
`ended`; a session has a thread, which neither a client that leaves nor a task
that is dropped can stop. `Callers` are the PAM module and programs like it,
those in `Unlimited` ask with timeout 0; `Cancellers` stand for `facepass cancel`
and for clients that send nothing or nonsense. `GiveUp` is the client's read
timeout. `Stop` is the accept loop's end, after which the runtime drops tasks
and threads not begun (`DropTask`) and waits for those that have begun
(`ProcessEnds`); `Crash` takes all of them at once.

PAM's path is built in, cancel's is the file's, and the daemon listens where it
did at its start, so `Connect` may find nobody. Because a request is one line and
a connection carries one request, lines are not modelled. A task that has not
read its line yet and a connection not yet accepted look the same to a client,
and are one state.

`AuthService` is what all this promises a program that authenticates: its
request is decided at most once, and it is told that decision or learns nothing.
`Daemon` implements it with the thread's outcome as the decision.

### Config

Documents at two locations, the CLI and the daemon each with its own search
order, and commands that read a document, change it and rewrite it. `Truncate`
and `Write` are the two halves of `fs::write`; between them the file is empty,
which parses as a document of defaults. `Abandon` kills a command; a write cut
short leaves the empty document, one that does not parse, or one of its `Prefixes`:
part of the base, serde's defaults for the rest, or the base and the first presets,
the last of them perhaps in part. Which key of a table is written first is left
open, and the prefixes are therefore more than the code leaves, except that no
number loses only its last digits. `Edit` is the administrator's editor, and what
`--set` opens.

Settings are the fields `validate` relates to one another, one threshold for
those it compares with a range and one path for those it looks up; a preset is
any part of a table, so values that are negative, that fail validation and that
are no table at all occur. `authored` is the document as last written whole,
`cut` and `crossed` name the locations a kill or an overlap has made doubtful.

### Capture, Matching, FaceGeometry

`test` and `add`, frame by frame. A frame is the list of rows a detector finds:
boxes, landmarks in or out of them, confidences, liveness scores and features.
Which row is chosen, whether it is valid, what the liveness models are shown and
which enrolled face it matches are computed, not chosen.

`FaceGeometry` works in tenths of a pixel (`Unit`) and rounds roots and
quotients down to them, where the code has `f32`: the case distinctions, the
clamping, and the separate rounding of position and size to whole pixels are the
code's; which of two windows a fraction of a pixel apart is taken may differ.
`Matching` keeps cosines as signed squares, exact fractions in the same order.

`check_liveness` validates the row a second time and reports it invalid if that
fails; with the same row and frame it cannot, and `LivenessSeesTheFace` says so
for the model's own rectangle too. So no action stands for that branch.
The timeout of `test` is looked at once per frame, where `TestStops` may take it.
An OpenCV error in the search for the primary face drops the frame without any
line of the report (`TestSelectFails`, `test.rs:388`), so the report's sum is
stated with those frames apart. Keys arrive in any frame in which they are read.
Ctrl+C is a kill that leaves nothing behind, except that raw terminal mode is
not modelled.

## What the runs check

| Run | Instance | Result |
|---|---|---|
| `auth_control` | 3 handlers, 2 cancellers, 4 sessions | holds |
| `auth_no_active` | 2 sessions | **violated** (finding 1) |
| `recognition` | limits in {0, 2}, streak 0..2, all switches, counters to 3 | holds |
| `recognition_streak` | the same | **violated** (finding 2) |
| `recognition_unbounded` | the same | **violated** (finding 3) |
| `storage` | 2 processes, 4 commands, 2 groups, 3 faces, limit 1 | holds |
| `storage_capacity` | 2 processes, 2 commands | **violated** (finding 4) |
| `lifecycle` | 2 processes in turn, 1 edit, 2 signals, 2 presets, 2 endpoints, 2 sessions each | holds |
| `lifecycle_lost_signal` | 1 process, 1 signal | **violated** (finding 5) |
| `daemon` | 1 PAM module, 1 program without timeout, 1 canceller, 1 edit | holds |
| `config` | 2 commands, 2 edits, 2 locations, 2 documents, 7 names | holds |
| `capture` | 10 setups, 14 kinds of frame, up to 4 frames | holds |

**auth_control.** `CurrentIsNotStale`: whatever `current_id` names is in the map
or is being finished, in every order in which stores of overlapping calls can
land. `QuiescentRegistry`: nothing is left once all handlers are idle.
`LoneSessionIsCancellable`: with one client at a time, as PAM uses the daemon, a
cancel always finds the session. `ServiceSpec`: refinement of `CancelService`.
Three handlers let two overlap while a third registers between a load and a
store, and the fourth session reuses a handler; symmetry over handlers and over
cancellers is sound here because no property is temporal beyond the step
refinement and no definition picks one of them.

**recognition.** `SuccessIsEarned`: no exit reports success without at least one
match, the matches the streak needs and the valid frames required.
`UncheckedMatchesBounded`: while the liveness detector is broken, frames are
matched without it; each costs one of three errors, whatever mix of restart and
check failures, so a session has at most two. `NoFrameAfterCancel`: a frame read
after the flag rose is not judged. (A session cancelled during its last frame
may still succeed: the flag is not looked at again.) `CountsNested`: the
counters bound one another on every path. `LimitedSessionEnds` and
`CancelledSessionEnds` are the two ways the loop is known to end. Limits of 2
and streaks up to 2 make every comparison come out both ways with room on both
sides; the counters stop at 3, one above every limit, which no comparison can
tell from counting on.

**storage.** `RemovedStaysRemoved` and `DefaultIsListed` hold whatever overlaps
and whatever is killed: a removed face is not loaded again even if stale
metadata listing it is written back, and a default group, if there is one, is
listed. The others are promises to an administrator who runs one command at a
time: `AddedIsLoadable` (kills allowed; only metadata torn by a kill hides a
face), `SummariesSettle` (the counts agree except for groups whose last command
was cut short), `SelectorsUnambiguous` (no two groups or faces share a name),
`CapacityWhenUndisturbed` (no kills either). Four commands are enough to add
twice, remove and add again with one of them killed; two groups for a default to
move between; a limit of one face is exceeded by the second.

**lifecycle.** `PublishedEndpointIsServed`: the runtime-state file names the
socket that is being served across every sequence of edits and reloads.
`PublishedIsRunning`: between reloads the file is the configuration in force,
unless a reload overtook main's first write or its own write failed; both do
happen and are named in the property (`early`, `unwritten`).
`GracefulStopLeavesNothing`: after a stop on request no file is left that could be
removed, and none comes back. `ReloadIsHeeded`: a SIGHUP sent after an edit brings
that edit into force, also when it arrives during a reload that has read the older
file; a failed write of the runtime state does not matter, the swap comes first.
`SubscribedStops`: once the server listens on the channel, a stop signal that
reaches the task makes main clean up whatever sessions run, and ends the process
unless one of them is endless, for which the runtime waits. Two processes in turn
are needed for what one leaves to the next; two signals for a reload that meets a
stop or another reload; one edit, because a reload that reads the older file and
one that reads the newer differ by one; two sessions for one that ends and one that
need not.

**daemon.** `DoneSessionsAreClosed`: a connection that is done with its session
has closed it in the registry, whether or not its client is still there, and a
session that runs is open.
`LimitedRequestIsAnswered`: a client whose request has a limit hears from the
daemon, by an answer or a closed connection, and never depends on its own read
timeout, on which there is no fairness. `CancelledRequestIsAnswered`: so does one
without a limit whose session a cancel has found, also if its thread is still queued
or a stop comes first. `StopEndsProcess`: a stop ends the
process unless a session is running that has no timeout, no frame limit and no
cancel; that exception is real. `AuthServiceSpec`: the refinement. One caller
with and one without a timeout make two sessions that overlap, one of which may
be endless; a canceller can hit either; the edit switches the frame limit and
moves the socket, so a reload, a mismatch of paths and a session under the older
configuration all occur.

**config.** `SwitchKeepsDocument`: `--use-preset` changes one name in the
document and nothing else, so switching back restores it; the exceptions, a save
cut short and an overlap, are the code's and are named. `SwitchTakesEffect`:
after the reload a switch asks for, the daemon runs that preset, provided it
reads the file that was written and the preset resolves; the command checks
neither. `RunningWasWritten`: what the daemon runs is one document's active
preset over its base, read off the document without the code's merging. Two
commands are a switch and a switch back, or two that overlap, or one after a save
cut short; two edits move a document and break or restore it; of the seven names
some are known, unknown, empty, no table, or do not resolve. The two commands are
interchangeable, and no definition picks one of them, so symmetry is sound.

**capture.** `JudgedFaceIsBest`: the one-pass searches for the primary face and
for the best match agree with their definitions by quantifiers, ties included,
and with `matches_any` and the sorted `find_all_matches`. `LivenessSeesTheFace`:
a face that passed validation always has a rectangle for each active model, in
the frame and around the face. `SavedFaceIsBest`: what is enrolled is the most
confident face let through, and nothing is after a cancel or error.
`ReportTellsFrames`: the counters and the verdict agree with the history of the
frames; they add up to the total but for the frames `test.rs:388` drops. The
frames hold boxes in the middle, in corners, as wide or as high as a crop
allows, too large, cut off by the frame and without landmarks, rows better than
the valid one, ties, and all results of liveness and similarity; four frames are
enough for a streak of two, a break and another match, and for a third liveness
error.

Deadlock is not checked: in each of these models the system may rightly stop (a
session ends, commands, edits and signals run out, a process is down).

Each property of a passing run has a mutant, a plausible fault in one of the
operators it depends on, which makes TLC find the property violated. The
faulty variants stand before the definitions they replace, with a suffix that
names the fault.

### Fairness

`Recognition!FairSpec`: weak fairness of the loop's steps, because the blocking
thread runs and camera and model calls return, and of the clock. Cancels are not
fair: nobody has to cancel. `Lifecycle!FairSpec`: weak fairness of main and of
the signal task, because the runtime polls both on its own threads, and of the end
of a session that has a limit (`Recognition!LimitedSessionEnds`). Starting, editing,
signals, crashes, the beginning of sessions and the end of endless ones are not
fair. `Daemon!FairSpec`: weak fairness of
each connection's task, because the runtime polls it, of a client's reading what
is there, of starting a queued thread (the pool of blocking threads is larger
than the sessions of a machine with one camera), of the end of a session that is
limited or cancelled, and of the runtime's end when nothing holds it. Connecting,
giving up, editing, reloading, stopping and crashing are not fair. `AuthControl`,
`Storage`, `Config` and `Capture` have no liveness properties and no fairness.

### Findings

1. `auth_no_active`: "No active authentication to cancel" is answered while a
   session runs, because `current_id` names one session only and is cleared by a
   load, a comparison and a store that are not atomic (`control.rs:48-50`).
2. `recognition_streak`: frames that cannot be read or give no feature do not
   end a streak, so "consecutive matched frames" (`config.rs:472`) need not be
   consecutive.
3. `recognition_unbounded`: validation insists on a termination condition and
   accepts `video.timeout` or `valid_frames` alone for it, neither of which ends
   the daemon's loop.
4. `storage_capacity`: `max_faces_per_group` is compared before the capture with
   a count that another command, or a killed one, makes out of date.
5. `lifecycle_lost_signal`: a stop signal taken before the server subscribes is
   lost, and no later one is taken.

## What is proved

For every value of the constants that satisfies the modules' assumptions:

* `AuthControl`: `TypeOK`, `CurrentIsNotStale`, `QuiescentRegistry`,
  `LoneSessionIsCancellable`, and that the registry implements `CancelService`
  (initial states, then every step as a service step or a stutter).
  The inductive invariant `IInv` adds what the properties take for granted: ids
  are allotted once and never 0 (`IdsAllotted`), the map holds exactly the ids
  of the handlers between insert and remove (`MapMatchesHandlers`), a current id
  has an owner that has published it and not yet given it up (`CurrentHasOwner`),
  and a handler noted as alone is alone (`AloneMeansAlone`). `CurrentIsNotStale`
  alone is not inductive: it does not exclude a handler that has passed its
  comparison while its id is current. The assumption is only that `MaxSessions`
  is a natural number.
* `Recognition`: `TypeOK`, `SuccessIsEarned`, `UncheckedMatchesBounded`,
  `NoFrameAfterCancel`, `CountsNested`. `IInv` strengthens them with the point in
  the frame: which counters are still one short of which (`CountsInStep`), that a
  frame about to be matched without a liveness check has been paid for with an
  error (`UncheckedPaidFor`), and that the session can afford another error as
  long as it has no answer (`AnswerEndsIt`). The assumptions are that `CountCap`
  is positive and that the configurations' limits do not exceed it.
* `Daemon`: `TypeOK`, `DoneSessionsAreClosed`, and that the daemon implements
  `AuthService`, for any callers, cancellers, paths and   configurations and any
  number of edits. The assumptions are that callers and   cancellers are different
  clients and that configurations have paths among   `Paths`. `IInv` adds that a
  thread has a connection that asked for it and a   connection a client
  (`ConnectionsHaveClients`), that while the process serves   threads and open
  sessions go together (`SessionsAreTracked`), and that an answer on its way is
  the outcome of the caller's own thread   (`AnswersAreOutcomes`), from which the
  refinement follows.
* `FaceGeometry`: `ValidFaceIsShown`, for every frame, unit, box and scale: a
  valid face has a rectangle for every liveness model, in the frame and around
  the face. The argument goes one axis at a time (`WindowHolds`, `PixelsRound`,
  `AxisShown`): a window that fits contains the box, rounding moves each end by
  half a pixel, and cutting to the frame moves only what lies outside; then that
  the last size tried, the whole frame, always fits (`CropIsBuilt`). The
  assumptions are that sizes and scales are positive and that `NoRect` is no
  rectangle.
* `Lifecycle`: `TypeOK`, `PublishedEndpointIsServed`, `PublishedIsRunning`,
  `GracefulStopLeavesNothing`, for any presets, endpoints, sessions, edits, signals
  and restarts, and for files that are torn or cannot be removed. `IInv` adds that a
  process has one endpoint, which the signal task keeps in every configuration it is
  about to install or write (`OneEndpoint`); that the only live socket is the one
  main serves (`OneSocket`); that once main has opened the runtime-state file what
  parses in it is this process's and not what a crash left
  (`PublishedByThisProcess`); that until a reload overtakes main one writer at a time
  is at that file, so that it is whole and current between reloads
  (`PublishedOrOnItsWay`); and that a shutdown message means the task has ended, so
  that no reload can write after the cleanup (`StopIsLast`). The assumptions are that
  the bounds are natural numbers, that the sentinels are no configurations, and that
  endless sessions are sessions.
* `Storage`: `TypeOK`, `RemovedStaysRemoved`, `DefaultIsListed`, for any number
  of commands that overlap and are killed anywhere. Both depend on what a process
  holds in memory and may write back much later: every user metadata on disk and
  in memory names a listed default (`DefaultsListed`), and a face that is removed,
  or that a command will report removed, has no file, while a file is only ever
  written under an id that was never removed (`RemovedIsGone`). `TargetsKnown` and
  `KindsKnown` tie a process's stage to its command and what it works on, and
  `LoneCommand` is the part of `DefaultIsListed` that depends on no overlap.
* `Storage`, for commands run one at a time: `AddedIsLoadable`, `SummariesSettle`,
  `SelectorsUnambiguous`, `CapacityWhenUndisturbed`. A second invariant,
  `LoneIInv`, is inductive under the first. It says what the one command in
  progress may rely on although it read the files some steps ago: its group is
  listed or will be (`LoneTarget`); names differ in what it holds
  (`LoneNames`); the label it chose is still free, and the list it is about to
  write is the group's but for its own change (`LoneLabels`); that list and the
  metadata it is about to write keep every face reported added (`LoneAdded`); a
  summary agrees with its group unless this command has rewritten one and not yet
  the other, or a command was cut short there (`LoneSummaries`); with nothing cut
  short, the summary compared with the limit is the group's, so that there is room
  for the face (`LoneCapacity`). `GroupsAreNamed` holds whatever overlaps: nothing
  refers to a group before it has a name. None of the four is inductive without
  the others: a face stays loadable because its group stays listed, which depends
  on what a command holds of the user's metadata; the limit depends on the
  summaries. The assumptions of both inductions are that the face ids are a finite
  set, that `None` is no group and no name, that a missing or torn file is nothing
  that could be read (`SentinelsAssumption`), and that the bounds are natural
  numbers.
* `Config`: all its invariants, for any search paths, documents, preset names and
  installed models, any number of commands at once, edits and reloads. `IInv` adds
  that what a command is about to write differs from the document in the name of
  the active preset (`HeldIsCurrent`), unless two commands at work on it were
  noted as crossing (`CrossingIsNoted`), that a switch which asked for a reload is
  in the document (`SwitchIsWritten`), and which documents there can be at all
  (`DocumentsWritten`, `CommandsHold`): those written or shipped, switched, or cut
  short, which needs that what is left of a document is one (`PrefixIsConfigFile`).
  `RunningWasWritten` then needs
  `SwitchKeepsDocument`, and that merging tables key by key is what the document
  means (`ResolvingReadsOff`). The assumptions are that search paths are sequences
  of locations, that documents are records with a complete base and tables or
  non-tables as presets, that the order of presets names them all, that sentinels are
  no documents or locations, and that the bounds are natural numbers.

* `Matching` and `FaceGeometry`, by `CaptureProofs`: that `SelectPrimaryFace` finds
  the first of the most confident valid rows (`PrimaryIsBest`), `FindBestMatch` the
  first of the most similar candidates (`MatchIsBest`), that this one heads
  `FindAllMatches` if it passes the threshold (`AllMatchesHead`), and that the signed
  squares of cosines are ordered as numbers are (`FractionsOrdered`), for sequences
  of any length.
* `Capture`: `TypeOK`, `JudgedFaceIsBest`, `LivenessSeesTheFace`, `SavedFaceIsBest`,
  `ReportTellsFrames`, for any commands, frames, thresholds and enrolled features.
  `IInv` says how the loop's memory relates to the frames seen: the frame looked at
  came from the camera and its primary face is known (`FrameInv`); a match belongs
  to the face still being looked at (`MatchInv`); the face kept is the best let past
  the liveness check, but for one that has only just been (`SavedInv`); the counters
  add up with one frame uncounted or unjudged in between, and leave the errors room
  for one more (`CountInv`); they are those of the frames in the trace (`TraceInv`);
  and no unbroken stretch of the trace has more matches than `max_streak`, and none
  that reaches its end more than `streak`, while some stretch has as many
  (`RunInv`). The report's sums are not inductive alone: they hold between frames
  and not within one; and `max_streak` can only be kept the longest run with `streak`
  known to be the last. The assumptions are the types of rows, setups and
  thresholds (`InputsAssumption`), that percentages lie in 0..100, that `MaxFrames`
  is positive and that `None` is no row and no reason.

What a fold computes is found by induction on the length of its sequence. The
library's induction theorems take an operator, which the provers cannot
instantiate; `EveryNat` in `CaptureProofs` states induction over a set instead
(a set of numbers that holds 0 and each successor is `Nat`), and follows from the
existence of a least number, that is, from `WFMin` and `NatLessThanWellFounded`.
A fold is a `CHOOSE` of a function that satisfies its equation: `FoldExists` builds
one, and the scans (`PrimaryIsScan`, `DotIsScan`, `MatchIsScan`) read the equation
off along the initial segments.

Only model-checked are the liveness properties, `LimitedSessionEnds`,
`CancelledSessionEnds`, `ReloadIsHeeded`, `SubscribedStops`,
`LimitedRequestIsAnswered`, `CancelledRequestIsAnswered` and `StopEndsProcess`:
TLAPS proves no fairness arguments. The runs that expect a violation are
counterexamples and have nothing to prove.

## What is not modelled

* Image processing, and the values of features and scores: `Recognition` takes
  any outcome, `Capture` a choice of rows. Rectangles that are only drawn, and
  probing a model for the size of its input.
* `video.timeout` as time: deadlines are nondeterministic (`Expire`, `GiveUp`,
  `TestStops`), so nothing is said of how long anything takes.
* The wording of messages, the status line, previews, commands that only print.
* The files under `/etc/pam.d` that `enable` and `disable` edit, one at a time
  and with no other actor.
* Security checks and identity: single reads of the environment, `/proc` and
  `/sys` in a fixed order, without state.
* Two daemons at the same time: the service manager starts one. Several users'
  stores do not interact, and the order of groups in a listing is not kept.
* The exit status of `test`. `README.md:333` says "返回退出码表示结果" (the exit
  status tells the result); `test.rs:823` returns `Ok` whatever the verdict is.
  A model has nothing to add to that.
* `l2_distance`, which nothing calls.

## Plan

All components with state are modelled, and every invariant and step property of
a run is proved. What a later version could add: a proof that `Capture` does not
depend on `MaxFrames` for commands that have a limit of their own, and lemmas that
relate `FaceGeometry`'s `AdaptiveValidCrop` to the area it aims at.
