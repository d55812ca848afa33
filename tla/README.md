# A TLA+ model of nocruft

nocruft runs `nix-shell` (or any program), follows the processes it spawns with
eBPF tracepoints, and afterwards lists the files they made, with the option of
deleting them.  This directory models all of it that keeps state: the probes in
the kernel, the replay of their events in user space, the main loop between
them, the command line, the filters of the summary, and the deletion.

## 1. The system

| Part | Source | State | Operations | Model |
|---|---|---|---|---|
| BPF probes | `nocruft-bpf/src/nocruft.bpf.c` | `tracked_pids` (hash, 8192), `enter_ctx` (LRU hash, 4096), `events` (ring, 256 KiB) | fork and exit probes; an enter and an exit probe for each of 17 syscalls | `Probes` |
| Event format | `bpf_events.rs` | | the fields of `struct event` | `Probes` (`Event`) |
| Replay | `main.rs` `State`, `handle_event`, `push_event` | `cwd_cache`, `fd_map`, `events`, `overflow_warned` | one branch per event type | `Tracer` |
| Main loop | `main.rs` `main`, `set_signal` | program counter, disposition of SIGINT | prepare, spawn, two seeds, poll/try_wait, drain, emit | `Nocruft` |
| Checks | `caps.rs` | | capabilities, BTF | `Nocruft` (`Privileged`, `CheckKernel`) |
| Path resolution | `pathres.rs` | | `proc_cwd`, `resolve`; `exists_now`, `file_btime_unix_ns` | the first two in `Tracer`, the others in `Summary` |
| Command line | `cli.rs` | two buckets of tokens | `parse_argv`, patterns | `Cli` |
| Summary | `output.rs` | paths listed so far | `filter_event`, dedupe, four output modes | `Summary` |
| Deletion | `output.rs` | paths still to look at | prompt, confirmation, `perform_delete` | `Cleanup` |

How they interact.  Probes run in the context of the task that makes the call,
so probes of different tasks interleave at every step.  An enter probe leaves
the arguments in `enter_ctx`; the exit probe of the same task picks them up,
emits an event if the call succeeded, and deletes the entry.  The fork probe
propagates membership in `tracked_pids`.  User space polls the ring, one event
at a time, any time later; it keeps a cwd and a descriptor table per task by
replaying events in order and, where it has nothing, reads `/proc`, which shows
the present.  `main` spawns the child first and seeds cwd and pid after.  When
the root is dead it drains the ring and hands the captured events to `emit`,
which asks the filesystem about each of them and, if a flag says so, deletes.

What is hard: all of the above is concurrent; three bounded maps lose data in
three different ways; reads of user memory may fail; ids are reused; threads
share what the replay keeps per thread; `/proc` and the filesystem answer a
later question than the one asked; the polls of the drain may stop early; the
deletion goes by names that others, descendants that outlive the root among them,
may make lead elsewhere between two calls.  `PROJECT.json` lists each hazard at its line.

What makes each part correct:

* Probes: an event tells of one real, successful call of its own task; nothing
  of one call leaks into another; whatever is missing is missing for a known
  reason; only the spawned tree is followed; a task's fork comes first.
* Replay: a file is reported under the path at which it was made; the state of
  a task is that of the task, and goes with it; the cap cuts cleanly.
* Main: a summary always comes, and covers all that was in the ring when the root
  was found dead if one poll of the drain ran to its end.
* Command line: the child gets exactly what is not nocruft's.
* Summary: every mode lists the paths of the events that pass, in order.
* Deletion: only by a name that was listed (or chosen) does anything go, only what
  the name leads to, nothing older than nocruft by nocruft's own mistake, and what
  was asked for is gone in the end.

## 2. Modules

There are two towers.  `Probes` → `Tracer` → `Nocruft` each EXTEND the one
before and compose its actions with their own part of the step, so a step of
`Nocruft` is a step of the kernel, the probes and user space at once.
`Cli` → `Summary` → `Cleanup` do the same for what the user asks and gets.  The
towers meet in `State.events`: how an event comes to have its path is the
subject of the first, and the second takes it as given (`Told` says what the
replay may have made of a path, a wrong one included).

**`Probes.tla`** `task`, `call` are the kernel's; `tracked_pids`, `enter_ctx`
and `log`/`consumed` are the maps.  The ring is the part of `log` behind
`consumed`, and an event that does not fit `RingSlots` is lost.  `Reserve` gives an
event its place; when it may be consumed is left open here.  A dead task is a
zombie until `Release` (for the root: `Reap`) frees its id.
A syscall is two steps, `SysEnter` and `SysExit`.  `Wanted`, `StashFlags`,
`Etype`, `Succeeded` are the per-syscall differences between the probes;
`stash_enter`, `emit_exit`, `handle_fork`, `handle_exit` are the functions of
that name.  A path is a member of a set with a length; what does not fit becomes
`Cut[path]`.  The history variables `done` (successful calls), `origin` (which
of them an event tells of), `tree` (the live descendants) and `mishap` (the ways
to miss something that have occurred) are only read by properties.

**`Tracer.tla`** adds working directories and descriptor tables to the kernel
(`lead` tells whose a thread shares; a leader may exit before its threads, its id is
free only after them), and `State` with one operator per branch
of `handle_event`.  The history variables say when the replay *can* be right:
`known` are the tasks whose cwd follows from the log, `mapped` the descriptors
whose directory does, `base[i]` is the directory from which the call of event
`i`, or the child of a fork, really started, and whether that must come out.
They make the exactness properties strong where the code gives a guarantee and
silent where it does not (threads, lost events, `/proc`); the violation runs
then show what those gaps cost.  `ReportIsExact` uses none of them: it says of a
plain run (`PlainRun`: no threads, every move by a path the probes could copy)
without mishap that each file the tree made by an absolute path or from its cwd
is reported where it was made.

**`Nocruft.tla`** is `main`: a program counter over the tracer, from the checks
(every set of the four capabilities) to the summary.  When `main` stops, the
probes are detached and nothing more happens.  A probe is two steps here: its event
is reserved with the step of its task and `held` until `Submit`, during which the
task does nothing else, and `PollEvent` does not get past an event that is held.
`PollReturn` and `DrainReturn` are enabled at any time, with events left or not:
`rb.poll(..).ok()` (main.rs:157, main.rs:164) drops errors, among them EINTR when
nocruft is stopped and continued, and libbpf stops at a record not yet submitted.
`cut` counts the polls of the drain that left something behind.
`CreationsReachTheFilters` runs through all three modules, from the call to an event
that `filter_event` does not drop as truncated or unresolved.  `Distance` counts what is left
for main to do once the root is dead (events in the ring, polls of the drain,
labels), and `StraightToSummary` says that each of its steps makes it less.

**`Ledger.tla`** is the abstract specification of a report: true, in order, at
most once, at most `Cap`.  `Nocruft` is shown to implement it with
`made <- {d : Creates(done[d])}` and `told <- origin` of the captured events.

**`Cli.tla`** is `parse_argv`: `Route` is the body of its loop, `Passed` the state
after each number of tokens and `Walk` the last of them, with clap's verdict on
nocruft's bucket as an external operator that reads the attributes of
`NocruftFlags`.  `Swallowed`, `Own`, `Rest` and `Given` say of a whole command
line, without the loop, which words are values, which are nocruft's, what the
child should get and what values a flag was given.

**`Summary.tla`** has a filesystem of places, each with a kind and a birth time
before or after nocruft's start, and a target if it is a symbolic link.  A path is a
name: `At` finds anew, for each call, the place it leads to, through the one
directory on its way that may change and the links found there.  The tracked program
and everyone else change places; others may also turn a link elsewhere or put one
in place of a directory, at any moment (`Outsiders`); `Filter` and `AskBirth` are the two looks of `filter_event`
at the filesystem, with other steps between them; `Keep` is what each mode does
with a path that passed.  The history variable `kept` holds the places whose
older file has never been away, `undisturbed` is true while nobody has
interfered with the report, `led` holds where a path led when it was listed, and
`redirected` the listed paths that others have made lead elsewhere since.

**`Cleanup.tla`** adds the choice of deletion in `emit`, the prompt and its
confirmation, and `perform_delete` with `lstat` (`Look`) and the removal
(`Remove`) as two steps, each of which resolves the name for itself.  `refused` are
the paths whose call failed for reasons of its own.

**`Removal.tla`** is the abstract specification of a deletion by name: others change
the files and where names lead as they like; what goes is what a name that was asked
for leads to at that moment, one place at a time, with nothing in it; no removal
makes a name lead to another place; and nothing more is asked for once something
is gone.  `Cleanup` is shown to implement it with `there <-` the places that hold a
file, `leads <- At`, `asked <-` the paths listed or selected, `gone <- removed`.

`MCProbes`, `MCTracer`, `MCNocruft` and `MCCleanup` give the constants values;
in `MCTracer` a place is a sequence of components and `clean`/`join` work on it
component by component.  `ProbesProofs`, `TracerProofs`, `ReplayProofs` and
`NocruftProofs` hold the theorems of the first tower, `CliProofs`, `CleanupProofs`
and `ReportProofs` those of the second.  Operators
introduced as "Mutant" are plausible bugs and no part of any specification; each
property fails when one of them takes the place of the operator it imitates.

### Deliberate abstractions

* A task id is the tid; `pid_tgid` (the key of `enter_ctx`) is the same here.
* The kernel moves a cwd or installs a descriptor at the exit of the call.  Two
  threads of one process may take effect in the opposite order of their exits,
  so nothing is claimed of a task with a sharer.
* In `Tracer` directories are fixed and there are no symbolic links, and no thread
  execs.  The file
  opened by `O_CREAT` is closed at once.  `/proc` reads of a running task succeed.
* Rename and link appear with their destination, the only side the probes read.
* Timestamps are left out: nothing orders by them.
* The read of `open_how` in `openat2` fails like the read of a path.
* In `Summary` the calls of the program are an open with `O_CREAT` of a file that
  may be there, a call that makes a new file, one that gives a file another
  name, and an exchange; that is as far as `filter_event` tells events apart.
  Of the directories on a path's way one may change and the others stay, and no more
  than two links follow each other (`WayAssumption`).  Filling a place drops what it
  held with all its content; moving a whole directory with its content is left out.
  Categories and globs are sets of paths.  A birth time is before or after the
  start, or not kept by the filesystem.
* A name that is not UTF-8 is a path whose text is empty for a glob and whose
  display may be another path (`Shown`).
* A line's wording and colours, the order of the tree that is printed, and the
  event overflow warning's text are left out.

## 3. Runs

| Run | What happens in it | Shows |
|---|---|---|
| `ProbesInterleaved` | root, outsider, two more tasks; calls of each kind of flag, path and result; every bound one short; page faults; 3 operations | the six probe properties |
| `TracerMoves` | forks, threads, relative moves, creations; ring 2, cap 1; 4 operations | exact replay, clean ids, clean cap |
| `TracerPaths` | open, close, plain open, fchdir, creation by descriptor, absolute and truncated paths, fork; 4 operations | exact descriptor map and report |
| `NocruftMain` | main and its tasks, whose events are reserved and submitted apart; polls that stop anywhere, Ctrl-C at any time, start-up failures, moves, ring 2, cap 2, 2 drain polls; 3 operations | what the drain still covers, no file missing before the filters, each where it was made; a summary always comes, by the straight way; refinement of `Ledger` |
| `Cleanup` | every command line of up to three of nine words, some longer; six requests over a directory, a link, three files; two calls of the program, one change by someone else at any moment, calls that fail | who gets which word of the command line; the filters and modes, what is deleted and what is not; refinement of `Removal` |
| `CleanupWays` | one request to delete all; a directory that may become a link to another, a link to either; two calls of the program, two changes by others | what goes when others turn names between list, look and call; refinement of `Removal` |
| `ProbesSeedRace`, `TracerThreads`, `TracerStaleFd`, `TracerDoubleJoin`, `CleanupSeparator`, `CleanupSymlink` | see below | one divergence each |

Bounds.  Two tasks in one tree are enough for a fork, a reused id, a move by
the parent after the fork and by the child before its event is handled; four in
`ProbesInterleaved` add an outsider and an eviction of one task's entry by
another's.  Its five calls meet each test the probes make on flags, path and result;
that every other syscall passes them alike is what the theorems over all `Call` show.
Maps and ring are smaller than the number of their users, so every
limit is hit; in `NocruftMain` three operations and the exits make more events
than the ring of two holds, so that runs with and without a loss both occur; two
polls of the drain (`DrainPolls`; the code has five) are one that ends early and one
that need not, and the theorems hold for any number.  `MaxOps` bounds forks, syscalls and closes together; three make
a fork, a lost event and a call on top of it, four a directory opened, entered
and used after a further step.  Exits, handling, seeds and polls are not
counted.

In `Cleanup` three words are a flag with its value and one word more, or a word
on either side of a separator; the longer lines put a separator or a flag where
a value is expected.  The six requests use every mode and every filter
at least once, alone and in the combinations in which one overrides another.  Five
places are a directory, a file in it, a symbolic link to the directory nearer
the root (so that the file has a second, shallower name), a file on a filesystem
without birth times, and a file whose name is not text and reads like the
other's.  Two calls of the program (`MaxEvents`) make a directory and its
content, or the same path twice; one change by others (`MaxOther`) is one race,
at any of the moments between a look and its use.  In `CleanupWays` two changes are a
link turned after the list and turned again, or a file that goes between the two
looks of the filter and the way to it that comes back before the removal.  What is proved below holds
for every value of these bounds.

Deadlock is not checked: the tasks may all be gone and `main` at its end.

Fairness.  Only `SummaryComes` is a liveness property.  It assumes weak fairness
of `MainStep`: nocruft is a runnable process that never blocks for good (`poll`
has a timeout, `try_wait` does not wait).  Nothing is assumed of the tasks.
Its safety core, `StraightToSummary`, needs no fairness: once the root is dead no
step of main waits and no step of anyone leads back.  `MaxOps` makes the tasks
fall silent in the end; a tree that outpaced the ring's
consumer forever could keep `poll` from returning, which the model leaves out.  The
early ends of a poll cannot keep main from the summary: they only shorten the way.

### Where the code and its documentation part

| Run | Property | In short |
|---|---|---|
| `ProbesSeedRace` | `WholeTreeTracked` | the child runs before it is tracked; an early fork escapes with all its subtree |
| `TracerThreads` | `CreationBase` | `chdir` in one thread is not seen by the entries of its siblings |
| `TracerStaleFd` | `FchdirFromMap` | a closed and reused descriptor keeps its old directory in `fd_map` |
| `TracerDoubleJoin` | `ChdirFallbackIsCurrent` | the `/proc` fallback of a relative `chdir` applies the argument twice |
| `CleanupSeparator` | `SeparatorReachesChild` | the first bare `--` is dropped, where README.md:58, README.md:81-83 and cli.rs:9 pass it on verbatim |
| `CleanupSymlink` | `ReportedDirsGo` | deletion goes by the number of components, which a symbolic link can make fewer: the directory is tried before its only file |

`TracerThreads`, `TracerStaleFd` and `TracerDoubleJoin` start in `QuietInit`: the
root is seeded and has done nothing yet, a state every run with a slow child
passes through, so that what they show is not the seed race again.

Met while modelling, in the modules as the code has them, without a run of
their own:

* A path of 255 bytes fits and is flagged (and then dropped) as truncated
  (`Copied`; nocruft.bpf.c:156).
* A creation by descriptor does not look at `fd_map` but at `/proc`, and loses to
  a `close` (`ResolvedBase`; main.rs:309).
* A `chdir` of the root between the two seeds is lost (`SeedCwd`, `TSeed`).
* Both names of a `RENAME_EXCHANGE` existed before, yet it is listed as a creation
  (`AsksBirth`); README.md:139-142 tells of modified files only for opens.
* `--help` and `--version` leave `parse_argv` as an error (`ClapAccepts`).
* `--nc-include` overrides excludes and categories, but not absence and
  truncation, which are tested before it (`Verdict`).  README.md:74 says "overriding
  all defaults and excludes": that absent paths are left out is a default as well.
* `--nc-json` alone prints one record per path: of two kept events of one path the
  second has none, where README.md:66 ("One record per kept event") and cli.rs:25
  promise one for each (`Keep`; output.rs:283).  `PrintsInOrder` states what holds.
* `--nc-dry-run-delete` beside `--nc-delete-dangerous` or a confirmed
  `--nc-delete-interactive` deletes, where README.md:77 says "no actual deletion":
  `emit` looks at the two other flags alone (`Asked`; output.rs:193).  Without them
  nothing goes, which is theorem `DryRunAloneDeletesNothing`.
* Five polls of the drain that each stop early leave events of the root behind, and
  no warning is given (`DrainReturn`; main.rs:164).
* A link that others retarget, or a directory that they replace by a link, between
  the list and the removal makes the worker remove what the name leads to then, a
  file that was never listed among them (`Remove`; output.rs:385-395).  The code
  promises nothing else, so the properties state what holds beside it.
* The prompt deletes what its line reads: for a name that is not UTF-8 that may
  be another file (`Shown`).

## 4. Proofs

All theorems hold for every value of the constants.  The assumptions are that
argument records are well formed and bounds are naturals (`TaskAssumption`,
`CallAssumption`, `BoundAssumption`), that paths resolve to directories and
`fchdir` takes a descriptor (`PathAssumption`), that the drain polls at least
once (`DrainAssumption`; the code's five), that the separator is no flag and a word
that holds a `=` is none of the names (`TokenAssumption`), that files lie in
directories when nocruft starts (`OldAssumption`), and the shape of the
filesystem's maps and of its names (`PlaceAssumption`, `ShownAssumption`,
`DepthAssumption`, `WayAssumption`).

**`ProbesProofs.tla`**, of `Spec`:

* `TypeCorrect`: `TypeOK`, inductive as it stands, with a lemma per probe.
* `StashCorrect`: `StashIsCurrent`, inductive with the types; it rests on every
  exit probe deleting the entry and on a task being in one call at a time.
* `TrackedCorrect`: `TrackedIsTree`.  Not inductive: that the two sets stay equal
  needs that they were equal at the seed, so `TrackedInv` adds that before it
  nothing is tracked and the root is alone (unless a fork was missed, which is
  the mishap `untracked`), and that the root cannot be spawned behind the seed.
* `GenuineCorrect`: `Genuine`.  `GenuineInv` adds that `origin` is as long as
  `log` and bounded by the number of completed calls, so the next to complete is
  later than all told.  The step that matters, `SysExit`, uses `StashIsCurrent`:
  what is emitted was stashed for this very call (lemma `EmittedReports`).
* `NothingLostInSilence`: `NoSilentLoss`.  `LossInv` adds that without a mishap
  every relevant call of the tree has its entry while it runs.
* `ForkFirst`: `ForkComesFirst`.  `FirstInv` says of the log as it is that a
  tracked task has been announced by a fork and not dismissed by an exit since;
  an appended event then finds its announcement, unless the fork's own event was
  lost, which is a mishap.

**`TracerProofs.tla`**, of `TSpec`:

* `CapKeepsPrefixAlways`: `CapKeepsPrefix`.  `CapInv` relates the captured events
  to the creations among the events handled, position by position.
* `NothingStale`: `NoStaleEntries`.  The invariant is about each position of the
  log still to be handled: a task that is not running has its exit there or has
  no entry, and no event of it follows that exit.
* `TracerTypeCorrect`: `TracerTypeOK`, with one lemma for the kernel's directories,
  one for `base`, one for the state of the replay.

**`ReplayProofs.tla`**, of `TSpec`, proves that the replay is exact where the log
allows it:

* `ReplayCatchesUp`: `CaughtUp`.  The maps of the replay are taken cell by cell (the
  cwd of a task, one descriptor of a task).  `Will(..., cell, n, v)` says that the
  cell holds `v` once the events up to `n` are handled: either none of them writes
  it and it holds `v` now, or the last that does is exact and its outcome is `v`.
  `ReplayInv` then says that every `known` cwd and `mapped` descriptor *will* be the
  kernel's (`KnownInv`, `MappedInv`), that every pending event that is sure will
  find what it starts from in the cell it reads (`PendingInv`), and that threads
  group around a running leader (`KinInv`).  A step of the kernel adds at most one
  event behind the pending ones (`FrameCwd`, `FrameFd`, `KernelKeeps`), each kind
  of step with a lemma of its own; handling an event takes the first one away
  (`TakeCwd`, `TakeFd`, from `HandledCwd` and `HandledFd`, the handlers' own part).
  `CaughtUp` is `ReplayInv` with nothing pending.
* `FilesAreReportedWhereMade`: `ReportedWhereMade`.  `PathInv` adds that a sure creation
  carries its call's path uncut; with `PendingInv` at the head of the ring the
  directory captured is the one the call started from (`CapturedWhereMade`), and
  no later step changes the origin of an event (`OldPath`).

**`NocruftProofs.tla`**, of `NSpec`; a step of main is a step of the tracer or none
of its (`StepOfTracer`), so the invariants above carry over:

* `RootEventsAreHandled`: `RootEventsHandled`.  `DrainInv` says that of the polls of the
  drain that have returned either all left something behind (`cut`) or what main owed
  at the root's death is paid.  Nothing is assumed of when a poll ends.
* `ReportIsALedger`: `ReportImplementsLedger`, a step simulation: a completed call is
  `Complete`, a captured event is `Tell` (it is genuine, and later than all told,
  by `GenuineInv` and `CaptureInv`), everything else a stutter.
* `MainTypeCorrect`: `MainTypeOK`.
* `AllReachTheFilters`: `CreationsReachTheFilters`, end to end: `LossInv` (without a
  mishap every file made has its event in the log), `DrainInv` (those in the ring at
  the root's death are handled if one poll ran to its end), that of those handled
  none is missing from the capture before the warning, and that what is captured of
  a call by absolute path or from the cwd is whole and resolved: a path is flagged
  only if it fills the buffer, and every task whose events come has a cwd by then,
  for the root's is read before its pid is tracked and a fork event comes first.
* `StraightAhead`: `StraightToSummary`, an action property.  `StartInv` says that
  before the spawn there is no root to be dead; `StraightStep` has a step for each
  way on, of which only the labels, one event, or one poll go.  With weak fairness
  of `MainStep` it gives `SummaryComes` informally: a natural number cannot get
  less for ever.
* `PlainRunsAreExact`: `ReportIsExact` (of `TSpec`).  `ReportedWhereMade` is about
  calls of which the history knows that they can be replayed; here is shown that
  in a plain run that is all of them.  Two facts carry it: from the read of the
  root's cwd on every task of the tree is `known` (`TreeKnown`: a fork passes it
  on, and a move whose path was copied and whose event was not lost keeps it), and the event of a call from a known cwd is sure when it is
  emitted (`NewSure`) and stays so (`SureStays`).  `SeedInv` covers the start: the
  pid is tracked only after the cwd was read, so nothing is emitted before.
* `NocruftIsATracer`, `WholeRun`: main only restricts when the tracer takes its
  steps, so every run of nocruft is one of the tracer, and the invariants of probes
  and replay, `ReportIsExact` included, hold of the whole program.

**`CliProofs.tla`** holds lemmas about one command line of any length; they are
induction over data, which is done without the library's induction theorems: the
lengths at which a claim fails are a set of naturals, and such a set has a least
member (`LeastNatural`, from the well-founded order of finite sets).  `WalkExists` gets
from it that the recursion of `Passed` has a value, `WalkFollows` that the
walk's state after `n` words is the one `Follows` describes from the whole line:
who is behind the separator, who waits for a value, and of each bucket, position
by position (`Holds`, with `Rank` for the place in order), which words it holds.
`SwallowedStep` relates the parity in `Swallowed` to the walk's `pending`.
`ParseChild`, `ParseShield` and `ParseOwn` draw the conclusions about
`parse_argv`, which `ReportProofs` states of the specification.

**`CleanupProofs.tla`**, of `CSpec`:

* `OnlyListedEverGoes`: `OnlyListedGoes`.  `GrantInv` follows the right to remove from
  the list over the selection to each target and the current one.
  `WayInv` adds that a listed name which others have not turned leads to where it was
  listed, or nowhere: what nocruft takes away can cut a name off but turns none
  (`ClearedWay`), because what lies behind a link or a directory that is gone is
  reached by no name.
* `OlderFilesAreSpared`: `OlderFilesSpared`.  `KeptInv` ties `kept` to the
  filesystem; `ListInv` says that every listed path is `Excused`: licensed, or it led
  to nothing that was kept when it was listed, or others have turned it since.  The
  hard step is `AskBirth`, where a name that leads nowhere any more has no birth time
  and counts as created: it is listed with no place, so that it takes an older file
  only if others turn it back.
* `WorkerCleansUp`: `CleansUp`.  `WorkInv` says that what the worker is done with has
  no shorter name than what it has still to do, and is gone, refused or may stay.
  When a removal empties a directory that was tried before, `DepthAssumption` (the
  name of a file extends that of its directory) contradicts the order, unless the
  file was listed through a link (`ByLink`).
* `DeletionIsARemoval`: `DeletionImplementsRemoval`, a step simulation.  Steps before
  the worker starts are `Ask` (what is listed or selected grows and shrinks, nothing
  is gone), a removal is `RemoveOne` (with `RemoveTakesOne` and, for the names,
  `ClearedWay`), all else `Others`.  `TreeInv` keeps the files a tree; that the right
  to remove does not change afterwards is `GrantInv`.
* `WithoutLinksDirsGo`, `DryRunAloneDeletesNothing`: the borders of two
  places where code and documentation part.  `ReportedDirsGo` holds where no place can hold a symbolic link, and
  nothing is removed as long as no flag that deletes stands beside
  `--nc-dry-run-delete`.

**`ReportProofs.tla`**, of `CSpec`, on top of `SparedInv`:

* `ExactlyWhatIsKeptIsListed`: `ListsWhatIsKept`.  `VerdictPasses` shows that the two
  looks of `filter_event` decide as `Passes` says when nothing changes between them;
  `ShowInv` says that the list holds the passing events the loop is past.
* `EventsArePrintedInOrder`: `PrintsInOrder`, from `PrintInv`, which holds whoever
  disturbs the report (what is printed lies behind the loop, and the paths seen are
  those printed), and `ShowInv` for what must not be missing.

* `CleanupTypes`: `CleanupTypeOK`.  `RestTypeOK` has the types the other invariants do
  not need; those of `config` follow from the lemmas about `parse_argv`.
* `ChildGetsTheRestOfIt`, `NocruftHeedsItsOwn`, `TheSeparatorShields`:
  `ChildGetsTheRest`, `NocruftGetsItsOwn`, `SeparatorShields`, for every command line
  made of `Token`: `Argv` may be any set of them.

Only model-checked: `SummaryComes`.  It is liveness under fairness, which needs
ENABLED and is out of the prover's reach; what can be said of it step by step is
`StraightAhead`.  The six divergences are counterexamples and have no theorem.

## 5. Not modelled, and plan

Not modelled: the build script and the tests; the byte layout of ring and
events (short or unknown events cannot come from these probes); `execve` by a
thread that is not the leader, which changes its tid (a leader that exits before its
threads is modelled); SIGINT during report and
deletion (ignored by then, see `IgnoreSignals`); permissions beyond a refused
removal; a wall clock that is set back during the session, which changes which
birth times count as before; tasks that outpace the consumer of the ring forever.

Plan: `execve` and the change of thread ids in `Probes`; symbolic links in the
places of `Tracer`.
