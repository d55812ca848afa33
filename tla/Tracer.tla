------------------------------- MODULE Tracer -------------------------------
(***************************************************************************)
(* The user-space half of the tracer: State and handle_event of            *)
(* crates/nocruft/src/main.rs, on top of the probes.  It replays fork,     *)
(* chdir, fchdir and directory-open events in ring order to know, for each *)
(* creation event, the directory its relative path started from; where it  *)
(* has no answer it reads /proc, which shows the present, not the moment   *)
(* of the event.                                                           *)
(*                                                                         *)
(* Of the kernel this module adds (as external) what the replay tries to   *)
(* follow: working directories and descriptor tables, shared by the        *)
(* threads of a process.  Directories are fixed for the run and free of    *)
(* symbolic links, so path_clean's lexical ".." is the kernel's.           *)
(***************************************************************************)
EXTENDS Probes

CONSTANTS
  Where,        \* absolute paths, cleaned
  Dir,          \* those that are directories
  Home,         \* the directory nocruft is started in
  Absolute,     \* the path arguments that start with a slash
  Clean,        \* PathBuf::from(p).clean() of an absolute path argument
  Join,         \* base.join(p).clean() of a base and a relative one
  ThreadClone,  \* may clone share cwd and descriptors?  {FALSE} or BOOLEAN
  MAX_EVENTS    \* cap of the captured events

ASSUME PathAssumption ==
  /\ Dir \subseteq Where /\ Home \in Dir
  /\ Absolute \subseteq Path
  /\ \A p \in Path : Cut[p] \in Absolute <=> p \in Absolute
  /\ Clean \in [Absolute -> Where]
  /\ Join \in [Where -> [Path \ Absolute -> Where]]
  /\ None \notin Where
  /\ \A c \in Call : c.sys = "fchdir" => c.dirfd \in Fd
  /\ ThreadClone \subseteq BOOLEAN
  /\ MAX_EVENTS \in Nat

VARIABLES
  \* kernel (external)
  lead,             \* the task whose cwd and descriptors this task uses
  cwd,              \* by lead
  files,            \* by lead: the directory open at each descriptor, or None
  \* State in main.rs
  cwd_cache,
  fd_map,
  events,
  overflow_warned,
  \* main: the root's cwd has been read from /proc
  probed,
  \* history
  base,             \* for each event of log: the directory its call, or the child
                    \* of a fork, started from
  known,            \* tasks whose cwd the log accounts for
  mapped            \* by task: descriptors whose directory the log accounts for

worldVars == <<lead, cwd, files>>
stateVars == <<cwd_cache, fd_map, events, overflow_warned>>
replayVars == <<base, known, mapped>>
tracerVars == <<vars, worldVars, stateVars, probed, replayVars>>

OrElse(a, b) == IF a # None THEN a ELSE b
Put(map, k, v) == IF v = None THEN map ELSE [map EXCEPT ![k] = v]

(* raw.starts_with('/') ? clean : base.map(|b| b.join(raw).clean())         *)
ResolveFrom(b, p) ==
  IF p \in Absolute THEN Clean[p] ELSE IF b = None THEN None ELSE Join[b][p]

NoFd == [fd \in Fd |-> None]
Sharers(t) == {u \in Task : task[u] = "running" /\ lead[u] = lead[t]}
NoThreads(t) == \A u \in Task \ {t} : lead[u] # t

-----------------------------------------------------------------------------
(* The kernel's side of a syscall.                                         *)

(* The directory a path argument starts from, or the one fchdir names      *)
BaseDir(t, c) ==
  IF c.dirfd = AT_FDCWD THEN cwd[lead[t]] ELSE files[lead[t]][c.dirfd]

Target(t, c) ==
  IF c.path = None THEN BaseDir(t, c) ELSE ResolveFrom(BaseDir(t, c), c.path)

OpensDir(c) == c.sys \in Openers \ {"creat"} /\ O_CREAT \notin c.flags
MovesCwd(c) == c.sys \in {"chdir", "fchdir"}
FreeFd(t) == {fd \in Fd : files[lead[t]][fd] = None}

(* Success is possible only for what exists; opening takes the lowest free *)
(* descriptor.  The file opened by O_CREAT is closed again at once.        *)
Feasible(t, c, ret) ==
  /\ Target(t, c) # None
  /\ OpensDir(c) \/ MovesCwd(c) => Target(t, c) \in Dir
  /\ c.sys \in Openers => ret \in FreeFd(t) /\ \A fd \in FreeFd(t) : ret <= fd

Alone(t) == Sharers(t) = {t}
Logged == Len(log') > Len(log)

(* Will the replay of the event of t's call name the call's target?  For a *)
(* relative path only if the log accounts for what it is relative to.      *)
Replayable(t, c) ==
  IF c.path \in Absolute THEN Fits(c.path)
  ELSE /\ c.path = None \/ Fits(c.path)
       /\ IF c.dirfd = AT_FDCWD THEN t \in known ELSE c.dirfd \in mapped[t]

(* A creation by a descriptor is resolved from /proc: certain as long as   *)
(* the descriptor stands.                                                  *)
Origin(t, c) ==
  [dir |-> BaseDir(t, c),
   sure |-> \/ Replayable(t, c)
            \/ /\ Creates(c) /\ c.path \notin Absolute /\ c.dirfd # AT_FDCWD
               /\ Fits(c.path)]
NoOrigin == [dir |-> None, sure |-> FALSE]

(* base grows with log; pending creations of these users by these          *)
(* descriptors are no longer certain.                                      *)
Remember(o, users, fds) ==
  LET b == [i \in DOMAIN base |->
              IF /\ i > consumed /\ log[i].pid \in users
                 /\ log[i].etype \in CreationEvent
                 /\ log[i].path \notin Absolute /\ log[i].dirfd \in fds
              THEN [base[i] EXCEPT !.sure = FALSE] ELSE base[i]]
  IN  base' = IF Logged THEN Append(b, o) ELSE b

InstallDir(t, c, fd) ==
  /\ files' = [files EXCEPT ![lead[t]][fd] = Target(t, c)]
  /\ mapped' = [u \in Task |->
       IF u = t /\ Alone(t) /\ Logged /\ Replayable(t, c) THEN mapped[u] \cup {fd}
       ELSE IF u \in Sharers(t) THEN mapped[u] \ {fd} ELSE mapped[u]]
  /\ UNCHANGED <<cwd, known>>

ChangeCwd(t, c) ==
  /\ cwd' = [cwd EXCEPT ![lead[t]] = Target(t, c)]
  /\ known' = (known \ Sharers(t))
              \cup {u \in {t} : Alone(t) /\ Logged /\ Replayable(t, c)}
  /\ UNCHANGED <<files, mapped>>

proc_cwd(t) == IF task[t] = "running" THEN cwd[lead[t]] ELSE None
proc_fd(t, fd) == IF task[t] = "running" THEN files[lead[t]][fd] ELSE None

-----------------------------------------------------------------------------
TInit ==
  /\ Init
  /\ lead = [t \in Task |-> t]
  /\ cwd = [t \in Task |-> Home]
  /\ files = [t \in Task |-> NoFd]
  /\ cwd_cache = [t \in Task |-> None]
  /\ fd_map = [t \in Task |-> NoFd]
  /\ events = <<>>
  /\ overflow_warned = FALSE
  /\ probed = FALSE
  /\ base = <<>>
  /\ known = {}
  /\ mapped = [t \in Task |-> {}]

(* Steps of the kernel and the probes, with what they do to directories.   *)

TSpawn ==
  /\ Spawn
  /\ UNCHANGED <<worldVars, stateVars, probed, replayVars>>

(* The child copies cwd and descriptors (fork), or shares them (a thread). *)
(* No claim is made any more on the cwd of a task that has a sharer.       *)
TFork(p, c) ==
  /\ Fork(p, c)
  /\ \/ /\ FALSE \in ThreadClone
        /\ lead' = [lead EXCEPT ![c] = c]
        /\ cwd' = [cwd EXCEPT ![c] = cwd[lead[p]]]
        /\ files' = [files EXCEPT ![c] = files[lead[p]]]
        /\ known' = (known \ {c}) \cup {u \in {c} : p \in known /\ Logged}
        /\ mapped' = [mapped EXCEPT ![c] = {}]
     \/ /\ TRUE \in ThreadClone
        /\ lead' = [lead EXCEPT ![c] = lead[p]]
        /\ known' = known \ (Sharers(p) \cup {c})
        /\ mapped' = [u \in Task |-> IF u \in Sharers(p) \cup {c} THEN {} ELSE mapped[u]]
        /\ UNCHANGED <<cwd, files>>
  /\ Remember([dir |-> cwd[lead[p]], sure |-> p \in known], {}, {})
  /\ UNCHANGED <<stateVars, probed>>

(* A thread, or the leader of threads that go on.                          *)
TTaskExit(t) ==
  /\ TaskExit(t)
  /\ known' = known \ {t}
  /\ mapped' = [mapped EXCEPT ![t] = {}]
  /\ Remember(NoOrigin, {t}, Fd)
  /\ UNCHANGED <<worldVars, stateVars, probed>>

(* The id of a thread group's leader is kept until its threads are gone.   *)
TRelease(t) ==
  /\ Release(t)
  /\ NoThreads(t)
  /\ lead' = [lead EXCEPT ![t] = t]
  /\ UNCHANGED <<cwd, files, stateVars, probed, replayVars>>

TSysEnter(t, c) ==
  /\ SysEnter(t, c)
  /\ UNCHANGED <<worldVars, stateVars, probed, replayVars>>

TSysExit(t, ret) ==
  /\ SysExit(t, ret)
  /\ LET c == call[t]
         ok == ret >= 0
     IN  /\ ok => Feasible(t, c, ret)
         /\ \/ ok /\ OpensDir(c) /\ InstallDir(t, c, ret)
            \/ ok /\ MovesCwd(c) /\ ChangeCwd(t, c)
            \/ /\ ok => ~OpensDir(c) /\ ~MovesCwd(c)
               /\ UNCHANGED <<cwd, files, known, mapped>>
         /\ Remember(Origin(t, c), {}, {})
  /\ UNCHANGED <<lead, stateVars, probed>>

(* close(2) is not traced.                                                 *)
Close(t, fd) ==
  /\ budget > 0
  /\ task[t] = "running" /\ call[t] = None
  /\ files[lead[t]][fd] # None
  /\ files' = [files EXCEPT ![lead[t]][fd] = None]
  /\ mapped' = [u \in Task |-> IF u \in Sharers(t) THEN mapped[u] \ {fd} ELSE mapped[u]]
  /\ budget' = budget - 1
  /\ UNCHANGED <<task, call, seeded, reaped, mapVars, consumed, historyVars,
                 lead, cwd, stateVars, probed, known>>
  /\ Remember(NoOrigin, Sharers(t), {fd})

-----------------------------------------------------------------------------
(* nocruft's main around its child, as far as the replay depends on it.    *)

(* proc_cwd(root_pid), read before the root is put into tracked_pids       *)
SeedCwd ==
  /\ ~probed /\ task[Root] # "free"
  /\ probed' = TRUE
  /\ cwd_cache' = Put(cwd_cache, Root, proc_cwd(Root))
  /\ known' = known \cup {u \in {Root} : proc_cwd(Root) # None /\ Alone(Root)}
  /\ UNCHANGED <<vars, worldVars, fd_map, events, overflow_warned, base, mapped>>

TSeed ==
  /\ probed
  /\ Seed
  /\ UNCHANGED <<worldVars, stateVars, probed, replayVars>>

TReap ==
  /\ seeded
  /\ Reap
  /\ NoThreads(Root)
  /\ lead' = [lead EXCEPT ![Root] = Root]
  /\ UNCHANGED <<cwd, files, stateVars, probed, replayVars>>

-----------------------------------------------------------------------------
(* handle_event, one branch per event type.                                *)

Cwd(t) == OrElse(cwd_cache[t], proc_cwd(t))

(* Mutant: every relative path is taken from the cwd.                       *)
ResolvedBaseCwd(e) == IF e.path \in Absolute THEN None ELSE Cwd(e.pid)

(* The base is recorded for relative paths only, and a cwd read from /proc *)
(* is cached.                                                              *)
ResolvedBase(e) ==
  IF e.path \in Absolute THEN None
  ELSE IF e.dirfd = AT_FDCWD THEN Cwd(e.pid) ELSE proc_fd(e.pid, e.dirfd)

Captured(e) ==
  [pid |-> e.pid, syscall |-> e.etype, truncated |-> e.truncated, path |-> e.path,
   resolved_base |-> ResolvedBase(e), seq |-> consumed + 1]

(* Mutant: one too many, by > instead of >=.                                *)
push_event_late(ev) ==
  IF Len(events) > MAX_EVENTS
  THEN overflow_warned' = TRUE /\ UNCHANGED events
  ELSE events' = Append(events, ev) /\ UNCHANGED overflow_warned

(* Mutant: the newest event comes first.                                    *)
push_event_front(ev) ==
  IF Len(events) >= MAX_EVENTS
  THEN overflow_warned' = TRUE /\ UNCHANGED events
  ELSE events' = <<ev>> \o events /\ UNCHANGED overflow_warned

push_event(ev) ==
  \/ /\ Len(events) >= MAX_EVENTS
     /\ overflow_warned' = TRUE
     /\ UNCHANGED events
  \/ /\ Len(events) < MAX_EVENTS
     /\ events' = Append(events, ev)
     /\ UNCHANGED overflow_warned

(* Mutant: the child's cwd always comes from /proc.                         *)
HandleForkProc(e) ==
  /\ cwd_cache' = Put(cwd_cache, e.pid, proc_cwd(e.pid))
  /\ UNCHANGED <<fd_map, events, overflow_warned>>

HandleFork(e) ==
  /\ cwd_cache' = Put(cwd_cache, e.pid, OrElse(cwd_cache[e.ppid], proc_cwd(e.pid)))
  /\ UNCHANGED <<fd_map, events, overflow_warned>>

(* Mutant: the cwd of a dead task is kept.                                  *)
HandleExitKeepCwd(e) ==
  /\ fd_map' = [fd_map EXCEPT ![e.pid] = NoFd]
  /\ UNCHANGED <<cwd_cache, events, overflow_warned>>

HandleExit(e) ==
  /\ cwd_cache' = [cwd_cache EXCEPT ![e.pid] = None]
  /\ fd_map' = [fd_map EXCEPT ![e.pid] = NoFd]
  /\ UNCHANGED <<events, overflow_warned>>

(* Mutant: the new cwd is read from /proc, present instead of past.         *)
HandleChdirProc(e) ==
  /\ cwd_cache' = Put(cwd_cache, e.pid, proc_cwd(e.pid))
  /\ UNCHANGED <<fd_map, events, overflow_warned>>

(* Mutant: a change of directory is captured like a creation.               *)
HandleChdirCaptured(e) ==
  /\ push_event(Captured(e))
  /\ UNCHANGED <<cwd_cache, fd_map>>

HandleChdir(e) ==
  /\ cwd_cache' = Put(cwd_cache, e.pid, ResolveFrom(Cwd(e.pid), e.path))
  /\ UNCHANGED <<fd_map, events, overflow_warned>>

HandleFchdir(e) ==
  /\ cwd_cache' = Put(cwd_cache, e.pid,
                      OrElse(fd_map[e.pid][e.dirfd], proc_fd(e.pid, e.dirfd)))
  /\ UNCHANGED <<fd_map, events, overflow_warned>>

(* Mutant: the directory descriptor argument is ignored.                    *)
HandleOpenatDirCwd(e) ==
  /\ fd_map' = [fd_map EXCEPT ![e.pid] =
                  Put(@, e.result_fd, ResolveFrom(Cwd(e.pid), e.path))]
  /\ UNCHANGED <<cwd_cache, events, overflow_warned>>

(* An openat that cannot be resolved leaves the old entry of its result    *)
HandleOpenatDir(e) ==
  LET from == IF e.dirfd = AT_FDCWD THEN Cwd(e.pid)
              ELSE OrElse(fd_map[e.pid][e.dirfd], proc_fd(e.pid, e.dirfd))
  IN  /\ fd_map' = [fd_map EXCEPT ![e.pid] =
                      Put(@, e.result_fd, ResolveFrom(from, e.path))]
      /\ UNCHANGED <<cwd_cache, events, overflow_warned>>

HandleCreation(e) ==
  /\ cwd_cache' = IF e.path \notin Absolute /\ e.dirfd = AT_FDCWD
                  THEN Put(cwd_cache, e.pid, Cwd(e.pid)) ELSE cwd_cache
  /\ push_event(Captured(e))
  /\ UNCHANGED fd_map

handle_event(e) ==
  \/ e.etype = EV_FORK_TRACKED /\ HandleFork(e)
  \/ e.etype = EV_EXIT_TRACKED /\ HandleExit(e)
  \/ e.etype = "CHDIR" /\ HandleChdir(e)
  \/ e.etype = "FCHDIR" /\ HandleFchdir(e)
  \/ e.etype = EV_OPENAT_DIR /\ HandleOpenatDir(e)
  \/ e.etype \in CreationEvent /\ HandleCreation(e)

TConsume ==
  /\ seeded
  /\ Consume
  /\ handle_event(log[consumed + 1])
  /\ UNCHANGED <<worldVars, probed, replayVars>>

TNext ==
  \/ TSpawn \/ SeedCwd \/ TSeed \/ TReap \/ TConsume
  \/ \E p, c \in Task : TFork(p, c)
  \/ \E t \in Task : TTaskExit(t) \/ TRelease(t)
  \/ \E t \in Task, fd \in Fd : Close(t, fd)
  \/ \E t \in Task, c \in Call : TSysEnter(t, c)
  \/ \E t \in Task, ret \in Fd \cup {-1, 0} : TSysExit(t, ret)

TSpec == TInit /\ [][TNext]_tracerVars

(* The same from the moment the root is tracked, when it did nothing       *)
(* before: what goes wrong from here is not the fault of the start.        *)
QuietInit ==
  /\ task = [t \in Task |-> IF t \in Outsider \cup {Root} THEN "running" ELSE "free"]
  /\ call = [t \in Task |-> None]
  /\ seeded = TRUE /\ probed = TRUE /\ reaped = FALSE
  /\ tracked_pids = {Root}
  /\ enter_ctx = [t \in Task |-> None]
  /\ log = <<>> /\ consumed = 0 /\ budget = MaxOps
  /\ tree = {Root}
  /\ done = <<>> /\ origin = <<>> /\ mishap = {}
  /\ lead = [t \in Task |-> t]
  /\ cwd = [t \in Task |-> Home]
  /\ files = [t \in Task |-> NoFd]
  /\ cwd_cache = [t \in Task |-> IF t = Root THEN Home ELSE None]
  /\ fd_map = [t \in Task |-> NoFd]
  /\ events = <<>> /\ overflow_warned = FALSE
  /\ base = <<>> /\ known = {Root}
  /\ mapped = [t \in Task |-> {}]

QuietSpec == QuietInit /\ [][TNext]_tracerVars

-----------------------------------------------------------------------------
CapturedEvent == [pid : Task, syscall : CreationEvent, truncated : BOOLEAN, path : Path,
                  resolved_base : Where \cup {None}, seq : Nat]

(* Types of the directories of the kernel and of the State of main.rs.     *)
TracerTypeOK ==
  /\ TypeOK
  /\ lead \in [Task -> Task]
  /\ cwd \in [Task -> Dir]
  /\ files \in [Task -> [Fd -> Dir \cup {None}]]
  /\ cwd_cache \in [Task -> Where \cup {None}]
  /\ fd_map \in [Task -> [Fd -> Where \cup {None}]]
  /\ events \in Seq(CapturedEvent)
  /\ overflow_warned \in BOOLEAN
  /\ probed \in BOOLEAN
  /\ base \in Seq([dir : Where \cup {None}, sure : BOOLEAN])
  /\ Len(base) = Len(log)
  /\ known \in SUBSET Task
  /\ mapped \in [Task -> SUBSET Fd]

(* pathres::resolve on a captured event, and the path its syscall used     *)
resolve(ev) == ResolveFrom(ev.resolved_base, ev.path)
RealPath(i) == ResolveFrom(base[i].dir, done[origin[i]].call.path)

(* Every creation is reported under the path it was made at, however late  *)
(* its event is handled and wherever its task and the others have moved in *)
(* the meantime, if the log accounts for the task's cwd, or the descriptor *)
(* it started from is still open (README.md:120, main.rs:312).             *)
ReportedWhereMade ==
  \A i \in 1..Len(events) :
    base[events[i].seq].sure => resolve(events[i]) = RealPath(events[i].seq)

(* The same without reservation, for a plain run: of single-threaded tasks  *)
(* that move by names which fit the probe's buffer.  If nothing was lost,   *)
(* every creation of the tree by an absolute path or from the cwd is        *)
(* reported under its own path, from the first event after the seed on,     *)
(* through every fork and move (main.rs:140-154, main.rs:194).              *)
PlainRun ==
  /\ ThreadClone \subseteq {FALSE}
  /\ \A d \in 1..Len(done) :
       done[d].member /\ MovesCwd(done[d].call) =>
         done[d].call.path # None /\ Fits(done[d].call.path)

ReportIsExact ==
  mishap = {} /\ PlainRun =>
    \A i \in 1..Len(events) :
      LET made == done[origin[events[i].seq]]
      IN  /\ made.member /\ ~events[i].truncated
          /\ made.call.dirfd = AT_FDCWD \/ made.call.path \in Absolute
          => resolve(events[i]) = RealPath(events[i].seq)

(* When every event is handled, the replayed cwd of an accounted task is   *)
(* its cwd, and the replayed descriptors are its descriptors, through      *)
(* forks, moves by path and by descriptor, lost events and reused ids.     *)
CaughtUp ==
  probed /\ consumed = Len(log) =>
    \A t \in known :
      /\ cwd_cache[t] = cwd[lead[t]]
      /\ \A fd \in mapped[t] : fd_map[t][fd] = files[lead[t]][fd]

(* The per-pid state does not outlive its task, so that a reused id starts *)
(* from its own fork: with no event lost, a task without pending events    *)
(* that is not running has no entry in either map.                         *)
NoStaleEntries ==
  mishap = {} /\ seeded =>
    \A t \in Task :
      task[t] # "running" /\ (\A i \in (consumed + 1)..Len(log) : log[i].pid # t)
        => cwd_cache[t] = None /\ fd_map[t] = NoFd

(* The captured events are the first creations of the log, in its order    *)
(* and without gap or repetition, and the warning tells exactly whether    *)
(* some were dropped at the cap.                                           *)
CapKeepsPrefix ==
  LET made == {i \in 1..consumed : log[i].etype \in CreationEvent}
  IN  /\ \A i \in 1..Len(events) :
           /\ events[i].seq \in made
           /\ Cardinality({k \in made : k <= events[i].seq}) = i
      /\ overflow_warned <=> Cardinality(made) > Len(events)
      /\ Len(events) <= MAX_EVENTS
      /\ overflow_warned => Len(events) = MAX_EVENTS
-----------------------------------------------------------------------------
(* What comments and documentation say and the code does not keep.         *)

(* "any creation event's base is the cwd that was current at the moment    *)
(* the syscall fired" (nocruft.bpf.c:446).                                 *)
CreationBase ==
  \A i \in 1..Len(events) :
    LET e == log[events[i].seq]
    IN  e.path \notin Absolute /\ e.dirfd = AT_FDCWD
          => events[i].resolved_base = base[events[i].seq].dir

Handled(etype) == consumed' > consumed /\ log[consumed'].etype = etype

(* "Prefer our fd_map (populated by ordered EV_OPENAT_DIR events,          *)
(* race-free)" (main.rs:233): an fchdir found in the map moves the replay  *)
(* to where the task went.                                                 *)
FchdirFromMap ==
  [][Handled("FCHDIR") =>
       LET e == log[consumed']
       IN  fd_map[e.pid][e.dirfd] # None => cwd_cache'[e.pid] = base[consumed'].dir
    ]_tracerVars

(* "last-ditch /proc readlink (which is now at the *new* cwd because chdir *)
(* already returned)" (main.rs:216): what the fallback leaves in the cache *)
(* is that new cwd.                                                        *)
ChdirFallbackIsCurrent ==
  [][Handled("CHDIR") =>
       LET e == log[consumed']
       IN  cwd_cache[e.pid] = None /\ proc_cwd(e.pid) # None /\ e.path \notin Absolute
             => cwd_cache'[e.pid] = proc_cwd(e.pid)]_tracerVars
=============================================================================
