------------------------------- MODULE Probes -------------------------------
(***************************************************************************)
(* The BPF half of nocruft (crates/nocruft-bpf/src/nocruft.bpf.c): the     *)
(* tracepoint handlers and the three maps they share.                      *)
(*                                                                         *)
(*   tracked_pids   the kernel task ids whose syscalls are of interest     *)
(*   enter_ctx      one scratch entry per in-flight syscall                *)
(*   events         the ring buffer read by user space                     *)
(*                                                                         *)
(* A syscall is two steps of its task, sys_enter and sys_exit, with any    *)
(* other task, the fork/exit probes and user space in between.  The ring   *)
(* is the part of the append-only history "log" that user space has not    *)
(* consumed yet, as in the kernel's producer/consumer positions.           *)
(*                                                                         *)
(* The kernel itself (task life cycle, results of syscalls) is external    *)
(* and modelled only as far as the probes can observe it.                  *)
(***************************************************************************)
EXTENDS Integers, Sequences, FiniteSets

CONSTANTS
  Task,         \* kernel task ids, the keys of tracked_pids
  Root,         \* the task nocruft spawns
  Outsider,     \* tasks alive from the start, outside the spawned tree
  Call,         \* the syscalls (with arguments) that tasks may make
  Path,         \* path arguments
  PathLen,      \* their length in bytes, without the terminating NUL
  Cut,          \* what is left of a path that does not fit the buffer
  Fd,           \* file descriptors
  None,         \* absence of a value
  PageFault,    \* may the read of the path argument fail?  {FALSE} or BOOLEAN
  PATH_BUF_SZ,  \* size of the path buffer
  MaxTracked,   \* max_entries of tracked_pids
  MaxEnter,     \* max_entries of enter_ctx
  RingSlots,    \* events that fit in the ring buffer
  MaxOps        \* bound of the model: syscalls and forks made by all tasks

AT_FDCWD == -100

O_CREAT == "O_CREAT"
O_DIRECTORY == "O_DIRECTORY"
CREAT_FLAGS == {O_CREAT, "O_WRONLY", "O_TRUNC"}
Flag == CREAT_FLAGS \cup {O_DIRECTORY, "RENAME_EXCHANGE"}

EV_FORK_TRACKED == "FORK_TRACKED"
EV_EXIT_TRACKED == "EXIT_TRACKED"
EV_OPENAT_CREATE == "OPENAT_CREATE"
EV_OPENAT_DIR == "OPENAT_DIR"

(* The event each syscall's exit probe emits.  The openat family, whose    *)
(* event depends on the stashed flags, is in Etype below.                  *)
FixedEtype ==
  [open |-> EV_OPENAT_CREATE, creat |-> EV_OPENAT_CREATE,
   mkdir |-> "MKDIRAT", mkdirat |-> "MKDIRAT",
   rename |-> "RENAMEAT2", renameat |-> "RENAMEAT2", renameat2 |-> "RENAMEAT2",
   symlink |-> "SYMLINKAT", symlinkat |-> "SYMLINKAT",
   link |-> "LINKAT", linkat |-> "LINKAT",
   mknod |-> "MKNODAT", mknodat |-> "MKNODAT",
   chdir |-> "CHDIR", fchdir |-> "FCHDIR"]

OpenatFamily == {"openat", "openat2"}
Openers == OpenatFamily \cup {"open", "creat"}
Syscall == DOMAIN FixedEtype \cup OpenatFamily
(* The syscalls whose probe takes the directory descriptor from an argument *)
DirfdCalls == OpenatFamily \cup
  {"mkdirat", "renameat", "renameat2", "symlinkat", "linkat", "mknodat", "fchdir"}

EventType == {FixedEtype[s] : s \in DOMAIN FixedEtype} \cup
             {EV_FORK_TRACKED, EV_EXIT_TRACKED, EV_OPENAT_CREATE, EV_OPENAT_DIR}

(* The events user space records as creations                              *)
CreationEvent ==
  {EV_OPENAT_CREATE, "MKDIRAT", "RENAMEAT2", "SYMLINKAT", "LINKAT", "MKNODAT"}

Dirfd == Fd \cup {AT_FDCWD}
Args == [sys : Syscall, dirfd : Dirfd, flags : SUBSET Flag, path : Path \cup {None}]
EnterArgs == [dirfd : Dirfd, flags : SUBSET Flag, truncated : BOOLEAN,
              path : Path \cup {None}]
Event == [etype : EventType, pid : Task, ppid : Task \cup {None},
          dirfd : Dirfd \cup {0}, flags : SUBSET Flag, truncated : BOOLEAN,
          result_fd : Int, path : Path \cup {None}]

ASSUME TaskAssumption ==
  /\ Root \in Task
  /\ Outsider \subseteq Task \ {Root}
  /\ Fd \subseteq Nat

ASSUME CallAssumption ==
  /\ Call \subseteq Args
  /\ PathLen \in [Path -> Nat]
  /\ Cut \in [Path -> Path]
  /\ None \notin Task /\ None \notin Path /\ None \notin Call /\ None \notin EnterArgs
  /\ \A c \in Call : c.path = None <=> c.sys = "fchdir"
  /\ \A c \in Call : c.sys \notin DirfdCalls => c.dirfd = AT_FDCWD

ASSUME BoundAssumption ==
  /\ PageFault \subseteq BOOLEAN
  /\ FALSE \in PageFault
  /\ PATH_BUF_SZ \in Nat \ {0}
  /\ MaxTracked \in Nat \ {0}
  /\ MaxEnter \in Nat \ {0}
  /\ RingSlots \in Nat \ {0}
  /\ MaxOps \in Nat
-----------------------------------------------------------------------------
(* What the kernel does, for the properties: does the syscall make a new    *)
(* name when it succeeds, and is its success of interest to the replay?    *)
Creates(c) ==
  \/ c.sys \in OpenatFamily \cup {"open"} /\ O_CREAT \in c.flags
  \/ c.sys \in Syscall \ (OpenatFamily \cup {"open", "chdir", "fchdir"})

Relevant(c) ==
  \/ Creates(c)
  \/ c.sys \in {"chdir", "fchdir"}
  \/ c.sys \in OpenatFamily /\ O_DIRECTORY \in c.flags

-----------------------------------------------------------------------------
VARIABLES
  \* kernel (external)
  task,          \* life cycle of each task id
  call,          \* the syscall each task is in, or None
  \* nocruft's handle on its child
  seeded,        \* the root was put into tracked_pids
  reaped,        \* try_wait collected the root
  \* the BPF maps
  tracked_pids,
  enter_ctx,
  log,           \* every event ever submitted to the ring
  consumed,      \* how many of them user space has taken out of it
  \* bound and history
  budget,        \* operations left, of MaxOps
  tree,          \* the live tasks descended from the root, and the root
  done,          \* the successful syscalls of interest, in completion order
  origin,        \* for each event of log its syscall in done, 0 for fork/exit
  mishap         \* which of the ways to miss something have occurred

kernelVars == <<task, call, budget>>
mapVars == <<tracked_pids, enter_ctx, log>>
historyVars == <<tree, done, origin, mishap>>
vars == <<task, call, seeded, reaped, tracked_pids, enter_ctx, log, consumed,
          budget, tree, done, origin, mishap>>

Mishap == {"untracked", "tracked_full", "fault", "evicted", "ring_full", "late_seed"}

-----------------------------------------------------------------------------
(* What the enter probes look at and keep.                                 *)

(* Mutant: the openat probes forget that O_CREAT is a reason to capture.    *)
WantedDirsOnly(c) ==
  /\ c.sys \in OpenatFamily => O_DIRECTORY \in c.flags
  /\ c.sys = "open" => O_CREAT \in c.flags

(* The filter of each enter probe: is the call worth an entry?             *)
Wanted(c) ==
  /\ c.sys \in OpenatFamily => c.flags \cap {O_CREAT, O_DIRECTORY} # {}
  /\ c.sys = "open" => O_CREAT \in c.flags

(* The flags each enter probe passes to stash_enter                        *)
StashFlags(c) ==
  CASE c.sys = "creat" -> CREAT_FLAGS
    [] c.sys \in OpenatFamily \cup {"open", "renameat2"} -> c.flags
    [] OTHER -> {}

(* bpf_probe_read_user_str returns the bytes it copied, the NUL included,  *)
(* and never more than the buffer holds.                                   *)
Copied(p) == IF PathLen[p] + 1 <= PATH_BUF_SZ THEN PathLen[p] + 1 ELSE PATH_BUF_SZ
Fits(p) == PathLen[p] + 1 <= PATH_BUF_SZ

Stash(c) ==
  [dirfd |-> IF c.sys \in DirfdCalls THEN c.dirfd ELSE AT_FDCWD,
   flags |-> StashFlags(c),
   truncated |-> c.path # None /\ Copied(c.path) = PATH_BUF_SZ,
   path |-> IF c.path = None \/ Fits(c.path) THEN c.path ELSE Cut[c.path]]

(* The event type, decided at exit from the syscall and the stashed flags  *)
Etype(sys, flags) ==
  IF sys \in OpenatFamily
  THEN IF O_CREAT \in flags THEN EV_OPENAT_CREATE ELSE EV_OPENAT_DIR
  ELSE FixedEtype[sys]

Succeeded(sys, ret) == IF sys \in Openers THEN ret >= 0 ELSE ret = 0

SyscallEvent(t, etype, ea, ret) ==
  [etype |-> etype, pid |-> t, ppid |-> None, dirfd |-> ea.dirfd,
   flags |-> ea.flags, truncated |-> ea.truncated,
   result_fd |-> IF etype = EV_OPENAT_DIR THEN ret ELSE -1, path |-> ea.path]

(* Fork and exit events: memset to zero but for these fields               *)
LifeEvent(etype, t, parent) ==
  [etype |-> etype, pid |-> t, ppid |-> parent, dirfd |-> 0, flags |-> {},
   truncated |-> FALSE, result_fd |-> 0, path |-> None]

-----------------------------------------------------------------------------
(* bpf_ringbuf_reserve gives the event its place in the ring; a full ring  *)
(* loses it silently.  "from" is the syscall of done the event reports,    *)
(* "why" other mishaps.  The probe fills the record and submits it later,  *)
(* before its task goes on; that shows only in when the record can be      *)
(* consumed, which this module leaves open (Nocruft has both steps).       *)
RingFull == Len(log) - consumed >= RingSlots

Reserve(e, from, why) ==
  \/ /\ ~RingFull
     /\ log' = Append(log, e)
     /\ origin' = Append(origin, from)
     /\ mishap' = mishap \cup why
  \/ /\ RingFull
     /\ mishap' = mishap \cup why \cup {"ring_full"}
     /\ UNCHANGED <<log, origin>>

Init ==
  /\ task = [t \in Task |-> IF t \in Outsider THEN "running" ELSE "free"]
  /\ call = [t \in Task |-> None]
  /\ seeded = FALSE
  /\ reaped = FALSE
  /\ tracked_pids = {}
  /\ enter_ctx = [t \in Task |-> None]
  /\ log = <<>>
  /\ consumed = 0
  /\ budget = MaxOps
  /\ tree = {}
  /\ done = <<>>
  /\ origin = <<>>
  /\ mishap = {}
-----------------------------------------------------------------------------
(* Life cycle of tasks: Command::spawn, fork/clone, exit, and their probes *)

Spawn ==
  /\ task[Root] = "free" /\ ~reaped
  /\ task' = [task EXCEPT ![Root] = "running"]
  /\ tree' = tree \cup {Root}
  /\ UNCHANGED <<call, seeded, reaped, mapVars, consumed, budget, done, origin, mishap>>

(* tracked_pids.update(root_pid) by nocruft's main.  The root has run since *)
(* it was spawned and may have exited.                                      *)
Seed ==
  /\ ~seeded /\ ~reaped /\ task[Root] # "free"
  /\ seeded' = TRUE
  /\ tracked_pids' = tracked_pids \cup {Root}
  /\ mishap' = mishap \cup (IF task[Root] = "zombie" THEN {"late_seed"} ELSE {})
  /\ UNCHANGED <<kernelVars, reaped, enter_ctx, log, consumed, tree, done, origin>>

HasRoom(t) == t \in tracked_pids \/ Cardinality(tracked_pids) < MaxTracked

(* Mutant: the flag is propagated but user space is not told.               *)
handle_fork_silent(parent, child) ==
  /\ mishap' = mishap \cup (IF parent \in tree \ tracked_pids THEN {"untracked"} ELSE {})
  /\ tracked_pids' = IF parent \in tracked_pids /\ HasRoom(child)
                     THEN tracked_pids \cup {child} ELSE tracked_pids
  /\ UNCHANGED <<log, origin>>

(* The result of the map update is ignored: the event is sent in any case. *)
handle_fork(parent, child) ==
  \/ /\ parent \notin tracked_pids
     /\ mishap' = mishap \cup (IF parent \in tree THEN {"untracked"} ELSE {})
     /\ UNCHANGED <<tracked_pids, log, origin>>
  \/ /\ parent \in tracked_pids
     /\ tracked_pids' = IF HasRoom(child) THEN tracked_pids \cup {child} ELSE tracked_pids
     /\ Reserve(LifeEvent(EV_FORK_TRACKED, child, parent), 0,
               IF HasRoom(child) THEN {} ELSE {"tracked_full"})

(* The probe runs in the parent before the child is first scheduled.       *)
Fork(parent, child) ==
  /\ budget > 0
  /\ task[parent] = "running" /\ call[parent] = None
  /\ task[child] = "free" /\ (child = Root => reaped)
  /\ task' = [task EXCEPT ![child] = "running"]
  /\ budget' = budget - 1
  /\ tree' = IF parent \in tree THEN tree \cup {child} ELSE tree
  /\ handle_fork(parent, child)
  /\ UNCHANGED <<call, seeded, reaped, enter_ctx, consumed, done>>

(* Mutant: the exit is announced but the flag stays.                        *)
handle_exit_keep(t) ==
  \/ /\ t \notin tracked_pids
     /\ UNCHANGED <<tracked_pids, log, origin, mishap>>
  \/ /\ t \in tracked_pids
     /\ UNCHANGED tracked_pids
     /\ Reserve(LifeEvent(EV_EXIT_TRACKED, t, None), 0, {})

handle_exit(t) ==
  \/ /\ t \notin tracked_pids
     /\ UNCHANGED <<tracked_pids, log, origin, mishap>>
  \/ /\ t \in tracked_pids
     /\ tracked_pids' = tracked_pids \ {t}
     /\ Reserve(LifeEvent(EV_EXIT_TRACKED, t, None), 0, {})

(* A dead task keeps its id until it is released.                          *)
TaskExit(t) ==
  /\ task[t] = "running" /\ call[t] = None
  /\ task' = [task EXCEPT ![t] = "zombie"]
  /\ tree' = tree \ {t}
  /\ handle_exit(t)
  /\ UNCHANGED <<call, seeded, reaped, enter_ctx, consumed, budget, done>>

(* The id may be used again: its parent has waited for it, or it was a     *)
(* thread, which nobody waits for.                                         *)
Release(t) ==
  /\ task[t] = "zombie" /\ (t = Root => reaped)
  /\ task' = [task EXCEPT ![t] = "free"]
  /\ UNCHANGED <<call, seeded, reaped, mapVars, consumed, budget, historyVars>>

(* nocruft waits for its child, and so releases the id of the root.        *)
Reap ==
  /\ task[Root] = "zombie" /\ ~reaped
  /\ task' = [task EXCEPT ![Root] = "free"]
  /\ reaped' = TRUE
  /\ UNCHANGED <<call, seeded, mapVars, consumed, budget, historyVars>>

-----------------------------------------------------------------------------
(* Syscalls: the enter and exit probes.                                    *)

Entries == {t \in Task : enter_ctx[t] # None}

(* bpf_map_update_elem on the LRU map: a full map evicts another entry.    *)
UpdateEnterCtx(t, ea) ==
  \/ /\ Cardinality(Entries \ {t}) < MaxEnter
     /\ enter_ctx' = [enter_ctx EXCEPT ![t] = ea]
     /\ UNCHANGED mishap
  \/ /\ Cardinality(Entries \ {t}) >= MaxEnter
     /\ \E victim \in Entries \ {t} :
          enter_ctx' = [enter_ctx EXCEPT ![victim] = None, ![t] = ea]
     /\ mishap' = mishap \cup {"evicted"}

stash_enter(t, c) ==
  \/ /\ t \notin tracked_pids
     /\ mishap' = mishap \cup (IF t \in tree THEN {"untracked"} ELSE {})
     /\ UNCHANGED enter_ctx
  \/ /\ t \in tracked_pids
     /\ c.path # None /\ TRUE \in PageFault
     /\ mishap' = mishap \cup {"fault"}
     /\ UNCHANGED enter_ctx
  \/ /\ t \in tracked_pids
     /\ UpdateEnterCtx(t, Stash(c))

SysEnter(t, c) ==
  /\ budget > 0
  /\ task[t] = "running" /\ call[t] = None
  /\ call' = [call EXCEPT ![t] = c]
  /\ budget' = budget - 1
  /\ \/ Wanted(c) /\ stash_enter(t, c)
     \/ ~Wanted(c) /\ UNCHANGED <<enter_ctx, mishap>>
  /\ UNCHANGED <<task, seeded, reaped, tracked_pids, log, consumed, tree, done, origin>>

(* Mutant: a failed call returns without going to the delete.               *)
emit_exit_leak(t, sys, ret, from) ==
  IF enter_ctx[t] = None \/ ~Succeeded(sys, ret)
  THEN UNCHANGED <<enter_ctx, log, origin, mishap>>
  ELSE /\ enter_ctx' = [enter_ctx EXCEPT ![t] = None]
       /\ Reserve(SyscallEvent(t, Etype(sys, enter_ctx[t].flags), enter_ctx[t], ret),
                 from, {})

(* Every exit probe: emit on success, and drop the entry whatever happened *)
emit_exit(t, sys, ret, from) ==
  \/ /\ enter_ctx[t] = None
     /\ UNCHANGED <<enter_ctx, log, origin, mishap>>
  \/ /\ enter_ctx[t] # None
     /\ enter_ctx' = [enter_ctx EXCEPT ![t] = None]
     /\ \/ /\ Succeeded(sys, ret)
           /\ Reserve(SyscallEvent(t, Etype(sys, enter_ctx[t].flags), enter_ctx[t], ret),
                     from, {})
        \/ ~Succeeded(sys, ret) /\ UNCHANGED <<log, origin, mishap>>

Result(c) == {-1} \cup (IF c.sys \in Openers THEN Fd ELSE {0})

SysExit(t, ret) ==
  /\ call[t] # None
  /\ ret \in Result(call[t])
  /\ call' = [call EXCEPT ![t] = None]
  /\ done' = IF Relevant(call[t]) /\ ret >= 0
             THEN Append(done, [task |-> t, call |-> call[t], ret |-> ret,
                                member |-> t \in tree])
             ELSE done
  /\ emit_exit(t, call[t].sys, ret, Len(done'))
  /\ UNCHANGED <<task, seeded, reaped, tracked_pids, consumed, budget, tree>>

(* Mutant: the consumer advances over an empty ring.                        *)
ConsumeBlind ==
  /\ consumed' = consumed + 1
  /\ UNCHANGED <<kernelVars, seeded, reaped, mapVars, historyVars>>

(* User space takes the oldest event out of the ring.                      *)
Consume ==
  /\ consumed < Len(log)
  /\ consumed' = consumed + 1
  /\ UNCHANGED <<kernelVars, seeded, reaped, mapVars, historyVars>>

Next ==
  \/ Spawn \/ Seed \/ Reap \/ Consume
  \/ \E p, c \in Task : Fork(p, c)
  \/ \E t \in Task : TaskExit(t) \/ Release(t)
  \/ \E t \in Task, c \in Call : SysEnter(t, c)
  \/ \E t \in Task, ret \in Fd \cup {-1, 0} : SysExit(t, ret)

Spec == Init /\ [][Next]_vars

-----------------------------------------------------------------------------
Done == [task : Task, call : Call, ret : Int, member : BOOLEAN]

(* Types of the kernel state, of the maps and of the history.              *)
TypeOK ==
  /\ task \in [Task -> {"free", "running", "zombie"}]
  /\ call \in [Task -> Call \cup {None}]
  /\ seeded \in BOOLEAN
  /\ reaped \in BOOLEAN
  /\ tracked_pids \in SUBSET Task
  /\ enter_ctx \in [Task -> EnterArgs \cup {None}]
  /\ log \in Seq(Event)
  /\ consumed \in 0..Len(log)
  /\ budget \in 0..MaxOps
  /\ tree \in SUBSET Task
  /\ done \in Seq(Done)
  /\ origin \in Seq(Nat)
  /\ mishap \in SUBSET Mishap

(* An entry of enter_ctx belongs to a syscall in flight and holds that     *)
(* syscall's own arguments: nothing is left behind by a failed or finished *)
(* call for the exit probe of a later one to pick up ("Always delete the   *)
(* enter_ctx entry on exit, success or not", nocruft.bpf.c:10).            *)
StashIsCurrent ==
  \A t \in Task : enter_ctx[t] # None =>
    /\ call[t] # None
    /\ Relevant(call[t])
    /\ enter_ctx[t] = Stash(call[t])

(* Event e tells the truth about the completed syscall d: the task, whether *)
(* it was a creation, base descriptor, result, and path unless flagged,    *)
(* which it is when path and NUL fill the buffer, no other path is flagged. *)
Reports(e, d) ==
  /\ e.pid = d.task
  /\ e.etype \in CreationEvent <=> Creates(d.call)
  /\ e.etype = EV_OPENAT_DIR => e.result_fd = d.ret
  /\ e.dirfd = d.call.dirfd
  /\ e.path = d.call.path \/ e.truncated
  /\ e.truncated <=> d.call.path # None /\ PathLen[d.call.path] + 1 >= PATH_BUF_SZ

LifeEtype == {EV_FORK_TRACKED, EV_EXIT_TRACKED}

(* Each syscall event reports one successful syscall of interest made by   *)
(* that very task, as what it was; none is reported twice, and the events  *)
(* are in completion order, however the probes of other tasks, failing     *)
(* calls, evictions and page faults come in between (nocruft.bpf.c:186).   *)
Genuine ==
  /\ \A i \in 1..Len(log) : origin[i] = 0 <=> log[i].etype \in LifeEtype
  /\ \A i \in 1..Len(log) : origin[i] # 0 => Reports(log[i], done[origin[i]])
  /\ \A i, j \in 1..Len(log) :
       i < j /\ origin[i] # 0 /\ origin[j] # 0 => origin[i] < origin[j]

(* A syscall of the spawned tree that succeeded is in the log, unless one  *)
(* of the named mishaps happened in the run.                               *)
NoSilentLoss ==
  mishap = {} => \A d \in 1..Len(done) :
    done[d].member => \E i \in 1..Len(log) : origin[i] = d

(* Isolation: an untracked task outside the tree is never followed, and as *)
(* long as no task was missed the flag is on exactly the live tree.        *)
TrackedIsTree ==
  /\ "late_seed" \notin mishap => tracked_pids \subseteq tree
  /\ seeded /\ mishap \cap {"untracked", "tracked_full", "late_seed"} = {}
       => tracked_pids = tree

(* What user space relies on to replay working directories: before any     *)
(* event of a task other than the root comes the fork event of that task,  *)
(* with no exit event of the same id in between.                           *)
ForkComesFirst ==
  mishap \cap {"ring_full", "late_seed"} = {} =>
    \A i \in 1..Len(log) :
      log[i].pid # Root /\ log[i].etype # EV_FORK_TRACKED =>
        \E f \in 1..(i - 1) :
          /\ log[f].pid = log[i].pid /\ log[f].etype = EV_FORK_TRACKED
          /\ \A k \in f..(i - 1) :
               ~(log[k].pid = log[i].pid /\ log[k].etype = EV_EXIT_TRACKED)

-----------------------------------------------------------------------------
(* What the documentation says and the code does not keep.                 *)

(* "A BPF hash map is seeded with the spawned shell's pid; the fork         *)
(* tracepoint propagates the flag to descendants" (README.md): after the    *)
(* seed every live member of the tree is tracked.                           *)
WholeTreeTracked == seeded => tree \subseteq tracked_pids
=============================================================================
