------------------------------- MODULE Nocruft -------------------------------
(* The whole tracer: main of crates/nocruft/src/main.rs as a process of its  *)
(* own beside the tasks it watches.  It parses its arguments, checks that it *)
(* may load the probes and loads them, spawns the root, seeds the maps, then *)
(* alternates rb.poll and try_wait until the root is reaped, drains the ring *)
(* with DrainPolls further polls, and emits the summary.  When it ends,      *)
(* however it ends, the probes are detached.                                 *)
EXTENDS Tracer

CONSTANT DrainPolls    \* polls after the root is reaped: 5

ASSUME DrainAssumption == DrainPolls \in Nat \ {0}

VARIABLES
  pc,               \* where main is
  drained,          \* polls of the drain loop that have returned
  sigint_ignored,   \* disposition of SIGINT in nocruft
  held,             \* by task: the place in the log of the event its probe has
                    \* reserved and not yet submitted, or 0
  \* history
  owed,             \* length of the log when the root was reaped
  cut               \* polls of the drain loop that returned with events left

mainVars == <<pc, drained, sigint_ignored, held, owed, cut>>
systemVars == <<tracerVars, mainVars>>

Stopped == {"done", "failed", "killed"}
Attached == pc \notin Stopped

NInit ==
  /\ TInit
  /\ pc = "parse"
  /\ drained = 0
  /\ sigint_ignored = FALSE
  /\ held = [t \in Task |-> 0]
  /\ owed = 0
  /\ cut = 0

Goto(label) == pc' = label
Stay == UNCHANGED <<drained, sigint_ignored, held, owed, cut>>

-----------------------------------------------------------------------------
(* cli::parse_argv, as Cli has it: any command line, accepted or not; what *)
(* it asks for matters to the summary only.                                *)
ParseArgs ==
  /\ pc = "parse"
  /\ Goto("check") \/ Goto("failed")
  /\ Stay /\ UNCHANGED tracerVars

(* caps::check_bpf_privileges, check_kernel_btf: on any set of effective   *)
(* capabilities, on a kernel with its type information or without          *)
Capability == {"CAP_BPF", "CAP_PERFMON", "CAP_DAC_READ_SEARCH", "CAP_SYS_ADMIN"}

Privileged(cap_eff) ==
  \/ "CAP_SYS_ADMIN" \in cap_eff
  \/ {"CAP_BPF", "CAP_PERFMON", "CAP_DAC_READ_SEARCH"} \subseteq cap_eff

CheckKernel ==
  /\ pc = "check"
  /\ \E cap_eff \in SUBSET Capability, btf \in BOOLEAN :
       Goto(IF Privileged(cap_eff) /\ btf THEN "load" ELSE "failed")
  /\ Stay /\ UNCHANGED tracerVars

(* Opening, loading and attaching the probes, the ring's consumer: any of  *)
(* them may fail.  The error of bump_memlock_rlimit is ignored.            *)
LoadProbes ==
  /\ pc = "load"
  /\ Goto("signals") \/ Goto("failed")
  /\ Stay /\ UNCHANGED tracerVars

(* Mutant: SIGINT keeps its default action.                                 *)
IgnoreNothing ==
  /\ pc = "signals"
  /\ Goto("spawn")
  /\ Stay /\ UNCHANGED tracerVars

(* set_signal(SIGINT, SIG_IGN), before the child exists                    *)
IgnoreSignals ==
  /\ pc = "signals"
  /\ Goto("spawn")
  /\ sigint_ignored' = TRUE
  /\ UNCHANGED <<drained, held, owed, cut, tracerVars>>

SpawnRoot ==
  /\ pc = "spawn"
  /\ \/ TSpawn /\ Goto("seed_cwd")
     \/ Goto("failed") /\ UNCHANGED tracerVars
  /\ Stay

ReadCwd ==
  /\ pc = "seed_cwd"
  /\ SeedCwd
  /\ Goto("seed_pid")
  /\ Stay

(* An error of the map update ends nocruft; the child is left to itself.   *)
SeedPid ==
  /\ pc = "seed_pid"
  /\ \/ TSeed /\ Goto("poll")
     \/ Goto("failed") /\ UNCHANGED tracerVars
  /\ Stay

(* rb.poll runs the callback on the events of the ring in order, up to the *)
(* first one that is not submitted yet.                                    *)
PollEvent ==
  /\ pc \in {"poll", "drain"}
  /\ \A t \in Task : held[t] # consumed + 1
  /\ TConsume
  /\ UNCHANGED mainVars

(* It returns when the ring is empty, at an event not submitted yet, on    *)
(* its timeout, or with an error, which is ignored (EINTR when nocruft is  *)
(* stopped and continued): with or without events left behind.             *)
PollReturn ==
  /\ pc = "poll"
  /\ Goto("try_wait")
  /\ Stay /\ UNCHANGED tracerVars

(* A process can be waited for when its threads are gone and its own exit, *)
(* with the probe in it, is over.                                          *)
RootDead == task[Root] = "zombie" /\ NoThreads(Root) /\ held[Root] = 0

(* Mutant: the loop goes on unless the root has exited with success.        *)
TryWaitSuccessOnly ==
  /\ pc = "try_wait"
  /\ UNCHANGED <<drained, sigint_ignored, held, cut>>
  /\ \/ RootDead /\ TReap /\ (Goto("drain") \/ Goto("poll")) /\ owed' = Len(log)
     \/ ~RootDead /\ Goto("poll") /\ UNCHANGED <<owed, tracerVars>>
     \/ Goto("failed") /\ UNCHANGED <<owed, tracerVars>>

TryWait ==
  /\ pc = "try_wait"
  /\ UNCHANGED <<drained, sigint_ignored, held, cut>>
  /\ \/ RootDead /\ TReap /\ Goto("drain") /\ owed' = Len(log)
     \/ ~RootDead /\ Goto("poll") /\ UNCHANGED <<owed, tracerVars>>
     \/ Goto("failed") /\ UNCHANGED <<owed, tracerVars>>

(* Mutant: the drain loop has no bound.                                     *)
DrainReturnForever ==
  /\ pc = "drain"
  /\ drained' = IF consumed = Len(log) THEN drained + 1 ELSE drained
  /\ UNCHANGED <<pc, sigint_ignored, held, owed, cut, tracerVars>>

(* Mutant: the first poll of the drain loop ends it, whatever it left.      *)
DrainReturnOnce ==
  /\ pc = "drain"
  /\ drained < DrainPolls
  /\ drained' = DrainPolls
  /\ cut' = IF consumed < Len(log) THEN cut + 1 ELSE cut
  /\ UNCHANGED <<pc, sigint_ignored, held, owed, tracerVars>>

(* A poll of the drain loop ends like any other, and counts.               *)
DrainReturn ==
  /\ pc = "drain"
  /\ drained < DrainPolls
  /\ drained' = drained + 1
  /\ cut' = IF consumed < Len(log) THEN cut + 1 ELSE cut
  /\ UNCHANGED <<pc, sigint_ignored, held, owed, tracerVars>>

(* Mutant: the summary does not wait for the drain.                         *)
DrainSkipped ==
  /\ pc = "drain"
  /\ Goto("emit")
  /\ Stay /\ UNCHANGED tracerVars

DrainEnd ==
  /\ pc = "drain"
  /\ drained = DrainPolls
  /\ Goto("emit")
  /\ Stay /\ UNCHANGED tracerVars

Emit ==
  /\ pc = "emit"
  /\ Goto("done")
  /\ Stay /\ UNCHANGED tracerVars

(* Ctrl-C reaches the foreground process group: nocruft, and tasks of the  *)
(* tree, whose reaction is any of their own steps.                         *)
Interrupt ==
  /\ Attached /\ ~sigint_ignored
  /\ Goto("killed")
  /\ Stay /\ UNCHANGED tracerVars

MainStep ==
  \/ ParseArgs \/ CheckKernel \/ LoadProbes
  \/ IgnoreSignals \/ SpawnRoot \/ ReadCwd \/ SeedPid
  \/ PollEvent \/ PollReturn \/ TryWait \/ DrainReturn \/ DrainEnd \/ Emit

(* A probe is one step of its task up to the reservation of its event, and *)
(* the task does nothing else until the event is submitted; the child of a *)
(* fork is not started before that.                                        *)
Idle(tasks) == \A t \in tasks : held[t] = 0
Hold(tasks) ==
  held' = [t \in Task |-> IF t \in tasks /\ Logged THEN Len(log') ELSE held[t]]

TaskStep ==
  /\ Attached
  /\ \/ \E p, c \in Task : Idle({p, c}) /\ TFork(p, c) /\ Hold({p, c})
     \/ \E t \in Task : Idle({t}) /\ TTaskExit(t) /\ Hold({t})
     \/ \E t \in Task : Idle({t}) /\ TRelease(t) /\ UNCHANGED held
     \/ \E t \in Task, fd \in Fd : Idle({t}) /\ Close(t, fd) /\ UNCHANGED held
     \/ \E t \in Task, c \in Call : Idle({t}) /\ TSysEnter(t, c) /\ UNCHANGED held
     \/ \E t \in Task, ret \in Fd \cup {-1, 0} : Idle({t}) /\ TSysExit(t, ret) /\ Hold({t})
  /\ UNCHANGED <<pc, drained, sigint_ignored, owed, cut>>

(* bpf_ringbuf_submit: the event can be consumed, its task goes on.        *)
Submit(t) ==
  /\ Attached /\ held[t] # 0
  /\ held' = [u \in Task |-> IF held[u] = held[t] THEN 0 ELSE held[u]]
  /\ UNCHANGED <<pc, drained, sigint_ignored, owed, cut, tracerVars>>

NNext == MainStep \/ TaskStep \/ (\E t \in Task : Submit(t)) \/ Interrupt

NSpec == NInit /\ [][NNext]_systemVars

(* nocruft is scheduled; nothing is assumed of the tasks it watches.       *)
FairSpec == NSpec /\ WF_systemVars(MainStep)

-----------------------------------------------------------------------------
(* Types of main's own state.                                              *)
MainTypeOK ==
  /\ pc \in {"parse", "check", "load", "signals", "spawn", "seed_cwd", "seed_pid", "poll",
             "try_wait", "drain", "emit"} \cup Stopped
  /\ drained \in 0..DrainPolls
  /\ sigint_ignored \in BOOLEAN
  /\ held \in [Task -> 0..Len(log)]
  /\ owed \in 0..Len(log)
  /\ cut \in 0..drained

(* The summary covers whatever the tree had put into the ring when the root *)
(* was found dead, although events were still there then, if only one of   *)
(* the drain's polls ran until the ring was empty: it takes five that stop *)
(* early, at events not submitted or interrupted, to leave one behind, for *)
(* main.rs:164 does not look at what a poll returns.                       *)
RootEventsHandled == pc \in {"emit", "done"} /\ cut < DrainPolls => consumed >= owed

(* End to end: if nothing was lost on the way to the ring, the cap was not  *)
(* reached and a poll of the drain ran to its end, every file the tree made *)
(* by an absolute path or from its working directory comes before the       *)
(* filters of the summary with a whole, absolute path: neither truncated    *)
(* nor unresolved (output.rs:128-131).  But for a path that fills the       *)
(* buffer, and events reserved after the root was found dead.               *)
Listable(ev) == ~ev.truncated /\ resolve(ev) # None
Tells(d) == \E i \in 1..Len(events) : origin[events[i].seq] = d /\ Listable(events[i])
TooLate(d) == \E i \in (owed + 1)..Len(log) : origin[i] = d
ByName(c) == c.path \in Absolute \/ c.dirfd = AT_FDCWD

CreationsReachTheFilters ==
  pc \in {"emit", "done"} /\ cut < DrainPolls /\ mishap = {} /\ ~overflow_warned =>
    \A d \in 1..Len(done) :
      LET c == done[d].call
      IN  done[d].member /\ Creates(c) /\ ByName(c) /\ PathLen[c.path] + 1 < PATH_BUF_SZ
            => Tells(d) \/ TooLate(d)

(* Once the root has exited main goes straight to the summary: each of its  *)
(* steps brings it nearer to its end, at most as many as there are events   *)
(* in the ring, polls to come and labels to pass, and no step of the tasks, *)
(* a full ring or a reused id brings it back to waiting for the root        *)
(* (main.rs:156-167).                                                       *)
RootGone == RootDead \/ pc \in {"drain", "emit"}

LabelsLeft ==
  CASE pc = "seed_cwd" -> 6 [] pc = "seed_pid" -> 5 [] pc = "poll" -> 4
    [] pc = "try_wait" -> 3 [] pc = "drain" -> 2 [] pc = "emit" -> 1 [] OTHER -> 0

Distance == (Len(log) - consumed) + (DrainPolls - drained) + LabelsLeft

StraightToSummary ==
  [][RootGone =>
       /\ RootGone' \/ pc' \in Stopped
       /\ MainStep => Distance' \in 0..(Distance - 1)]_systemVars

(* A summary always comes: when the root has exited, main emits, unless it *)
(* stopped with an error of its own; no Ctrl-C, full ring, lost seed or    *)
(* descendant that goes on running keeps it from that (main.rs:119).       *)
SummaryComes == RootDead ~> pc \in {"done", "failed"}

(* Every event is told once, in order, of a syscall that made a file.      *)
Report == INSTANCE Ledger WITH
  Cap <- MAX_EVENTS,
  clock <- Len(done),
  made <- {d \in 1..Len(done) : Creates(done[d].call)},
  told <- [i \in 1..Len(events) |-> origin[events[i].seq]]

ReportImplementsLedger == Report!LedgerSpec
=============================================================================
