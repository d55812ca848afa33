---------------------------- MODULE ProbesProofs ----------------------------
(* What holds of the probes for every set of tasks and calls, every buffer  *)
(* size, and every size of the maps and of the ring.                        *)
EXTENDS Probes, TLAPS

-----------------------------------------------------------------------------
(* Appending to the log keeps the entries it has.                          *)
LEMMA AppendFacts ==
  ASSUME NEW S, NEW s \in Seq(S), NEW e \in S
  PROVE  /\ Append(s, e) \in Seq(S)
         /\ Len(Append(s, e)) = Len(s) + 1
         /\ Len(s) \in Nat
         /\ \A i \in 1..Len(s) : Append(s, e)[i] = s[i]
         /\ Append(s, e)[Len(s) + 1] = e
  OBVIOUS

(* What the probes stash and emit is well typed.                           *)
LEMMA StashType ==
  ASSUME NEW c \in Call
  PROVE  Stash(c) \in EnterArgs
<1>1. c \in Args
  BY CallAssumption
<1>2. StashFlags(c) \in SUBSET Flag
  BY <1>1 DEF StashFlags, Args, CREAT_FLAGS, Flag
<1>3. (IF c.sys \in DirfdCalls THEN c.dirfd ELSE AT_FDCWD) \in Dirfd
  BY <1>1 DEF Args, Dirfd
<1>4. (IF c.path = None \/ Fits(c.path) THEN c.path ELSE Cut[c.path]) \in Path \cup {None}
  BY <1>1, CallAssumption DEF Args
<1>5. (c.path # None /\ Copied(c.path) = PATH_BUF_SZ) \in BOOLEAN
  OBVIOUS
<1> QED
  BY <1>2, <1>3, <1>4, <1>5 DEF Stash, EnterArgs

LEMMA EtypeType ==
  ASSUME NEW s \in Syscall, NEW flags
  PROVE  Etype(s, flags) \in EventType
<1>1. CASE s \in OpenatFamily
  BY <1>1 DEF Etype, EventType
<1>2. CASE s \notin OpenatFamily
  <2>1. s \in DOMAIN FixedEtype
    BY <1>2 DEF Syscall
  <2> QED
    BY <2>1, <1>2 DEF Etype, EventType
<1> QED
  BY <1>1, <1>2

LEMMA SyscallEventType ==
  ASSUME NEW t \in Task, NEW etype \in EventType, NEW ea \in EnterArgs, NEW ret \in Int
  PROVE  SyscallEvent(t, etype, ea, ret) \in Event
  BY DEF SyscallEvent, EnterArgs, Event

LEMMA LifeEventType ==
  ASSUME NEW t \in Task, NEW parent \in Task \cup {None},
         NEW etype \in {EV_FORK_TRACKED, EV_EXIT_TRACKED}
  PROVE  LifeEvent(etype, t, parent) \in Event
  BY DEF LifeEvent, Event, EventType

LEMMA ReserveType ==
  ASSUME log \in Seq(Event), origin \in Seq(Nat), mishap \in SUBSET Mishap,
         consumed \in 0..Len(log),
         NEW e \in Event, NEW from \in Nat, NEW why \in SUBSET Mishap,
         Reserve(e, from, why)
  PROVE  /\ log' \in Seq(Event) /\ origin' \in Seq(Nat) /\ mishap' \in SUBSET Mishap
         /\ consumed \in 0..Len(log')
<1>1. Len(log) \in Nat
  OBVIOUS
<1>2. CASE ~RingFull
  <2>1. /\ log' = Append(log, e) /\ origin' = Append(origin, from)
        /\ mishap' = mishap \cup why
    BY <1>2 DEF Reserve
  <2>2. log' \in Seq(Event) /\ Len(log') = Len(log) + 1
    BY <2>1, AppendFacts
  <2>3. origin' \in Seq(Nat)
    BY <2>1, AppendFacts
  <2> QED
    BY <2>1, <2>2, <2>3, <1>1
<1>3. CASE RingFull
  BY <1>3 DEF Reserve, Mishap
<1> QED
  BY <1>2, <1>3
-----------------------------------------------------------------------------
(* Type correctness.                                                       *)

LEMMA TypeInit == Init => TypeOK
<1> SUFFICES ASSUME Init PROVE TypeOK
  OBVIOUS
<1>1. Len(<<>>) = 0 /\ <<>> \in Seq(Event) /\ <<>> \in Seq(Done) /\ <<>> \in Seq(Nat)
  OBVIOUS
<1>2. MaxOps \in 0..MaxOps
  BY BoundAssumption
<1>3. /\ task \in [Task -> {"free", "running", "zombie"}]
      /\ call \in [Task -> Call \cup {None}]
      /\ enter_ctx \in [Task -> EnterArgs \cup {None}]
  BY DEF Init
<1>4. seeded \in BOOLEAN /\ reaped \in BOOLEAN
  BY DEF Init
<1>5. /\ log \in Seq(Event) /\ done \in Seq(Done) /\ origin \in Seq(Nat)
      /\ consumed \in 0..Len(log)
  BY <1>1 DEF Init
<1>6. /\ tracked_pids \in SUBSET Task /\ tree \in SUBSET Task /\ mishap \in SUBSET Mishap
      /\ budget \in 0..MaxOps
  BY <1>2 DEF Init
<1> QED
  BY <1>3, <1>4, <1>5, <1>6 DEF TypeOK

(* The fork probe and the exit probe of tasks                              *)
LEMMA ForkProbeType ==
  ASSUME TypeOK, NEW parent \in Task, NEW child \in Task, handle_fork(parent, child)
  PROVE  /\ tracked_pids' \in SUBSET Task
         /\ log' \in Seq(Event) /\ origin' \in Seq(Nat) /\ mishap' \in SUBSET Mishap
         /\ consumed \in 0..Len(log')
<1>1. CASE parent \notin tracked_pids
  BY <1>1 DEF TypeOK, handle_fork, Mishap
<1>2. CASE parent \in tracked_pids
  <2> DEFINE why == IF HasRoom(child) THEN {} ELSE {"tracked_full"}
             e == LifeEvent(EV_FORK_TRACKED, child, parent)
  <2>1. tracked_pids' \in SUBSET Task /\ Reserve(e, 0, why)
    BY <1>2 DEF TypeOK, handle_fork
  <2>2. why \in SUBSET Mishap
    BY DEF Mishap
  <2>3. e \in Event
    BY LifeEventType
  <2> HIDE DEF e, why
  <2> QED
    BY <2>1, <2>2, <2>3, ReserveType DEF TypeOK
<1> QED
  BY <1>1, <1>2

LEMMA ExitProbeType ==
  ASSUME TypeOK, NEW t \in Task, handle_exit(t)
  PROVE  /\ tracked_pids' \in SUBSET Task
         /\ log' \in Seq(Event) /\ origin' \in Seq(Nat) /\ mishap' \in SUBSET Mishap
         /\ consumed \in 0..Len(log')
<1>1. CASE t \notin tracked_pids
  BY <1>1 DEF TypeOK, handle_exit
<1>2. CASE t \in tracked_pids
  <2>1. tracked_pids' \in SUBSET Task /\ Reserve(LifeEvent(EV_EXIT_TRACKED, t, None), 0, {})
    BY <1>2 DEF TypeOK, handle_exit
  <2>2. LifeEvent(EV_EXIT_TRACKED, t, None) \in Event
    BY LifeEventType
  <2> QED
    BY <2>1, <2>2, ReserveType DEF TypeOK
<1> QED
  BY <1>1, <1>2

(* The probe at the exit of a syscall                                      *)
LEMMA EmitType ==
  ASSUME TypeOK, NEW t \in Task, NEW s \in Syscall, NEW ret \in Int, NEW from \in Nat,
         emit_exit(t, s, ret, from)
  PROVE  /\ enter_ctx' \in [Task -> EnterArgs \cup {None}]
         /\ log' \in Seq(Event) /\ origin' \in Seq(Nat) /\ mishap' \in SUBSET Mishap
         /\ consumed \in 0..Len(log')
<1>1. CASE enter_ctx[t] = None
  BY <1>1 DEF TypeOK, emit_exit
<1>2. CASE enter_ctx[t] # None
  <2> DEFINE e == SyscallEvent(t, Etype(s, enter_ctx[t].flags), enter_ctx[t], ret)
  <2>1. enter_ctx' \in [Task -> EnterArgs \cup {None}]
    BY <1>2 DEF TypeOK, emit_exit
  <2>2. CASE Succeeded(s, ret)
    <3>1. Reserve(e, from, {})
      BY <1>2, <2>2 DEF emit_exit
    <3>2. enter_ctx[t] \in EnterArgs
      BY <1>2 DEF TypeOK
    <3>3. e \in Event
      BY <3>2, EtypeType, SyscallEventType
    <3> HIDE DEF e
    <3> QED
      BY <2>1, <3>1, <3>3, ReserveType DEF TypeOK
  <2>3. CASE ~Succeeded(s, ret)
    BY <1>2, <2>1, <2>3 DEF TypeOK, emit_exit
  <2> QED
    BY <2>2, <2>3
<1> QED
  BY <1>1, <1>2

(* The probe at the entry of a syscall                                     *)
LEMMA StashEnterType ==
  ASSUME TypeOK, NEW t \in Task, NEW c \in Call, stash_enter(t, c)
  PROVE  /\ enter_ctx' \in [Task -> EnterArgs \cup {None}]
         /\ mishap' \in SUBSET Mishap
<1>1. CASE UNCHANGED enter_ctx
  BY <1>1 DEF TypeOK, stash_enter, UpdateEnterCtx, Mishap
<1>2. CASE UpdateEnterCtx(t, Stash(c))
  <2>1. Stash(c) \in EnterArgs
    BY StashType
  <2>2. mishap' \in SUBSET Mishap
    BY <1>2 DEF TypeOK, UpdateEnterCtx, Mishap
  <2>3. \/ enter_ctx' = [enter_ctx EXCEPT ![t] = Stash(c)]
        \/ \E victim \in Entries \ {t} :
             enter_ctx' = [enter_ctx EXCEPT ![victim] = None, ![t] = Stash(c)]
    BY <1>2 DEF UpdateEnterCtx
  <2>4. enter_ctx' \in [Task -> EnterArgs \cup {None}]
    BY <2>1, <2>3 DEF TypeOK, Entries
  <2> QED
    BY <2>2, <2>4
<1> QED
  BY <1>1, <1>2 DEF stash_enter
LEMMA TypeStep == TypeOK /\ [Next]_vars => TypeOK'
<1> SUFFICES ASSUME TypeOK, [Next]_vars PROVE TypeOK'
  OBVIOUS
<1>1. CASE Spawn
  BY <1>1, TaskAssumption DEF Spawn, TypeOK, mapVars
<1>2. CASE Seed
  BY <1>2, TaskAssumption DEF Seed, TypeOK, kernelVars, Mishap
<1>3. CASE Reap \/ \E t \in Task : Release(t)
  BY <1>3 DEF Reap, Release, TypeOK, mapVars, historyVars
<1>4. CASE Consume
  <2>1. Len(log) \in Nat
    BY DEF TypeOK
  <2>2. consumed' \in 0..Len(log')
    BY <1>4, <2>1 DEF Consume, TypeOK, mapVars
  <2> QED
    BY <1>4, <2>2 DEF Consume, TypeOK, kernelVars, mapVars, historyVars
<1>5. ASSUME NEW p \in Task, NEW c \in Task, Fork(p, c) PROVE TypeOK'
  <2>1. /\ tracked_pids' \in SUBSET Task
        /\ log' \in Seq(Event) /\ origin' \in Seq(Nat) /\ mishap' \in SUBSET Mishap
        /\ consumed' \in 0..Len(log')
    BY <1>5, ForkProbeType DEF Fork
  <2>2. budget' \in 0..MaxOps
    BY <1>5, BoundAssumption DEF Fork, TypeOK
  <2>3. task' \in [Task -> {"free", "running", "zombie"}] /\ tree' \in SUBSET Task
    BY <1>5 DEF Fork, TypeOK
  <2> QED
    BY <1>5, <2>1, <2>2, <2>3 DEF Fork, TypeOK
<1>6. ASSUME NEW t \in Task, TaskExit(t) PROVE TypeOK'
  <2>1. /\ tracked_pids' \in SUBSET Task
        /\ log' \in Seq(Event) /\ origin' \in Seq(Nat) /\ mishap' \in SUBSET Mishap
        /\ consumed' \in 0..Len(log')
    BY <1>6, ExitProbeType DEF TaskExit
  <2>2. task' \in [Task -> {"free", "running", "zombie"}] /\ tree' \in SUBSET Task
    BY <1>6 DEF TaskExit, TypeOK
  <2> QED
    BY <1>6, <2>1, <2>2 DEF TaskExit, TypeOK
<1>7. ASSUME NEW t \in Task, NEW c \in Call, SysEnter(t, c) PROVE TypeOK'
  <2>1. enter_ctx' \in [Task -> EnterArgs \cup {None}] /\ mishap' \in SUBSET Mishap
    BY <1>7, StashEnterType DEF SysEnter, TypeOK
  <2>2. budget' \in 0..MaxOps
    BY <1>7, BoundAssumption DEF SysEnter, TypeOK
  <2>3. call' \in [Task -> Call \cup {None}]
    BY <1>7 DEF SysEnter, TypeOK
  <2> QED
    BY <1>7, <2>1, <2>2, <2>3 DEF SysEnter, TypeOK
<1>8. ASSUME NEW t \in Task, NEW ret \in Fd \cup {-1, 0}, SysExit(t, ret) PROVE TypeOK'
  <2>1. call[t] \in Call /\ call[t].sys \in Syscall /\ ret \in Int
    BY <1>8, CallAssumption, TaskAssumption DEF SysExit, TypeOK, Args
  <2>2. [task |-> t, call |-> call[t], ret |-> ret, member |-> t \in tree] \in Done
    BY <2>1 DEF Done
  <2>3. done' \in Seq(Done) /\ Len(done') \in Nat
    BY <1>8, <2>2, AppendFacts DEF SysExit, TypeOK
  <2>4. /\ enter_ctx' \in [Task -> EnterArgs \cup {None}]
        /\ log' \in Seq(Event) /\ origin' \in Seq(Nat) /\ mishap' \in SUBSET Mishap
        /\ consumed' \in 0..Len(log')
    BY <1>8, <2>1, <2>3, EmitType DEF SysExit
  <2>5. call' \in [Task -> Call \cup {None}]
    BY <1>8 DEF SysExit, TypeOK
  <2> QED
    BY <1>8, <2>3, <2>4, <2>5 DEF SysExit, TypeOK
<1>9. CASE UNCHANGED vars
  BY <1>9 DEF vars, TypeOK
<1> QED
  BY <1>1, <1>2, <1>3, <1>4, <1>5, <1>6, <1>7, <1>8, <1>9 DEF Next

(* The state, the maps and the history always have their types.            *)
THEOREM TypeCorrect == Spec => []TypeOK
  BY TypeInit, TypeStep, PTL DEF Spec
-----------------------------------------------------------------------------
(* The scratch map only ever holds the arguments of calls in flight.       *)

(* The enter probes look for what the kernel side calls relevant.          *)
LEMMA WantedIsRelevant ==
  ASSUME NEW c \in Call, Wanted(c)
  PROVE  Relevant(c)
<1>1. c.sys \in Syscall
  BY CallAssumption DEF Args
<1>2. CASE c.sys \in OpenatFamily
  <2>1. c.flags \cap {O_CREAT, O_DIRECTORY} # {}
    BY <1>2 DEF Wanted
  <2> QED
    BY <2>1, <1>2 DEF Relevant, Creates
<1>3. CASE c.sys = "open"
  <2>1. O_CREAT \in c.flags
    BY <1>3 DEF Wanted, OpenatFamily
  <2> QED
    BY <2>1, <1>3 DEF Relevant, Creates
<1>4. CASE c.sys \notin OpenatFamily \cup {"open"}
  BY <1>1, <1>4 DEF Relevant, Creates
<1> QED
  BY <1>2, <1>3, <1>4

LEMMA StashInit == Init => StashIsCurrent
  BY DEF Init, StashIsCurrent

LEMMA StashStep == TypeOK /\ StashIsCurrent /\ [Next]_vars => StashIsCurrent'
<1> SUFFICES ASSUME TypeOK, StashIsCurrent, [Next]_vars PROVE StashIsCurrent'
  OBVIOUS
<1>1. ASSUME UNCHANGED <<call, enter_ctx>> PROVE StashIsCurrent'
  BY <1>1 DEF StashIsCurrent
<1>2. ASSUME NEW t \in Task, NEW c \in Call, SysEnter(t, c) PROVE StashIsCurrent'
  <2>1. call' = [call EXCEPT ![t] = c] /\ call[t] = None /\ c # None
    BY <1>2, CallAssumption DEF SysEnter
  <2>2. enter_ctx[t] = None
    BY <2>1 DEF StashIsCurrent
  <2>3. \A u \in Task : \/ enter_ctx'[u] \in {enter_ctx[u], None}
                        \/ u = t /\ enter_ctx'[u] = Stash(c) /\ Wanted(c)
    <3>1. CASE UNCHANGED enter_ctx
      BY <3>1
    <3>2. CASE Wanted(c) /\ UpdateEnterCtx(t, Stash(c))
      BY <3>2 DEF UpdateEnterCtx, Entries, TypeOK
    <3> QED
      BY <1>2, <3>1, <3>2 DEF SysEnter, stash_enter
  <2> QED
    BY <2>1, <2>2, <2>3, WantedIsRelevant DEF StashIsCurrent, TypeOK
<1>3. ASSUME NEW t \in Task, NEW ret \in Fd \cup {-1, 0}, SysExit(t, ret)
      PROVE  StashIsCurrent'
  <2>1. call' = [call EXCEPT ![t] = None]
    BY <1>3 DEF SysExit
  <2>2. enter_ctx' = [enter_ctx EXCEPT ![t] = None]
    BY <1>3 DEF SysExit, emit_exit, TypeOK
  <2> QED
    BY <2>1, <2>2 DEF StashIsCurrent, TypeOK
<1> QED
  BY <1>1, <1>2, <1>3 DEF Next, vars, kernelVars, mapVars, historyVars,
     Spawn, Seed, Reap, Release, Consume, Fork, TaskExit

(* No stale arguments are ever left in enter_ctx, whatever fails or is     *)
(* evicted, for any number of tasks and any size of the map.               *)
THEOREM StashCorrect == Spec => []StashIsCurrent
  BY TypeInit, TypeStep, StashInit, StashStep, PTL DEF Spec

-----------------------------------------------------------------------------
(* The tracked set is the live tree.  The strengthening says what the       *)
(* property leaves open: nothing is tracked before the seed, the root is    *)
(* alone in the tree until then unless a fork was missed, and it cannot be  *)
(* spawned a second time behind the seed.                                   *)
TrackedInv ==
  /\ "late_seed" \notin mishap => tracked_pids \subseteq tree
  /\ seeded /\ mishap \cap {"untracked", "tracked_full", "late_seed"} = {}
       => tracked_pids = tree
  /\ ~seeded => tracked_pids = {}
  /\ ~seeded /\ "untracked" \notin mishap => tree \subseteq {Root}
  /\ task[Root] = "running" /\ ~reaped => Root \in tree
  /\ seeded /\ ~reaped => task[Root] # "free"

LEMMA TrackedInit == Init => TrackedInv
  BY TaskAssumption DEF Init, TrackedInv

LEMMA ReserveMishap ==
  ASSUME NEW e, NEW from, NEW why, Reserve(e, from, why)
  PROVE  mishap \cup why \subseteq mishap' /\ mishap' \subseteq mishap \cup why \cup {"ring_full"}
  BY DEF Reserve

LEMMA TrackedStep == TypeOK /\ TrackedInv /\ [Next]_vars => TrackedInv'
<1> SUFFICES ASSUME TypeOK, TrackedInv, [Next]_vars PROVE TrackedInv'
  OBVIOUS
<1>1. CASE Spawn
  BY <1>1, TaskAssumption DEF Spawn, mapVars, TrackedInv, TypeOK
<1>2. CASE Seed
  <2>1. task[Root] \in {"running", "zombie"}
    BY <1>2, TaskAssumption DEF Seed, TypeOK
  <2> QED
    BY <1>2, <2>1 DEF Seed, kernelVars, TrackedInv
<1>3. CASE Reap \/ \E t \in Task : Release(t)
  BY <1>3, TaskAssumption DEF Reap, Release, mapVars, historyVars, TrackedInv, TypeOK
<1>4. CASE Consume
  BY <1>4 DEF Consume, kernelVars, mapVars, historyVars, TrackedInv
<1>5. ASSUME NEW p \in Task, NEW c \in Task, Fork(p, c) PROVE TrackedInv'
  <2>1. /\ task' = [task EXCEPT ![c] = "running"] /\ (c = Root => reaped)
        /\ tree' = IF p \in tree THEN tree \cup {c} ELSE tree
        /\ UNCHANGED <<seeded, reaped>>
    BY <1>5 DEF Fork
  <2>2. CASE p \notin tracked_pids
    <3>1. /\ tracked_pids' = tracked_pids
          /\ mishap' = mishap \cup (IF p \in tree THEN {"untracked"} ELSE {})
      BY <1>5, <2>2 DEF Fork, handle_fork
    <3> QED
      BY <2>1, <2>2, <3>1, TaskAssumption DEF TrackedInv, TypeOK
  <2>3. CASE p \in tracked_pids
    <3>1. tracked_pids' = IF HasRoom(c) THEN tracked_pids \cup {c} ELSE tracked_pids
      BY <1>5, <2>3 DEF Fork, handle_fork
    <3>2. /\ mishap \subseteq mishap'
          /\ mishap' \subseteq mishap \cup {"tracked_full", "ring_full"}
          /\ ~HasRoom(c) => "tracked_full" \in mishap'
      BY <1>5, <2>3, ReserveMishap DEF Fork, handle_fork
    <3> QED
      BY <2>1, <2>3, <3>1, <3>2, TaskAssumption DEF TrackedInv, TypeOK
  <2> QED
    BY <2>2, <2>3
<1>6. ASSUME NEW t \in Task, TaskExit(t) PROVE TrackedInv'
  <2>1. /\ task' = [task EXCEPT ![t] = "zombie"]
        /\ tree' = tree \ {t} /\ tracked_pids' = tracked_pids \ {t}
        /\ UNCHANGED <<seeded, reaped>>
    BY <1>6 DEF TaskExit, handle_exit
  <2>2. mishap \subseteq mishap' /\ mishap' \subseteq mishap \cup {"ring_full"}
    BY <1>6, ReserveMishap DEF TaskExit, handle_exit
  <2> QED
    BY <2>1, <2>2, TaskAssumption DEF TrackedInv, TypeOK
<1>7. ASSUME UNCHANGED <<task, seeded, reaped, tracked_pids, tree>>,
             mishap \subseteq mishap',
             mishap' \subseteq mishap \cup {"untracked", "fault", "evicted", "ring_full"}
      PROVE TrackedInv'
  BY <1>7 DEF TrackedInv
<1>8. ASSUME NEW t \in Task, NEW c \in Call, SysEnter(t, c) PROVE TrackedInv'
  BY <1>7, <1>8 DEF SysEnter, stash_enter, UpdateEnterCtx
<1>9. ASSUME NEW t \in Task, NEW ret \in Fd \cup {-1, 0}, SysExit(t, ret) PROVE TrackedInv'
  <2>1. mishap \subseteq mishap' /\ mishap' \subseteq mishap \cup {"ring_full"}
    BY <1>9, ReserveMishap DEF SysExit, emit_exit
  <2> QED
    BY <1>7, <1>9, <2>1 DEF SysExit
<1>10. CASE UNCHANGED vars
  BY <1>7, <1>10 DEF vars
<1> QED
  BY <1>1, <1>2, <1>3, <1>4, <1>5, <1>6, <1>8, <1>9, <1>10 DEF Next

(* Tasks outside the spawned tree are never followed, and as long as the   *)
(* seed came in time and the map had room, exactly the live tree is.       *)
THEOREM TrackedCorrect == Spec => []TrackedIsTree
<1>1. TrackedInv => TrackedIsTree
  BY DEF TrackedInv, TrackedIsTree
<1> QED
  BY <1>1, TypeInit, TypeStep, TrackedInit, TrackedStep, PTL DEF Spec
-----------------------------------------------------------------------------
(* Every event of the log tells the truth.  The strengthening ties the      *)
(* history to the log and bounds it by the completed syscalls, so that the  *)
(* next one to complete is later than all those already told.               *)
GenuineInv ==
  /\ Len(origin) = Len(log)
  /\ \A i \in 1..Len(log) : origin[i] <= Len(done)
  /\ Genuine

(* What a probe emits at the exit of a syscall that succeeded reports it.   *)
LEMMA EmittedReports ==
  ASSUME NEW t \in Task, NEW c \in Call, NEW ret \in Int, Relevant(c),
         NEW e, e = SyscallEvent(t, Etype(c.sys, Stash(c).flags), Stash(c), ret),
         NEW d, d.task = t, d.call = c, d.ret = ret
  PROVE  Reports(e, d) /\ e.etype \notin LifeEtype
<1> DEFINE f == Stash(c).flags
           k == Etype(c.sys, f)
<1>1. c \in Args /\ c.sys \in Syscall /\ (c.path = None <=> c.sys = "fchdir")
      /\ (c.sys \notin DirfdCalls => c.dirfd = AT_FDCWD)
  BY CallAssumption DEF Args
<1>2. (k \in CreationEvent <=> Creates(c)) /\ k \notin LifeEtype
  <2>1. CASE c.sys \in OpenatFamily
    <3>1. f = c.flags
      BY <2>1 DEF Stash, StashFlags, OpenatFamily
    <3>2. k = IF O_CREAT \in c.flags THEN EV_OPENAT_CREATE ELSE EV_OPENAT_DIR
      BY <2>1, <3>1 DEF Etype
    <3>3. Creates(c) <=> O_CREAT \in c.flags
      BY <2>1 DEF Creates, OpenatFamily
    <3> QED
      BY <3>2, <3>3 DEF CreationEvent, LifeEtype, EV_OPENAT_CREATE, EV_OPENAT_DIR,
         EV_FORK_TRACKED, EV_EXIT_TRACKED
  <2>2. CASE c.sys \notin OpenatFamily
    <3>1. k = FixedEtype[c.sys] /\ c.sys \in DOMAIN FixedEtype
      BY <1>1, <2>2 DEF Etype, Syscall
    <3>2. c.sys = "open" => O_CREAT \in c.flags
      BY <2>2 DEF Relevant, Creates, OpenatFamily
    <3>3. Creates(c) <=> c.sys \notin {"chdir", "fchdir"}
      BY <1>1, <2>2, <3>2 DEF Creates, OpenatFamily
    <3> HIDE DEF k, f
    <3> QED
      BY <3>1, <3>3 DEF FixedEtype, CreationEvent, LifeEtype, EV_OPENAT_CREATE,
         EV_FORK_TRACKED, EV_EXIT_TRACKED
  <2> QED
    BY <2>1, <2>2
<1>3. Stash(c).dirfd = c.dirfd
  BY <1>1 DEF Stash
<1>4. /\ Stash(c).path = c.path \/ Stash(c).truncated
      /\ Stash(c).truncated <=> c.path # None /\ PathLen[c.path] + 1 >= PATH_BUF_SZ
  <2>1. c.path # None => PathLen[c.path] \in Nat
    BY <1>1, CallAssumption DEF Args
  <2>2. c.path # None =>
          /\ Copied(c.path) = PATH_BUF_SZ <=> PathLen[c.path] + 1 >= PATH_BUF_SZ
          /\ ~Fits(c.path) => Copied(c.path) = PATH_BUF_SZ
    BY <2>1, BoundAssumption DEF Copied, Fits
  <2>3. /\ Stash(c).truncated = (c.path # None /\ Copied(c.path) = PATH_BUF_SZ)
        /\ c.path = None \/ Fits(c.path) => Stash(c).path = c.path
    BY DEF Stash
  <2> QED
    BY <2>2, <2>3
<1>5. /\ e.pid = t /\ e.etype = k /\ e.dirfd = Stash(c).dirfd
      /\ e.truncated = Stash(c).truncated /\ e.path = Stash(c).path
      /\ k = EV_OPENAT_DIR => e.result_fd = ret
  BY DEF SyscallEvent
<1> HIDE DEF k, f
<1> QED
  BY <1>2, <1>3, <1>4, <1>5 DEF Reports

(* A fork or exit event in the log, or none, disturbs nothing.              *)
LEMMA GenuineLife ==
  ASSUME TypeOK, GenuineInv, UNCHANGED done,
         NEW e \in Event, e.etype \in LifeEtype, NEW why,
         Reserve(e, 0, why)
  PROVE  GenuineInv'
<1>1. log \in Seq(Event) /\ origin \in Seq(Nat) /\ Len(log) \in Nat /\ Len(done) \in Nat
  BY DEF TypeOK
<1>2. CASE UNCHANGED <<log, origin>>
  BY <1>2 DEF GenuineInv, Genuine
<1>3. CASE log' = Append(log, e) /\ origin' = Append(origin, 0)
  <2> DEFINE n == Len(log) + 1
  <2>1. /\ Len(log') = n /\ Len(origin') = n
        /\ log'[n] = e /\ origin'[n] = 0
        /\ \A i \in 1..Len(log) : log'[i] = log[i] /\ origin'[i] = origin[i]
    BY <1>1, <1>3, AppendFacts DEF GenuineInv
  <2>2. \A i \in 1..n : i \in 1..Len(log) \/ i = n
    BY <1>1
  <2>3. \A i \in 1..Len(log') : origin'[i] <= Len(done')
    BY <1>1, <2>1, <2>2 DEF GenuineInv
  <2>4. \A i \in 1..Len(log') : origin'[i] = 0 <=> log'[i].etype \in LifeEtype
    BY <2>1, <2>2 DEF GenuineInv, Genuine
  <2>5. \A i \in 1..Len(log') : origin'[i] # 0 => Reports(log'[i], done'[origin'[i]])
    BY <2>1, <2>2 DEF GenuineInv, Genuine
  <2>6. \A i, j \in 1..Len(log') :
          i < j /\ origin'[i] # 0 /\ origin'[j] # 0 => origin'[i] < origin'[j]
    BY <2>1, <2>2 DEF GenuineInv, Genuine
  <2> QED
    BY <2>1, <2>3, <2>4, <2>5, <2>6 DEF GenuineInv, Genuine
<1> QED
  BY <1>2, <1>3 DEF Reserve

LEMMA GenuineInit == Init => GenuineInv
  BY DEF Init, GenuineInv, Genuine

LEMMA GenuineStep ==
  TypeOK /\ StashIsCurrent /\ GenuineInv /\ [Next]_vars => GenuineInv'
<1> SUFFICES ASSUME TypeOK, StashIsCurrent, GenuineInv, [Next]_vars PROVE GenuineInv'
  OBVIOUS
<1>1. ASSUME UNCHANGED <<log, origin, done>> PROVE GenuineInv'
  BY <1>1 DEF GenuineInv, Genuine
<1>2. ASSUME NEW p \in Task, NEW c \in Task, Fork(p, c) PROVE GenuineInv'
  <2>1. UNCHANGED done
    BY <1>2 DEF Fork
  <2>2. CASE p \in tracked_pids
    <3> DEFINE e == LifeEvent(EV_FORK_TRACKED, c, p)
               why == IF HasRoom(c) THEN {} ELSE {"tracked_full"}
    <3>1. Reserve(e, 0, why)
      BY <1>2, <2>2 DEF Fork, handle_fork
    <3>2. e \in Event /\ e.etype \in LifeEtype
      BY LifeEventType DEF LifeEvent, LifeEtype
    <3> HIDE DEF e, why
    <3> QED
      BY <2>1, <3>1, <3>2, GenuineLife
  <2> QED
    BY <1>1, <1>2, <2>1, <2>2 DEF Fork, handle_fork
<1>3. ASSUME NEW t \in Task, TaskExit(t) PROVE GenuineInv'
  <2>1. UNCHANGED done
    BY <1>3 DEF TaskExit
  <2>2. CASE t \in tracked_pids
    <3>1. Reserve(LifeEvent(EV_EXIT_TRACKED, t, None), 0, {})
      BY <1>3, <2>2 DEF TaskExit, handle_exit
    <3>2. /\ LifeEvent(EV_EXIT_TRACKED, t, None) \in Event
          /\ LifeEvent(EV_EXIT_TRACKED, t, None).etype \in LifeEtype
      BY LifeEventType DEF LifeEvent, LifeEtype
    <3> QED
      BY <2>1, <3>1, <3>2, GenuineLife
  <2> QED
    BY <1>1, <1>3, <2>1, <2>2 DEF TaskExit, handle_exit
<1>4. ASSUME NEW t \in Task, NEW ret \in Fd \cup {-1, 0}, SysExit(t, ret) PROVE GenuineInv'
  <2> DEFINE c == call[t]
             d == [task |-> t, call |-> c, ret |-> ret, member |-> t \in tree]
             e == SyscallEvent(t, Etype(c.sys, Stash(c).flags), Stash(c), ret)
             n == Len(log) + 1
             m == Len(done) + 1
  <2>1. c \in Call /\ ret \in Int /\ d \in Done /\ c.sys \in Syscall
    <3>1. c \in Call /\ ret \in Int /\ c.sys \in Syscall
      BY <1>4, TaskAssumption, CallAssumption DEF SysExit, TypeOK, Args
    <3> QED
      BY <3>1 DEF Done
  <2>2. /\ log \in Seq(Event) /\ origin \in Seq(Nat) /\ done \in Seq(Done)
        /\ Len(log) \in Nat /\ Len(done) \in Nat
    BY DEF TypeOK
  <2>3. \/ done' = done
        \/ done' = Append(done, d)
    BY <1>4 DEF SysExit
  <2>4. /\ Len(done') \in Nat /\ Len(done) <= Len(done')
        /\ \A i \in 1..Len(done) : done'[i] = done[i]
    BY <2>1, <2>2, <2>3, AppendFacts
  <2>5. \A i \in 1..Len(log) : origin[i] \in Nat /\ (origin[i] # 0 => origin[i] \in 1..Len(done))
    BY <2>2 DEF GenuineInv
  <2>6. CASE UNCHANGED <<log, origin>>
    <3>1. \A i \in 1..Len(log) : origin[i] <= Len(done')
      BY <2>2, <2>4, <2>5 DEF GenuineInv
    <3>2. \A i \in 1..Len(log) : origin[i] # 0 => Reports(log[i], done'[origin[i]])
      BY <2>4, <2>5 DEF GenuineInv, Genuine
    <3> QED
      BY <2>6, <3>1, <3>2 DEF GenuineInv, Genuine
  <2>7. CASE ~(UNCHANGED <<log, origin>>)
    <3>1. enter_ctx[t] # None
      BY <1>4, <2>7 DEF SysExit, emit_exit
    <3>2. Relevant(c) /\ enter_ctx[t] = Stash(c)
      BY <3>1 DEF StashIsCurrent
    <3>3. Succeeded(c.sys, ret) /\ Reserve(e, Len(done'), {})
      BY <1>4, <2>7, <3>1, <3>2 DEF SysExit, emit_exit
    <3>4. ret >= 0
      BY <2>1, <3>3 DEF Succeeded
    <3>5. done' = Append(done, d)
      BY <1>4, <3>2, <3>4 DEF SysExit
    <3>6. Len(done') = m /\ done'[m] = d
      BY <2>1, <2>2, <3>5, AppendFacts
    <3>7. Reports(e, d) /\ e.etype \notin LifeEtype
      <4>1. d.task = t /\ d.call = c /\ d.ret = ret
        OBVIOUS
      <4> HIDE DEF d
      <4> QED
        BY <2>1, <3>2, <4>1, EmittedReports
    <3>8. e \in Event
      BY <2>1, StashType, EtypeType, SyscallEventType
    <3>9. log' = Append(log, e) /\ origin' = Append(origin, m)
      BY <2>7, <3>3, <3>6 DEF Reserve
    <3> HIDE DEF e, d, c
    <3>10. /\ Len(log') = n /\ Len(origin') = n /\ log'[n] = e /\ origin'[n] = m
           /\ \A i \in 1..Len(log) : log'[i] = log[i] /\ origin'[i] = origin[i]
      BY <2>2, <3>8, <3>9, AppendFacts DEF GenuineInv
    <3>11. \A i \in 1..Len(log') :
             \/ i \in 1..Len(log) /\ origin'[i] = origin[i] /\ log'[i] = log[i]
             \/ i = n /\ origin'[i] = m /\ log'[i] = e
      BY <2>2, <3>10
    <3>12. \A i \in 1..Len(log) : origin[i] \in Nat /\ origin[i] <= Len(done)
      BY <2>5 DEF GenuineInv
    <3>13. \A i \in 1..Len(log') : origin'[i] <= Len(done')
      <4>1. Len(done) <= m /\ m <= m /\ m \in Nat /\ Len(done) \in Nat
        BY <2>2
      <4> HIDE DEF m, n
      <4> TAKE i \in 1..Len(log')
      <4>2. CASE i \in 1..Len(log)
        <5>1. origin'[i] = origin[i]
          BY <3>10, <4>2
        <5> QED
          BY <3>6, <3>12, <4>1, <4>2, <5>1
      <4>3. CASE origin'[i] = m
        BY <3>6, <4>1, <4>3
      <4> QED
        BY <3>11, <4>2, <4>3
    <3>14. \A i \in 1..Len(log') : origin'[i] = 0 <=> log'[i].etype \in LifeEtype
      BY <2>2, <3>7, <3>11 DEF GenuineInv, Genuine
    <3>15. \A i \in 1..Len(log') : origin'[i] # 0 => Reports(log'[i], done'[origin'[i]])
      <4>1. \A i \in 1..Len(log) : origin[i] # 0 => Reports(log[i], done'[origin[i]])
        BY <2>4, <2>5 DEF GenuineInv, Genuine
      <4> QED
        BY <3>6, <3>7, <3>11, <4>1
    <3>16. \A i, j \in 1..Len(log') :
             i < j /\ origin'[i] # 0 /\ origin'[j] # 0 => origin'[i] < origin'[j]
      <4> SUFFICES ASSUME NEW i \in 1..Len(log'), NEW j \in 1..Len(log'),
                          i < j, origin'[i] # 0, origin'[j] # 0
                   PROVE  origin'[i] < origin'[j]
        OBVIOUS
      <4>1. i \in 1..Len(log) /\ origin'[i] = origin[i]
        BY <2>2, <3>10, <3>11
      <4>2. CASE j \in 1..Len(log) /\ origin'[j] = origin[j]
        BY <4>1, <4>2 DEF GenuineInv, Genuine
      <4>3. CASE j = n /\ origin'[j] = m
        BY <2>2, <3>12, <4>1, <4>3
      <4> QED
        BY <3>11, <4>2, <4>3
    <3> QED
      BY <3>10, <3>13, <3>14, <3>15, <3>16 DEF GenuineInv, Genuine
  <2> QED
    BY <2>6, <2>7
<1> QED
  BY <1>1, <1>2, <1>3, <1>4 DEF Next, vars, kernelVars, mapVars, historyVars,
     Spawn, Seed, Reap, Release, Consume, SysEnter

(* Every syscall event is the event of one successful syscall of its own    *)
(* task, told as what it was, once, in completion order: for any number of  *)
(* tasks, interleaving, map sizes, ring size and buffer size.               *)
THEOREM GenuineCorrect == Spec => []Genuine
<1>1. GenuineInv => Genuine
  BY DEF GenuineInv
<1> QED
  BY <1>1, TypeInit, TypeStep, StashInit, StashStep, GenuineInit, GenuineStep, PTL DEF Spec
-----------------------------------------------------------------------------
(* Nothing is lost in silence.  The strengthening: without a mishap, every  *)
(* call of the tree that matters has its arguments stashed while it runs.   *)
LossInv ==
  /\ \A t \in Task : task[t] # "running" => call[t] = None
  /\ mishap = {} => \A t \in tree :
       call[t] # None /\ Relevant(call[t]) => enter_ctx[t] # None
  /\ NoSilentLoss

LEMMA RelevantIsWanted ==
  ASSUME NEW c \in Call, Relevant(c)
  PROVE  Wanted(c)
<1>1. c.sys \in OpenatFamily => c.flags \cap {O_CREAT, O_DIRECTORY} # {}
  BY DEF Relevant, Creates, OpenatFamily
<1>2. c.sys = "open" => O_CREAT \in c.flags
  BY DEF Relevant, Creates, OpenatFamily
<1> QED
  BY <1>1, <1>2 DEF Wanted

LEMMA LossInit == Init => LossInv
  BY DEF Init, LossInv, NoSilentLoss

(* The log only grows at its end, and mishaps are not forgotten.            *)
LEMMA ReserveGrows ==
  ASSUME TypeOK, Len(origin) = Len(log),
         NEW e \in Event, NEW from \in Nat, NEW why, Reserve(e, from, why)
  PROVE  /\ Len(log) <= Len(log')
         /\ \A i \in 1..Len(log) : origin'[i] = origin[i]
         /\ mishap \subseteq mishap'
         /\ mishap' = {} => \E i \in 1..Len(log') : origin'[i] = from
<1>1. log \in Seq(Event) /\ origin \in Seq(Nat) /\ Len(log) \in Nat
  BY DEF TypeOK
<1>2. CASE UNCHANGED <<log, origin>> /\ mishap' = mishap \cup why \cup {"ring_full"}
  BY <1>1, <1>2
<1>3. CASE /\ log' = Append(log, e) /\ origin' = Append(origin, from)
           /\ mishap' = mishap \cup why
  <2>1. /\ Len(log') = Len(log) + 1
        /\ \A i \in 1..Len(log) : origin'[i] = origin[i]
        /\ origin'[Len(log) + 1] = from
    BY <1>1, <1>3, AppendFacts
  <2> QED
    BY <1>1, <1>3, <2>1
<1> QED
  BY <1>2, <1>3 DEF Reserve

(* A step that completes no syscall keeps NoSilentLoss if the log grows.    *)
LEMMA LossLife ==
  ASSUME TypeOK, NoSilentLoss, UNCHANGED done, Len(log) <= Len(log'), Len(log') \in Nat,
         \A i \in 1..Len(log) : origin'[i] = origin[i], mishap \subseteq mishap'
  PROVE  NoSilentLoss'
<1>1. Len(log) \in Nat
  BY DEF TypeOK
<1>2. 1..Len(log) \subseteq 1..Len(log')
  BY <1>1
<1> QED
  BY <1>2 DEF NoSilentLoss

LEMMA LossStep ==
  TypeOK /\ StashIsCurrent /\ GenuineInv /\ LossInv /\ [Next]_vars => LossInv'
<1> SUFFICES ASSUME TypeOK, StashIsCurrent, GenuineInv, LossInv, [Next]_vars
             PROVE  LossInv'
  OBVIOUS
<1>1. /\ Len(origin) = Len(log) /\ Len(log) \in Nat /\ Len(done) \in Nat
      /\ done \in Seq(Done) /\ tree \subseteq Task
  BY DEF GenuineInv, TypeOK
<1>2. ASSUME UNCHANGED <<call, enter_ctx, log, origin, done, mishap>>,
             tree' \subseteq tree \cup {Root}, tree' # tree => task[Root] = "free",
             \A t \in Task : task[t] = "running" => task'[t] = "running"
      PROVE LossInv'
  <2>1. \A t \in tree' \ tree : t = Root /\ call[t] = None
    BY <1>2, TaskAssumption DEF LossInv
  <2>2. \A t \in Task : task'[t] # "running" => call'[t] = None
    BY <1>2 DEF LossInv
  <2> QED
    BY <1>2, <2>1, <2>2 DEF LossInv, NoSilentLoss
<1>3. CASE Spawn
  BY <1>2, <1>3 DEF Spawn, mapVars, TypeOK
<1>4. CASE Seed
  BY <1>4 DEF Seed, kernelVars, LossInv, NoSilentLoss
<1>5. CASE Reap \/ \E t \in Task : Release(t)
  BY <1>2, <1>5 DEF Reap, Release, mapVars, historyVars, TypeOK
<1>6. CASE Consume
  BY <1>2, <1>6 DEF Consume, kernelVars, mapVars, historyVars
<1>7. ASSUME NEW p \in Task, NEW c \in Task, Fork(p, c) PROVE LossInv'
  <2>1. /\ Len(log) <= Len(log') /\ \A i \in 1..Len(log) : origin'[i] = origin[i]
        /\ mishap \subseteq mishap'
    <3>1. CASE p \notin tracked_pids
      BY <1>1, <1>7, <3>1 DEF Fork, handle_fork
    <3>2. CASE p \in tracked_pids
      <4> DEFINE e == LifeEvent(EV_FORK_TRACKED, c, p)
                 why == IF HasRoom(c) THEN {} ELSE {"tracked_full"}
      <4>1. Reserve(e, 0, why)
        BY <1>7, <3>2 DEF Fork, handle_fork
      <4>2. e \in Event
        BY LifeEventType
      <4> HIDE DEF e, why
      <4> QED
        BY <1>1, <4>1, <4>2, ReserveGrows
    <3> QED
      BY <3>1, <3>2
  <2>2. Len(log') \in Nat /\ UNCHANGED <<done, call, enter_ctx>>
        /\ task[c] = "free" /\ task' = [task EXCEPT ![c] = "running"]
        /\ tree' \subseteq tree \cup {c}
    BY <1>7, ForkProbeType DEF Fork
  <2>3. NoSilentLoss'
    BY <2>1, <2>2, LossLife DEF LossInv
  <2>4. call[c] = None
    BY <2>2 DEF LossInv
  <2> QED
    BY <2>1, <2>2, <2>3, <2>4 DEF LossInv, TypeOK
<1>8. ASSUME NEW t \in Task, TaskExit(t) PROVE LossInv'
  <2>1. /\ Len(log) <= Len(log') /\ \A i \in 1..Len(log) : origin'[i] = origin[i]
        /\ mishap \subseteq mishap'
    <3>1. CASE t \notin tracked_pids
      BY <1>1, <1>8, <3>1 DEF TaskExit, handle_exit
    <3>2. CASE t \in tracked_pids
      <4>1. Reserve(LifeEvent(EV_EXIT_TRACKED, t, None), 0, {})
        BY <1>8, <3>2 DEF TaskExit, handle_exit
      <4>2. LifeEvent(EV_EXIT_TRACKED, t, None) \in Event
        BY LifeEventType
      <4> QED
        BY <1>1, <4>1, <4>2, ReserveGrows
    <3> QED
      BY <3>1, <3>2
  <2>2. Len(log') \in Nat /\ UNCHANGED <<done, call, enter_ctx>>
        /\ call[t] = None /\ tree' \subseteq tree
        /\ \A u \in Task : u # t => task'[u] = task[u]
    BY <1>8, ExitProbeType DEF TaskExit, TypeOK
  <2>3. NoSilentLoss'
    BY <2>1, <2>2, LossLife DEF LossInv
  <2> QED
    BY <2>1, <2>2, <2>3 DEF LossInv
<1>9. ASSUME NEW t \in Task, NEW c \in Call, SysEnter(t, c) PROVE LossInv'
  <2>1. /\ call' = [call EXCEPT ![t] = c] /\ task[t] = "running"
        /\ UNCHANGED <<task, tree, log, origin, done>>
    BY <1>9 DEF SysEnter
  <2>2. mishap \subseteq mishap'
    BY <1>9 DEF SysEnter, stash_enter, UpdateEnterCtx
  <2>3. NoSilentLoss'
    BY <1>1, <2>1, <2>2 DEF LossInv, NoSilentLoss
  <2>4. ASSUME mishap' = {}
        PROVE  \A u \in tree' : call'[u] # None /\ Relevant(call'[u]) => enter_ctx'[u] # None
    <3>1. CASE ~Wanted(c)
      <4>1. ~Relevant(c) /\ UNCHANGED enter_ctx
        BY <1>9, <3>1, RelevantIsWanted DEF SysEnter
      <4> QED
        BY <1>1, <2>1, <2>2, <2>4, <4>1 DEF LossInv, TypeOK
    <3>2. CASE Wanted(c)
      <4>1. stash_enter(t, c)
        BY <1>9, <3>2 DEF SysEnter
      <4>2. CASE t \notin tracked_pids
        <5>1. t \notin tree /\ UNCHANGED enter_ctx
          BY <2>4, <4>1, <4>2 DEF stash_enter
        <5> QED
          BY <1>1, <2>1, <2>2, <2>4, <5>1 DEF LossInv, TypeOK
      <4>3. CASE t \in tracked_pids
        <5>1. enter_ctx' = [enter_ctx EXCEPT ![t] = Stash(c)]
          BY <2>4, <4>1, <4>3 DEF stash_enter, UpdateEnterCtx
        <5>2. Stash(c) # None
          BY StashType, CallAssumption
        <5> QED
          BY <1>1, <2>1, <2>2, <2>4, <5>1, <5>2 DEF LossInv, TypeOK
      <4> QED
        BY <4>2, <4>3
    <3> QED
      BY <3>1, <3>2
  <2> QED
    BY <2>1, <2>3, <2>4 DEF LossInv, TypeOK
<1>10. ASSUME NEW t \in Task, NEW ret \in Fd \cup {-1, 0}, SysExit(t, ret) PROVE LossInv'
  <2> DEFINE c == call[t]
             d == [task |-> t, call |-> c, ret |-> ret, member |-> t \in tree]
             e == SyscallEvent(t, Etype(c.sys, enter_ctx[t].flags), enter_ctx[t], ret)
  <2>1. /\ c \in Call /\ c.sys \in Syscall /\ ret \in Int /\ ret \in Result(c)
        /\ call' = [call EXCEPT ![t] = None] /\ UNCHANGED <<task, tree>>
        /\ emit_exit(t, c.sys, ret, Len(done'))
    BY <1>10, TaskAssumption, CallAssumption DEF SysExit, TypeOK, Args
  <2>2. \A u \in Task : u # t => enter_ctx'[u] = enter_ctx[u]
    BY <2>1 DEF emit_exit, TypeOK
  <2>3. done' = (IF Relevant(c) /\ ret >= 0 THEN Append(done, d) ELSE done) /\ d \in Done
    BY <1>10, <2>1 DEF SysExit, Done
  <2>4. Len(done') \in Nat
    BY <1>1, <2>3, AppendFacts
  <2>5. CASE UNCHANGED <<log, origin, mishap>>
    <3>1. mishap = {} => (~(Relevant(c) /\ ret >= 0) \/ t \notin tree)
      <4>1. CASE enter_ctx[t] = None
        BY <2>1, <4>1, <1>10 DEF LossInv, SysExit
      <4>2. CASE enter_ctx[t] # None
        <5> SUFFICES ASSUME Succeeded(c.sys, ret), mishap = {} PROVE FALSE
          BY <2>1 DEF Succeeded, Result
        <5>1. Reserve(e, Len(done'), {})
          BY <2>1, <4>2 DEF emit_exit
        <5>2. log' = Append(log, e) \/ mishap' # {}
          BY <5>1 DEF Reserve
        <5>3. enter_ctx[t] \in EnterArgs
          BY <4>2 DEF TypeOK
        <5>4. e \in Event
          BY <2>1, <5>3, EtypeType, SyscallEventType
        <5>5. Len(Append(log, e)) = Len(log) + 1
          BY <5>4, AppendFacts DEF TypeOK
        <5> QED
          BY <1>1, <2>5, <5>2, <5>5
      <4> QED
        BY <4>1, <4>2
    <3>2. NoSilentLoss'
      <4>1. CASE done' = done
        BY <2>5, <4>1 DEF LossInv, NoSilentLoss
      <4>2. CASE done' = Append(done, d) /\ (mishap = {} => t \notin tree)
        <5>1. /\ Len(done') = Len(done) + 1 /\ done'[Len(done) + 1] = d
              /\ \A i \in 1..Len(done) : done'[i] = done[i]
          BY <1>1, <2>3, <4>2, AppendFacts
        <5>2. \A i \in 1..Len(done') : i \in 1..Len(done) \/ i = Len(done) + 1
          BY <1>1, <5>1
        <5>3. d.member = (t \in tree)
          OBVIOUS
        <5> HIDE DEF d
        <5>4. mishap = {} => ~done'[Len(done) + 1].member
          BY <4>2, <5>1, <5>3
        <5> QED
          BY <2>5, <5>1, <5>2, <5>4 DEF LossInv, NoSilentLoss
      <4> QED
        BY <2>3, <3>1, <4>1, <4>2
    <3> QED
      BY <1>1, <2>1, <2>2, <2>5, <3>2 DEF LossInv, TypeOK
  <2>6. CASE ~(UNCHANGED <<log, origin, mishap>>)
    <3>1. enter_ctx[t] # None /\ Reserve(e, Len(done'), {})
      BY <2>1, <2>6 DEF emit_exit
    <3>2. enter_ctx[t] \in EnterArgs
      BY <3>1 DEF TypeOK
    <3>3. e \in Event
      BY <2>1, <3>2, EtypeType, SyscallEventType
    <3> HIDE DEF e
    <3>4. /\ Len(log) <= Len(log')
          /\ \A i \in 1..Len(log) : origin'[i] = origin[i]
          /\ mishap \subseteq mishap'
          /\ mishap' = {} => \E i \in 1..Len(log') : origin'[i] = Len(done')
      BY <1>1, <2>4, <3>1, <3>3, ReserveGrows
    <3>5. Len(log') \in Nat
      BY <2>1, <2>4, EmitType
    <3>6. 1..Len(log) \subseteq 1..Len(log')
      BY <1>1, <3>4, <3>5
    <3>7. \A i \in 1..Len(done') :
             \/ i \in 1..Len(done) /\ done'[i] = done[i]
             \/ i = Len(done')
      <4> HIDE DEF d
      <4>1. CASE done' = done
        BY <4>1
      <4>2. CASE done' = Append(done, d)
        <5>1. /\ Len(done') = Len(done) + 1
              /\ \A i \in 1..Len(done) : done'[i] = done[i]
          BY <1>1, <2>3, <4>2, AppendFacts
        <5> QED
          BY <1>1, <5>1
      <4> QED
        BY <2>3, <4>1, <4>2
    <3>8. NoSilentLoss'
      BY <3>4, <3>6, <3>7 DEF LossInv, NoSilentLoss
    <3> QED
      BY <1>1, <2>1, <2>2, <3>4, <3>8 DEF LossInv, TypeOK
  <2> QED
    BY <2>5, <2>6
<1>11. CASE UNCHANGED vars
  BY <1>11 DEF vars, LossInv, NoSilentLoss
<1> QED
  BY <1>3, <1>4, <1>5, <1>6, <1>7, <1>8, <1>9, <1>10, <1>11 DEF Next

(* If a creation or move of the spawned tree is missing from the log, one   *)
(* of the named mishaps has happened: there is no other way to lose one.    *)
THEOREM NothingLostInSilence == Spec => []NoSilentLoss
<1>1. LossInv => NoSilentLoss
  BY DEF LossInv
<1> QED
  BY <1>1, TypeInit, TypeStep, StashInit, StashStep, GenuineInit, GenuineStep,
     LossInit, LossStep, PTL DEF Spec
-----------------------------------------------------------------------------
(* Forks come first.  The announcement of a task is a fork event with no    *)
(* exit event behind it; what is tracked is announced, and only what is     *)
(* tracked is in a captured call.                                           *)
Announced(l, t, n) ==
  \E f \in 1..n :
    /\ l[f].pid = t /\ l[f].etype = EV_FORK_TRACKED
    /\ \A k \in f..n : ~(l[k].pid = t /\ l[k].etype = EV_EXIT_TRACKED)

InOrder(l, T) ==
  /\ \A t \in T \ {Root} : Announced(l, t, Len(l))
  /\ \A i \in 1..Len(l) :
       l[i].pid # Root /\ l[i].etype # EV_FORK_TRACKED => Announced(l, l[i].pid, i - 1)

FirstInv ==
  /\ \A t \in Task : enter_ctx[t] # None => t \in tracked_pids
  /\ mishap \cap {"ring_full", "late_seed"} = {} => InOrder(log, tracked_pids)

LEMMA FirstInit == Init => FirstInv
<1> SUFFICES ASSUME Init PROVE FirstInv
  OBVIOUS
<1>1. Len(log) = 0 /\ tracked_pids = {} /\ \A t \in Task : enter_ctx[t] = None
  BY DEF Init
<1> QED
  BY <1>1 DEF FirstInv, InOrder

LEMMA FirstImplies == FirstInv => ForkComesFirst
  BY DEF FirstInv, InOrder, Announced, ForkComesFirst

(* An announcement stays one when events are added behind it, unless the    *)
(* task's exit is among them.                                               *)
LEMMA AnnouncedStays ==
  ASSUME NEW l \in Seq(Event), NEW e \in Event, NEW t, NEW m \in 0..Len(l),
         Announced(l, t, m)
  PROVE  /\ Announced(Append(l, e), t, m)
         /\ m = Len(l) /\ ~(e.pid = t /\ e.etype = EV_EXIT_TRACKED) =>
              Announced(Append(l, e), t, Len(l) + 1)
<1> DEFINE n == Len(l) + 1
           l2 == Append(l, e)
<1>1. /\ Len(l) \in Nat /\ l2[n] = e
      /\ \A i \in 1..Len(l) : l2[i] = l[i]
  BY AppendFacts
<1>2. PICK f \in 1..m :
        /\ l[f].pid = t /\ l[f].etype = EV_FORK_TRACKED
        /\ \A k \in f..m : ~(l[k].pid = t /\ l[k].etype = EV_EXIT_TRACKED)
  BY DEF Announced
<1> HIDE DEF l2
<1>3. /\ l2[f] = l[f] /\ f \in 1..n
      /\ \A k \in f..m : l2[k] = l[k]
      /\ m = Len(l) => \A k \in f..n : k = n \/ k \in f..m
  BY <1>1, <1>2
<1>4. Announced(l2, t, m)
  BY <1>2, <1>3 DEF Announced
<1>5. ASSUME m = Len(l), ~(e.pid = t /\ e.etype = EV_EXIT_TRACKED)
      PROVE  Announced(l2, t, n)
  <2>1. \A k \in f..n : ~(l2[k].pid = t /\ l2[k].etype = EV_EXIT_TRACKED)
    BY <1>1, <1>2, <1>3, <1>5
  <2> QED
    BY <1>2, <1>3, <2>1 DEF Announced
<1> QED
  BY <1>4, <1>5 DEF l2

(* An event of an announced task, or the announcement of one, keeps the     *)
(* order.                                                                   *)
LEMMA OrderAppend ==
  ASSUME NEW l \in Seq(Event), NEW e \in Event, NEW T, NEW T2, InOrder(l, T),
         e.etype # EV_FORK_TRACKED => e.pid \in T,
         \A t \in T2 \ {Root} :
           \/ t \in T /\ ~(e.pid = t /\ e.etype = EV_EXIT_TRACKED)
           \/ e.pid = t /\ e.etype = EV_FORK_TRACKED
  PROVE  InOrder(Append(l, e), T2)
<1> DEFINE n == Len(l) + 1
           l2 == Append(l, e)
<1>1. /\ Len(l) \in Nat /\ Len(l2) = n /\ l2[n] = e
      /\ \A i \in 1..Len(l) : l2[i] = l[i]
  BY AppendFacts
<1>2. \A t, m : m \in 0..Len(l) /\ Announced(l, t, m) =>
        /\ Announced(l2, t, m)
        /\ m = Len(l) /\ ~(e.pid = t /\ e.etype = EV_EXIT_TRACKED) => Announced(l2, t, n)
  BY AnnouncedStays
<1> HIDE DEF l2
<1>3. Len(l) \in 0..Len(l)
  BY <1>1
<1>4. ASSUME e.etype = EV_FORK_TRACKED PROVE Announced(l2, e.pid, n)
  <2>1. n \in 1..n /\ \A k \in n..n : k = n
    BY <1>1
  <2>2. e.etype # EV_EXIT_TRACKED
    BY <1>4 DEF EV_FORK_TRACKED, EV_EXIT_TRACKED
  <2> QED
    BY <1>1, <1>4, <2>1, <2>2 DEF Announced
<1>5. \A t \in T2 \ {Root} : Announced(l2, t, n)
  <2> SUFFICES ASSUME NEW t \in T2 \ {Root} PROVE Announced(l2, t, n)
    OBVIOUS
  <2>1. CASE t \in T /\ ~(e.pid = t /\ e.etype = EV_EXIT_TRACKED)
    <3>1. Announced(l, t, Len(l))
      BY <2>1 DEF InOrder
    <3> QED
      BY <1>2, <1>3, <2>1, <3>1
  <2>2. CASE e.pid = t /\ e.etype = EV_FORK_TRACKED
    BY <1>4, <2>2
  <2> QED
    BY <2>1, <2>2
<1>6. ASSUME NEW i \in 1..n, l2[i].pid # Root, l2[i].etype # EV_FORK_TRACKED
      PROVE  Announced(l2, l2[i].pid, i - 1)
  <2>1. CASE i = n
    <3>1. Announced(l, e.pid, Len(l))
      BY <1>1, <1>6, <2>1 DEF InOrder
    <3>2. Announced(l2, e.pid, Len(l))
      BY <1>2, <1>3, <3>1
    <3> QED
      BY <1>1, <2>1, <3>2
  <2>2. CASE i \in 1..Len(l)
    <3>1. l2[i] = l[i] /\ i - 1 \in 0..Len(l)
      BY <1>1, <2>2
    <3>2. Announced(l, l[i].pid, i - 1)
      BY <1>6, <2>2, <3>1 DEF InOrder
    <3> QED
      BY <1>2, <3>1, <3>2
  <2> QED
    BY <1>1, <2>1, <2>2
<1>7. InOrder(l2, T2)
  BY <1>1, <1>5, <1>6 DEF InOrder
<1> QED
  BY <1>7 DEF l2

LEMMA OrderStep ==
  ASSUME TypeOK, InOrder(log, tracked_pids), NEW e \in Event, NEW from, NEW why,
         Reserve(e, from, why), "ring_full" \notin mishap',
         e.etype # EV_FORK_TRACKED => e.pid \in tracked_pids,
         \A t \in tracked_pids' \ {Root} :
           \/ t \in tracked_pids /\ ~(e.pid = t /\ e.etype = EV_EXIT_TRACKED)
           \/ e.pid = t /\ e.etype = EV_FORK_TRACKED
  PROVE  InOrder(log', tracked_pids')
<1>1. log' = Append(log, e)
  BY DEF Reserve
<1>2. log \in Seq(Event)
  BY DEF TypeOK
<1>3. InOrder(Append(log, e), tracked_pids')
  BY <1>2, OrderAppend
<1> QED
  BY <1>1, <1>3

LEMMA FirstStep == TypeOK /\ StashIsCurrent /\ FirstInv /\ [Next]_vars => FirstInv'
<1> SUFFICES ASSUME TypeOK, StashIsCurrent, FirstInv, [Next]_vars PROVE FirstInv'
  OBVIOUS
<1> DEFINE Calm == mishap \cap {"ring_full", "late_seed"} = {}
<1>1. ASSUME UNCHANGED <<log, enter_ctx>>, tracked_pids \subseteq tracked_pids',
             tracked_pids' \subseteq tracked_pids \cup {Root}, mishap \subseteq mishap'
      PROVE  FirstInv'
  <2>1. Calm' => InOrder(log, tracked_pids)
    BY <1>1 DEF FirstInv
  <2>2. InOrder(log, tracked_pids) => InOrder(log', tracked_pids')
    BY <1>1 DEF InOrder
  <2>3. \A t \in Task : enter_ctx'[t] # None => t \in tracked_pids'
    BY <1>1 DEF FirstInv
  <2> QED
    BY <2>1, <2>2, <2>3 DEF FirstInv
<1>2. CASE Spawn \/ Reap \/ (\E t \in Task : Release(t)) \/ Consume \/ Seed
  BY <1>1, <1>2 DEF Spawn, Reap, Release, Consume, Seed, mapVars, historyVars
<1>3. ASSUME NEW p \in Task, NEW c \in Task, Fork(p, c) PROVE FirstInv'
  <2>1. UNCHANGED enter_ctx /\ handle_fork(p, c)
    BY <1>3 DEF Fork
  <2>2. CASE p \notin tracked_pids
    <3>1. UNCHANGED <<log, tracked_pids>> /\ mishap \subseteq mishap'
      BY <2>1, <2>2 DEF handle_fork
    <3> QED
      BY <1>1, <2>1, <3>1
  <2>3. CASE p \in tracked_pids
    <3> DEFINE e == LifeEvent(EV_FORK_TRACKED, c, p)
               why == IF HasRoom(c) THEN {} ELSE {"tracked_full"}
    <3>1. /\ tracked_pids' = IF HasRoom(c) THEN tracked_pids \cup {c} ELSE tracked_pids
          /\ Reserve(e, 0, why)
      BY <2>1, <2>3 DEF handle_fork
    <3>2. e \in Event /\ e.pid = c /\ e.etype = EV_FORK_TRACKED
      <4>1. e \in Event
        BY LifeEventType
      <4> QED
        BY <4>1 DEF LifeEvent
    <3>3. e.etype # EV_EXIT_TRACKED
      BY <3>2 DEF EV_FORK_TRACKED, EV_EXIT_TRACKED
    <3> HIDE DEF e, why
    <3>4. mishap \subseteq mishap'
      BY <3>1, ReserveMishap
    <3>5. Calm' => InOrder(log', tracked_pids')
      <4> SUFFICES ASSUME Calm' PROVE InOrder(log', tracked_pids')
        OBVIOUS
      <4>1. InOrder(log, tracked_pids) /\ "ring_full" \notin mishap'
        BY <3>4 DEF FirstInv
      <4>2. \A t \in tracked_pids' \ {Root} :
               \/ t \in tracked_pids /\ ~(e.pid = t /\ e.etype = EV_EXIT_TRACKED)
               \/ e.pid = t /\ e.etype = EV_FORK_TRACKED
        BY <3>1, <3>2, <3>3
      <4> QED
        BY <3>1, <3>2, <4>1, <4>2, OrderStep
    <3>6. \A t \in Task : enter_ctx'[t] # None => t \in tracked_pids'
      BY <2>1, <3>1 DEF FirstInv
    <3> QED
      BY <3>5, <3>6 DEF FirstInv
  <2> QED
    BY <2>2, <2>3
<1>4. ASSUME NEW t \in Task, TaskExit(t) PROVE FirstInv'
  <2>1. UNCHANGED enter_ctx /\ call[t] = None /\ handle_exit(t)
    BY <1>4 DEF TaskExit
  <2>2. enter_ctx[t] = None
    BY <2>1 DEF StashIsCurrent
  <2>3. CASE t \notin tracked_pids
    BY <1>1, <2>1, <2>3 DEF handle_exit
  <2>4. CASE t \in tracked_pids
    <3> DEFINE e == LifeEvent(EV_EXIT_TRACKED, t, None)
    <3>1. tracked_pids' = tracked_pids \ {t} /\ Reserve(e, 0, {})
      BY <2>1, <2>4 DEF handle_exit
    <3>2. e \in Event /\ e.pid = t
      <4>1. e \in Event
        BY LifeEventType
      <4> QED
        BY <4>1 DEF LifeEvent
    <3> HIDE DEF e
    <3>3. mishap \subseteq mishap'
      BY <3>1, ReserveMishap
    <3>4. Calm' => InOrder(log', tracked_pids')
      <4> SUFFICES ASSUME Calm' PROVE InOrder(log', tracked_pids')
        OBVIOUS
      <4>1. InOrder(log, tracked_pids) /\ "ring_full" \notin mishap'
        BY <3>3 DEF FirstInv
      <4>2. \A u \in tracked_pids' \ {Root} :
               u \in tracked_pids /\ ~(e.pid = u /\ e.etype = EV_EXIT_TRACKED)
        BY <3>1, <3>2
      <4> QED
        BY <2>4, <3>1, <3>2, <4>1, <4>2, OrderStep
    <3>5. \A u \in Task : enter_ctx'[u] # None => u \in tracked_pids'
      BY <2>1, <2>2, <3>1 DEF FirstInv
    <3> QED
      BY <3>4, <3>5 DEF FirstInv
  <2> QED
    BY <2>3, <2>4
<1>5. ASSUME NEW t \in Task, NEW c \in Call, SysEnter(t, c) PROVE FirstInv'
  <2>1. /\ UNCHANGED <<tracked_pids, log>>
        /\ stash_enter(t, c) \/ UNCHANGED <<enter_ctx, mishap>>
    BY <1>5 DEF SysEnter
  <2>2. /\ mishap \subseteq mishap'
        /\ \A u \in Task : enter_ctx'[u] # None => enter_ctx[u] # None \/ u \in tracked_pids
    <3>1. CASE UNCHANGED <<enter_ctx, mishap>>
      BY <3>1
    <3>2. CASE stash_enter(t, c) /\ UNCHANGED enter_ctx
      BY <3>2 DEF stash_enter, UpdateEnterCtx
    <3>3. CASE t \in tracked_pids /\ UpdateEnterCtx(t, Stash(c))
      BY <3>3 DEF UpdateEnterCtx, TypeOK
    <3> QED
      BY <2>1, <3>1, <3>2, <3>3 DEF stash_enter
  <2>3. Calm' => InOrder(log, tracked_pids)
    BY <2>2 DEF FirstInv
  <2> QED
    BY <2>1, <2>2, <2>3 DEF FirstInv
<1>6. ASSUME NEW t \in Task, NEW ret \in Fd \cup {-1, 0}, SysExit(t, ret) PROVE FirstInv'
  <2> DEFINE sys == call[t].sys
             e == SyscallEvent(t, Etype(sys, enter_ctx[t].flags), enter_ctx[t], ret)
  <2>1. /\ UNCHANGED tracked_pids
        /\ call[t] \in Call
        /\ emit_exit(t, sys, ret, Len(done'))
        /\ ret \in Int
    BY <1>6, TaskAssumption DEF SysExit, TypeOK
  <2>2. \A u \in Task : enter_ctx'[u] # None => enter_ctx[u] # None
    BY <2>1 DEF emit_exit, TypeOK
  <2>3. CASE UNCHANGED <<log, mishap>>
    BY <2>1, <2>2, <2>3 DEF FirstInv
  <2>4. CASE ~UNCHANGED <<log, mishap>>
    <3>1. enter_ctx[t] # None /\ Reserve(e, Len(done'), {})
      BY <2>1, <2>4 DEF emit_exit
    <3>2. enter_ctx[t] \in EnterArgs /\ sys \in Syscall
      BY <2>1, <3>1, CallAssumption DEF TypeOK, Args
    <3>3. e \in Event
      BY <2>1, <3>2, EtypeType, SyscallEventType
    <3>4. e.pid = t /\ e.etype = Etype(sys, enter_ctx[t].flags)
      BY DEF SyscallEvent
    <3>5. e.etype # EV_EXIT_TRACKED
      <4>1. Etype(sys, enter_ctx[t].flags) # EV_EXIT_TRACKED
        BY <3>2 DEF Etype, FixedEtype, Syscall, OpenatFamily, EV_EXIT_TRACKED,
           EV_OPENAT_CREATE, EV_OPENAT_DIR
      <4> QED
        BY <3>4, <4>1
    <3> HIDE DEF e
    <3>6. mishap \subseteq mishap'
      BY <3>1, ReserveMishap
    <3>7. t \in tracked_pids
      BY <3>1 DEF FirstInv
    <3>8. Calm' => InOrder(log', tracked_pids')
      <4> SUFFICES ASSUME Calm' PROVE InOrder(log', tracked_pids')
        OBVIOUS
      <4>1. InOrder(log, tracked_pids) /\ "ring_full" \notin mishap'
        BY <3>6 DEF FirstInv
      <4> QED
        BY <2>1, <3>1, <3>3, <3>4, <3>5, <3>7, <4>1, OrderStep
    <3> QED
      BY <2>1, <2>2, <3>8 DEF FirstInv
  <2> QED
    BY <2>3, <2>4
<1>7. CASE UNCHANGED vars
  BY <1>1, <1>7 DEF vars
<1> QED
  BY <1>2, <1>3, <1>4, <1>5, <1>6, <1>7 DEF Next

(* Unless the ring overflowed or the root was seeded after its death, every *)
(* event of a task but the root stands behind the fork event of that task   *)
(* and before its exit event, so the replay always has a parent to copy.    *)
THEOREM ForkFirst == Spec => []ForkComesFirst
<1> QED
  BY TypeInit, TypeStep, StashInit, StashStep, FirstInit, FirstStep, FirstImplies,
     PTL DEF Spec
=============================================================================
