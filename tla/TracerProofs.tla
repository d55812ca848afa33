---------------------------- MODULE TracerProofs ----------------------------
(* What holds of the replay for every set of tasks, paths and descriptors,  *)
(* every size of the maps and the ring, and every cap of the capture.       *)
EXTENDS Tracer, ProbesProofs, FiniteSetTheorems

-----------------------------------------------------------------------------
(* The tracer's steps are the probes' steps, but for close, which they do   *)
(* not see: of their variables it spends the budget only.                   *)
Unseen == /\ budget > 0 /\ budget' = budget - 1
          /\ UNCHANGED <<task, call, seeded, reaped, mapVars, consumed, historyVars>>

LEMMA StepOfProbes == [TNext]_tracerVars => [Next]_vars \/ Unseen
<1> SUFFICES ASSUME [TNext]_tracerVars PROVE [Next]_vars \/ Unseen
  OBVIOUS
<1>1. CASE UNCHANGED tracerVars
  BY <1>1 DEF tracerVars
<1>2. CASE TSpawn \/ SeedCwd \/ TSeed \/ TReap \/ (\E t \in Task : TRelease(t)) \/ TConsume
  BY <1>2 DEF TSpawn, SeedCwd, TSeed, TReap, TRelease, TConsume, Next
<1>3. CASE \E p, c \in Task : TFork(p, c)
  BY <1>3 DEF TFork, Next
<1>4. CASE \E t \in Task : TTaskExit(t)
  BY <1>4 DEF TTaskExit, Next
<1>5. CASE \E t \in Task, fd \in Fd : Close(t, fd)
  BY <1>5 DEF Close, Unseen
<1>6. CASE \E t \in Task, c \in Call : TSysEnter(t, c)
  BY <1>6 DEF TSysEnter, Next
<1>7. CASE \E t \in Task, ret \in Fd \cup {-1, 0} : TSysExit(t, ret)
  BY <1>7 DEF TSysExit, Next
<1> QED
  BY <1>1, <1>2, <1>3, <1>4, <1>5, <1>6, <1>7 DEF TNext

(* What was proved of the probes alone.                                     *)
ProbesInv == TypeOK /\ StashIsCurrent /\ GenuineInv

LEMMA ProbesInit == TInit => ProbesInv
  BY TypeInit, StashInit, GenuineInit DEF TInit, ProbesInv

LEMMA ProbesStep == ProbesInv /\ [TNext]_tracerVars => ProbesInv'
<1> SUFFICES ASSUME ProbesInv, [TNext]_tracerVars PROVE ProbesInv'
  OBVIOUS
<1>1. CASE [Next]_vars
  BY <1>1, TypeStep, StashStep, GenuineStep DEF ProbesInv
<1>2. CASE Unseen
  <2>1. TypeOK'
    BY <1>2, BoundAssumption DEF Unseen, ProbesInv, TypeOK, mapVars, historyVars
  <2> QED
    BY <1>2, <2>1 DEF Unseen, ProbesInv, StashIsCurrent, GenuineInv, Genuine, mapVars, historyVars
<1> QED
  BY <1>1, <1>2, StepOfProbes

-----------------------------------------------------------------------------
(* Log and history grow at their ends, and only Consume takes from the ring. *)
LEMMA ReserveAppends ==
  ASSUME ProbesInv, NEW e \in Event, NEW from \in Nat, NEW why, Reserve(e, from, why)
  PROVE  /\ Len(log') \in Nat /\ Len(log) <= Len(log')
         /\ \A i \in 1..Len(log) : log'[i] = log[i] /\ origin'[i] = origin[i]
<1>1. /\ log \in Seq(Event) /\ origin \in Seq(Nat) /\ Len(origin) = Len(log)
      /\ Len(log) \in Nat
  BY DEF ProbesInv, TypeOK, GenuineInv
<1>2. CASE UNCHANGED <<log, origin>>
  BY <1>1, <1>2
<1>3. CASE log' = Append(log, e) /\ origin' = Append(origin, from)
  <2>1. /\ Len(log') = Len(log) + 1
        /\ \A i \in 1..Len(log) : log'[i] = log[i]
    BY <1>1, <1>3, AppendFacts
  <2>2. \A i \in 1..Len(log) : origin'[i] = origin[i]
    BY <1>1, <1>3, AppendFacts
  <2> QED
    BY <1>1, <2>1, <2>2
<1> QED
  BY <1>2, <1>3 DEF Reserve

Grown ==
  /\ Len(log') \in Nat /\ Len(log) <= Len(log')
  /\ \A i \in 1..Len(log) : log'[i] = log[i] /\ origin'[i] = origin[i]
  /\ UNCHANGED done \/ \E d : done' = Append(done, d)

LEMMA LogGrows == ProbesInv /\ [TNext]_tracerVars => Grown
<1> SUFFICES ASSUME ProbesInv, [TNext]_tracerVars PROVE Grown
  OBVIOUS
<1>1. Len(log) \in Nat /\ Len(done) \in Nat
  BY DEF ProbesInv, TypeOK
<1>2. ASSUME UNCHANGED <<log, origin, done>> PROVE Grown
  BY <1>1, <1>2 DEF Grown
<1>3. ASSUME NEW p \in Task, NEW c \in Task, Fork(p, c) PROVE Grown
  <2>1. CASE p \notin tracked_pids
    BY <1>2, <1>3, <2>1 DEF Fork, handle_fork
  <2>2. CASE p \in tracked_pids
    <3> DEFINE e == LifeEvent(EV_FORK_TRACKED, c, p)
               why == IF HasRoom(c) THEN {} ELSE {"tracked_full"}
    <3>1. Reserve(e, 0, why) /\ UNCHANGED done
      BY <1>3, <2>2 DEF Fork, handle_fork
    <3>2. e \in Event
      BY LifeEventType
    <3> HIDE DEF e, why
    <3> QED
      BY <3>1, <3>2, ReserveAppends DEF Grown
  <2> QED
    BY <2>1, <2>2
<1>4. ASSUME NEW t \in Task, TaskExit(t) PROVE Grown
  <2>1. CASE t \notin tracked_pids
    BY <1>2, <1>4, <2>1 DEF TaskExit, handle_exit
  <2>2. CASE t \in tracked_pids
    <3> DEFINE e == LifeEvent(EV_EXIT_TRACKED, t, None)
    <3>1. Reserve(e, 0, {}) /\ UNCHANGED done
      BY <1>4, <2>2 DEF TaskExit, handle_exit
    <3>2. e \in Event
      BY LifeEventType
    <3> HIDE DEF e
    <3> QED
      BY <3>1, <3>2, ReserveAppends DEF Grown
  <2> QED
    BY <2>1, <2>2
<1>5. ASSUME NEW t \in Task, NEW ret \in Fd \cup {-1, 0}, SysExit(t, ret) PROVE Grown
  <2>1. UNCHANGED done \/ \E d : done' = Append(done, d)
    BY <1>5 DEF SysExit
  <2>2. CASE UNCHANGED <<log, origin>>
    BY <1>1, <2>1, <2>2 DEF Grown
  <2>3. CASE ~(UNCHANGED <<log, origin>>)
    <3> DEFINE c == call[t]
               e == SyscallEvent(t, Etype(c.sys, enter_ctx[t].flags), enter_ctx[t], ret)
    <3>1. c \in Call /\ ret \in Int /\ c.sys \in Syscall
      BY <1>5, TaskAssumption, CallAssumption DEF SysExit, ProbesInv, TypeOK, Args
    <3>2. enter_ctx[t] # None /\ Reserve(e, Len(done'), {})
      BY <1>5, <2>3 DEF SysExit, emit_exit
    <3>3. enter_ctx[t] \in EnterArgs
      BY <3>2 DEF ProbesInv, TypeOK
    <3>4. e \in Event
      BY <3>1, <3>3, EtypeType, SyscallEventType
    <3>5. Len(done') \in Nat
      <4>1. TypeOK'
        BY <1>5, TypeStep DEF ProbesInv, Next
      <4> QED
        BY <4>1 DEF TypeOK
    <3> HIDE DEF e, c
    <3> QED
      BY <2>1, <3>2, <3>4, <3>5, ReserveAppends DEF Grown
  <2> QED
    BY <2>2, <2>3
<1>6. CASE Next
  BY <1>2, <1>3, <1>4, <1>5, <1>6
  DEF Next, Spawn, Seed, Reap, Release, Consume, SysEnter, mapVars, historyVars
<1>7. CASE UNCHANGED vars
  BY <1>2, <1>7 DEF vars
<1>8. CASE Unseen
  BY <1>2, <1>8 DEF Unseen, mapVars, historyVars
<1> QED
  BY <1>6, <1>7, <1>8, StepOfProbes

-----------------------------------------------------------------------------
(* What a step does to the captured events.                                *)
Untouched == UNCHANGED <<events, overflow_warned>>

Aside == UNCHANGED consumed /\ Untouched
Takes == consumed < Len(log) /\ consumed' = consumed + 1 /\ UNCHANGED <<log, origin, done>>
Skips == Takes /\ log[consumed + 1].etype \notin CreationEvent /\ Untouched
Captures ==
  /\ Takes /\ log[consumed + 1].etype \in CreationEvent
  /\ push_event(Captured(log[consumed + 1]))

LEMMA CaptureSteps == [TNext]_tracerVars => Aside \/ Skips \/ Captures
<1> SUFFICES ASSUME [TNext]_tracerVars PROVE Aside \/ Skips \/ Captures
  OBVIOUS
<1> USE DEF Untouched
<1>1. CASE UNCHANGED tracerVars
  BY <1>1 DEF tracerVars, vars, stateVars, Aside
<1>2. CASE TSpawn \/ SeedCwd \/ TSeed \/ TReap \/ (\E t \in Task : TRelease(t))
  BY <1>2 DEF TSpawn, SeedCwd, TSeed, TReap, TRelease, Spawn, Seed, Reap, Release, vars,
     stateVars, Aside
<1>3. CASE TConsume
  <2> DEFINE e == log[consumed + 1]
  <2>1. Takes
    BY <1>3 DEF TConsume, Consume, mapVars, historyVars, Takes
  <2>2. CASE e.etype \in CreationEvent /\ HandleCreation(e)
    BY <2>1, <2>2 DEF HandleCreation, Captures
  <2>3. CASE \/ e.etype = EV_FORK_TRACKED /\ HandleFork(e)
             \/ e.etype = EV_EXIT_TRACKED /\ HandleExit(e)
             \/ e.etype = "CHDIR" /\ HandleChdir(e)
             \/ e.etype = "FCHDIR" /\ HandleFchdir(e)
             \/ e.etype = EV_OPENAT_DIR /\ HandleOpenatDir(e)
    <3>1. e.etype \notin CreationEvent
      BY <2>3 DEF CreationEvent, EV_FORK_TRACKED, EV_EXIT_TRACKED, EV_OPENAT_DIR, EV_OPENAT_CREATE
    <3>2. Untouched
      BY <2>3 DEF HandleFork, HandleExit, HandleChdir, HandleFchdir, HandleOpenatDir
    <3> QED
      BY <2>1, <3>1, <3>2 DEF Skips
  <2> QED
    BY <1>3, <2>2, <2>3 DEF TConsume, handle_event
<1>4. CASE \E p, c \in Task : TFork(p, c)
  BY <1>4 DEF TFork, Fork, stateVars, Aside
<1>5. CASE \E t \in Task : TTaskExit(t)
  BY <1>5 DEF TTaskExit, TaskExit, stateVars, Aside
<1>6. CASE \E t \in Task, fd \in Fd : Close(t, fd)
  BY <1>6 DEF Close, stateVars, Aside
<1>7. CASE \E t \in Task, c \in Call : TSysEnter(t, c)
  BY <1>7 DEF TSysEnter, SysEnter, stateVars, Aside
<1>8. CASE \E t \in Task, ret \in Fd \cup {-1, 0} : TSysExit(t, ret)
  BY <1>8 DEF TSysExit, SysExit, stateVars, Aside
<1> QED
  BY <1>1, <1>2, <1>3, <1>4, <1>5, <1>6, <1>7, <1>8 DEF TNext

(* Appending to a sequence whose elements have no common type.             *)
Plain(s) == Len(s) \in Nat /\ s = [i \in 1..Len(s) |-> s[i]]

LEMMA AppendPlain ==
  ASSUME NEW s, Plain(s), NEW e
  PROVE  /\ Plain(Append(s, e)) /\ Len(Append(s, e)) = Len(s) + 1
         /\ \A i \in 1..Len(s) : Append(s, e)[i] = s[i]
         /\ Append(s, e)[Len(s) + 1] = e
<1> DEFINE S == {s[i] : i \in 1..Len(s)} \cup {e}
<1>1. [i \in 1..Len(s) |-> s[i]] \in Seq(S)
  <2>1. [i \in 1..Len(s) |-> s[i]] \in [1..Len(s) -> S]
    OBVIOUS
  <2> HIDE DEF S
  <2> QED
    BY <2>1 DEF Plain
<1>2. s \in Seq(S) /\ e \in S
  BY <1>1 DEF Plain
<1> HIDE DEF S
<1>3. Append(s, e) \in Seq(S)
  BY <1>2, AppendFacts
<1>4. ASSUME NEW t \in Seq(S) PROVE Plain(t)
  <2>1. Len(t) \in Nat /\ t \in [1..Len(t) -> S]
    BY <1>4
  <2> QED
    BY <2>1 DEF Plain
<1> QED
  <2>1. Plain(Append(s, e))
    BY <1>3, <1>4
  <2>2. /\ Len(Append(s, e)) = Len(s) + 1
        /\ \A i \in 1..Len(s) : Append(s, e)[i] = s[i]
        /\ Append(s, e)[Len(s) + 1] = e
    BY <1>2, AppendFacts
  <2> QED
    BY <2>1, <2>2

(* The captured events are creations of the log taken so far, in its order. *)
Made == {i \in 1..consumed : log[i].etype \in CreationEvent}

CaptureInv ==
  /\ Plain(events) /\ Len(events) <= MAX_EVENTS
  /\ \A i \in 1..Len(events) : events[i].seq \in Made
  /\ \A i, j \in 1..Len(events) : i < j => events[i].seq < events[j].seq

LEMMA CaptureInit == TInit => CaptureInv
  BY PathAssumption DEF TInit, CaptureInv, Plain

(* Of the log taken so far nothing changes.                                 *)
LEMMA MadeStays ==
  ASSUME ProbesInv, [TNext]_tracerVars
  PROVE  /\ Aside => Made' = Made
         /\ Skips => Made' = Made
         /\ Captures => Made' = Made \cup {consumed + 1}
         /\ \A i \in Made : i \in 1..consumed /\ i < consumed + 1
<1>1. consumed \in 0..Len(log) /\ Len(log) \in Nat
  BY DEF ProbesInv, TypeOK
<1>2. \A i \in 1..consumed : log'[i] = log[i]
  BY <1>1, LogGrows DEF Grown
<1>3. Aside => Made' = Made
  <2> SUFFICES ASSUME Aside PROVE Made' = Made
    OBVIOUS
  <2>1. Made' = {i \in 1..consumed : log'[i].etype \in CreationEvent}
    BY DEF Made, Aside, CreationEvent, EV_OPENAT_CREATE
  <2> QED
    BY <1>2, <2>1 DEF Made
<1>4. ASSUME Takes
      PROVE  1..consumed' = 1..consumed \cup {consumed + 1} /\ log' = log
  BY <1>1, <1>4 DEF Takes
<1>5. Skips => Made' = Made
  BY <1>4 DEF Made, Skips
<1>6. Captures => Made' = Made \cup {consumed + 1}
  BY <1>4 DEF Made, Captures
<1> QED
  BY <1>1, <1>3, <1>5, <1>6 DEF Made

LEMMA CaptureStep == ProbesInv /\ CaptureInv /\ [TNext]_tracerVars => CaptureInv'
<1> SUFFICES ASSUME ProbesInv, CaptureInv, [TNext]_tracerVars PROVE CaptureInv'
  OBVIOUS
<1>1. Made \subseteq Made'
  BY MadeStays, CaptureSteps
<1>2. CASE UNCHANGED events
  BY <1>1, <1>2 DEF CaptureInv
<1>3. CASE Captures /\ ~(UNCHANGED events)
  <2> DEFINE e == Captured(log[consumed + 1])
  <2>1. events' = Append(events, e) /\ Len(events) < MAX_EVENTS
    BY <1>3 DEF Captures, push_event
  <2>2. e.seq = consumed + 1
    BY DEF Captured
  <2> HIDE DEF e
  <2>3. Plain(events') /\ Len(events') = Len(events) + 1 /\ Len(events) \in Nat
    BY <2>1, AppendPlain DEF CaptureInv, Plain
  <2>4. \A i \in 1..Len(events') :
          \/ i \in 1..Len(events) /\ events'[i] = events[i]
          \/ i = Len(events) + 1 /\ events'[i] = e
    BY <2>1, <2>3, AppendPlain DEF CaptureInv
  <2>5. \A i \in 1..Len(events') : events'[i].seq \in Made'
    BY <1>1, <1>3, <2>2, <2>4, MadeStays DEF CaptureInv
  <2>6. \A i \in 1..Len(events) : events[i].seq < consumed + 1
    BY MadeStays DEF CaptureInv
  <2>7. \A i, j \in 1..Len(events') : i < j => events'[i].seq < events'[j].seq
    BY <2>2, <2>3, <2>4, <2>6 DEF CaptureInv
  <2> QED
    BY <2>1, <2>3, <2>5, <2>7, PathAssumption DEF CaptureInv
<1> QED
  BY <1>2, <1>3, CaptureSteps DEF Aside, Skips, Untouched

-----------------------------------------------------------------------------
(* CapKeepsPrefix says how many creations come before each captured event;  *)
(* as an invariant it also has to say that no event is captured that was    *)
(* not taken from the ring.                                                 *)
UpTo(n) == {k \in Made : k <= n}

CapInv ==
  /\ CaptureInv
  /\ \A i \in 1..Len(events) : Cardinality(UpTo(events[i].seq)) = i
  /\ overflow_warned \in BOOLEAN
  /\ overflow_warned <=> Cardinality(Made) > Len(events)
  /\ overflow_warned => Len(events) = MAX_EVENTS
  /\ Cardinality(Made) >= Len(events)

LEMMA MadeIsFinite ==
  ASSUME ProbesInv
  PROVE  IsFiniteSet(Made) /\ Cardinality(Made) \in Nat /\ consumed + 1 \notin Made
<1>1. consumed \in Nat
  BY DEF ProbesInv, TypeOK
<1>2. IsFiniteSet(1..consumed) /\ Made \subseteq 1..consumed
  BY <1>1, FS_Interval DEF Made
<1> QED
  BY <1>1, <1>2, FS_Subset, FS_CardinalityType DEF Made

LEMMA CapInit == TInit => CapInv
<1> SUFFICES ASSUME TInit PROVE CapInv
  OBVIOUS
<1>1. Made = {}
  BY DEF TInit, Init, Made
<1>2. Len(events) = 0 /\ overflow_warned = FALSE
  BY DEF TInit
<1>3. Cardinality(Made) = 0
  BY <1>1, FS_EmptySet
<1>4. ~overflow_warned /\ overflow_warned \in BOOLEAN
  BY <1>2
<1>5. /\ \A i \in 1..Len(events) : Cardinality(UpTo(events[i].seq)) = i
      /\ ~(Cardinality(Made) > Len(events)) /\ Cardinality(Made) >= Len(events)
  BY <1>2, <1>3
<1> QED
  BY <1>4, <1>5, CaptureInit DEF CapInv

LEMMA CapStep == ProbesInv /\ CapInv /\ [TNext]_tracerVars => CapInv'
<1> SUFFICES ASSUME ProbesInv, CapInv, [TNext]_tracerVars PROVE CapInv'
  OBVIOUS
<1>1. CaptureInv'
  BY CaptureStep DEF CapInv
<1>2. CASE (Aside \/ Skips)
  <2>1. Made' = Made /\ UNCHANGED <<events, overflow_warned>>
    BY <1>2, MadeStays DEF Aside, Skips, Untouched
  <2> QED
    BY <1>1, <2>1 DEF CapInv, UpTo
<1>3. CASE Captures
  <2> DEFINE n == consumed + 1
             e == Captured(log[n])
  <2>1. Made' = Made \cup {n} /\ \A i \in Made : i \in 1..consumed /\ i < n
    BY <1>3, MadeStays
  <2>2. Cardinality(Made') = Cardinality(Made) + 1 /\ Cardinality(Made) \in Nat
    BY <2>1, MadeIsFinite, FS_AddElement
  <2>3. consumed \in Nat /\ Len(events) \in Nat /\ MAX_EVENTS \in Nat
    BY PathAssumption DEF ProbesInv, TypeOK, CapInv, CaptureInv, Plain
  <2>4. \A i \in 1..Len(events) : UpTo(events[i].seq)' =
          {k \in Made' : k <= events'[i].seq}
    BY DEF UpTo
  <2>5. ASSUME NEW i \in 1..Len(events)
        PROVE  {k \in Made' : k <= events[i].seq} = UpTo(events[i].seq)
    BY <2>1, <2>3, <2>5 DEF UpTo, CapInv, CaptureInv
  <2>6. CASE Len(events) >= MAX_EVENTS /\ overflow_warned' = TRUE /\ UNCHANGED events
    <3>1. Len(events) = MAX_EVENTS
      BY <2>3, <2>6 DEF CapInv, CaptureInv
    <3>2. \A i \in 1..Len(events') : Cardinality({k \in Made' : k <= events'[i].seq}) = i
      BY <2>5, <2>6 DEF CapInv
    <3> QED
      BY <1>1, <2>2, <2>3, <2>6, <3>1, <3>2 DEF CapInv, UpTo
  <2>7. CASE Len(events) < MAX_EVENTS /\ events' = Append(events, e) /\ UNCHANGED overflow_warned
    <3>1. e.seq = n
      BY DEF Captured
    <3>2. /\ Len(events') = Len(events) + 1
          /\ \A i \in 1..Len(events) : events'[i] = events[i]
          /\ events'[Len(events) + 1] = e
      <4> HIDE DEF e
      <4> QED
        BY <2>7, AppendPlain DEF CapInv, CaptureInv
    <3> HIDE DEF e
    <3>3. ~overflow_warned /\ Cardinality(Made) = Len(events)
      BY <2>2, <2>3, <2>7 DEF CapInv
    <3>4. {k \in Made' : k <= n} = Made'
      BY <2>1, <2>3
    <3>5. \A i \in 1..Len(events') : Cardinality({k \in Made' : k <= events'[i].seq}) = i
      <4> TAKE i \in 1..Len(events')
      <4>1. CASE i \in 1..Len(events)
        BY <2>5, <3>2, <4>1 DEF CapInv
      <4>2. CASE i = Len(events) + 1
        BY <2>2, <3>1, <3>2, <3>3, <3>4, <4>2
      <4> QED
        BY <2>3, <3>2, <4>1, <4>2
    <3> QED
      BY <1>1, <2>2, <2>3, <2>7, <3>2, <3>3, <3>5 DEF CapInv, UpTo
  <2> QED
    BY <1>3, <2>6, <2>7 DEF Captures, push_event
<1> QED
  BY <1>2, <1>3, CaptureSteps

(* However many tasks and events there are and whatever the cap, the        *)
(* captured events are the first creations of the log, none missing and     *)
(* none twice, and the warning tells whether more were dropped              *)
(* (main.rs:59).                                                            *)
THEOREM CapKeepsPrefixAlways == TSpec => []CapKeepsPrefix
<1>1. CapInv => CapKeepsPrefix
  BY DEF CapInv, CaptureInv, CapKeepsPrefix, Made, UpTo
<1> QED
  BY <1>1, ProbesInit, ProbesStep, CapInit, CapStep, PTL DEF TSpec
-----------------------------------------------------------------------------
(* Nothing stale.  In the probes: with no mishap a task that is no longer   *)
(* tracked has its exit event behind all its others, the root even if it    *)
(* has no others, and there is no event before the seed.                    *)
Leaves(l, k, t) == l[k].pid = t /\ l[k].etype = EV_EXIT_TRACKED
LeftSince(l, t, i) == \E k \in i..Len(l) : Leaves(l, k, t)

Gone(l, T, s) ==
  \A t \in Task \ T :
    /\ \A i \in 1..Len(l) : l[i].pid = t => LeftSince(l, t, i)
    /\ t = Root /\ s => LeftSince(l, t, 1)

GoneInv ==
  /\ \A t \in tree : task[t] = "running"
  /\ ~seeded => Len(log) = 0
  /\ mishap = {} => Gone(log, tracked_pids, seeded)

LEMMA GoneAppend ==
  ASSUME NEW l \in Seq(Event), NEW e \in Event, NEW T, NEW T2, NEW s, Gone(l, T, s),
         \A t \in Task \ T2 :
           \/ t \notin T /\ e.pid # t
           \/ e.pid = t /\ e.etype = EV_EXIT_TRACKED
  PROVE  Gone(Append(l, e), T2, s)
<1> DEFINE n == Len(l) + 1
           l2 == Append(l, e)
<1>1. /\ Len(l) \in Nat /\ Len(l2) = n /\ l2[n] = e
      /\ \A i \in 1..Len(l) : l2[i] = l[i]
  BY AppendFacts
<1> HIDE DEF l2
<1>2. ASSUME NEW t, NEW i \in 1..n, LeftSince(l, t, i) PROVE LeftSince(l2, t, i)
  <2>1. PICK k \in i..Len(l) : Leaves(l, k, t)
    BY <1>2 DEF LeftSince
  <2>2. k \in i..Len(l2) /\ l2[k] = l[k]
    BY <1>1, <2>1
  <2> QED
    BY <2>1, <2>2 DEF LeftSince, Leaves
<1>3. ASSUME NEW i \in 1..n, e.etype = EV_EXIT_TRACKED PROVE LeftSince(l2, e.pid, i)
  <2>1. n \in i..Len(l2) /\ Leaves(l2, n, e.pid)
    BY <1>1, <1>3 DEF Leaves
  <2> QED
    BY <2>1 DEF LeftSince
<1>4. ASSUME NEW t \in Task \ T2
      PROVE  /\ \A i \in 1..Len(l2) : l2[i].pid = t => LeftSince(l2, t, i)
             /\ t = Root /\ s => LeftSince(l2, t, 1)
  <2>1. CASE t \notin T /\ e.pid # t
    <3>1. \A i \in 1..Len(l2) : l2[i].pid = t => i \in 1..Len(l) /\ l[i].pid = t
      BY <1>1, <2>1
    <3>2. 1 \in 1..n
      BY <1>1
    <3> QED
      BY <1>1, <1>2, <2>1, <3>1, <3>2 DEF Gone
  <2>2. CASE e.pid = t /\ e.etype = EV_EXIT_TRACKED
    <3>1. 1 \in 1..n
      BY <1>1
    <3> QED
      BY <1>1, <1>3, <2>2, <3>1
  <2> QED
    BY <2>1, <2>2
<1>5. Gone(l2, T2, s)
  BY <1>4 DEF Gone
<1> QED
  BY <1>5 DEF l2

LEMMA GoneReserve ==
  ASSUME TypeOK, Gone(log, tracked_pids, seeded), UNCHANGED seeded,
         NEW e \in Event, NEW from, NEW why, Reserve(e, from, why), mishap' = {},
         \A t \in Task \ tracked_pids' :
           \/ t \notin tracked_pids /\ e.pid # t
           \/ e.pid = t /\ e.etype = EV_EXIT_TRACKED
  PROVE  Gone(log', tracked_pids', seeded')
<1>1. log' = Append(log, e) /\ log \in Seq(Event)
  BY DEF Reserve, TypeOK
<1>2. Gone(Append(log, e), tracked_pids', seeded)
  BY <1>1, GoneAppend
<1> QED
  BY <1>1, <1>2

(* The invariants of the probes that the freshness of the replay rests on   *)
WatchInv == ProbesInv /\ TrackedInv /\ FirstInv /\ GoneInv

LEMMA GoneStep == WatchInv /\ [Next]_vars => GoneInv'
<1> SUFFICES ASSUME WatchInv, [Next]_vars PROVE GoneInv'
  OBVIOUS
<1> USE DEF WatchInv
<1>1. TypeOK
  BY DEF ProbesInv
<1>2. CASE UNCHANGED vars
  BY <1>2 DEF vars, GoneInv
<1>3. CASE Spawn \/ Reap \/ (\E t \in Task : Release(t)) \/ Consume
  BY <1>1, <1>3, TaskAssumption
  DEF Spawn, Reap, Release, Consume, mapVars, historyVars, kernelVars, GoneInv, TypeOK
<1>4. CASE Seed
  <2>1. /\ UNCHANGED <<task, tree, log>> /\ tracked_pids' = tracked_pids \cup {Root}
        /\ seeded' /\ mishap \subseteq mishap'
    BY <1>4 DEF Seed, kernelVars
  <2>2. mishap' = {} => Gone(log, tracked_pids, seeded)
    BY <2>1 DEF GoneInv
  <2>3. Gone(log, tracked_pids, seeded) => Gone(log', tracked_pids', seeded')
    BY <2>1 DEF Gone
  <2> QED
    BY <2>1, <2>2, <2>3 DEF GoneInv
<1>5. ASSUME NEW p \in Task, NEW c \in Task, Fork(p, c) PROVE GoneInv'
  <2>1. /\ UNCHANGED seeded /\ handle_fork(p, c)
        /\ \A t \in tree' : task'[t] = "running"
    BY <1>1, <1>5 DEF Fork, GoneInv, TypeOK
  <2>2. CASE p \notin tracked_pids
    <3>1. UNCHANGED <<log, tracked_pids>> /\ mishap \subseteq mishap'
      BY <2>1, <2>2 DEF handle_fork
    <3>2. mishap' = {} => Gone(log, tracked_pids, seeded)
      BY <3>1 DEF GoneInv
    <3> QED
      BY <2>1, <3>1, <3>2 DEF GoneInv
  <2>3. CASE p \in tracked_pids
    <3> DEFINE e == LifeEvent(EV_FORK_TRACKED, c, p)
               why == IF HasRoom(c) THEN {} ELSE {"tracked_full"}
    <3>1. /\ tracked_pids' = IF HasRoom(c) THEN tracked_pids \cup {c} ELSE tracked_pids
          /\ Reserve(e, 0, why)
      BY <2>1, <2>3 DEF handle_fork
    <3>2. e \in Event
      BY LifeEventType
    <3>3. e.pid = c
      BY DEF LifeEvent
    <3> HIDE DEF e
    <3>4. mishap \cup why \subseteq mishap'
      <4> HIDE DEF why
      <4> QED
        BY <3>1, ReserveMishap
    <3>5. ASSUME mishap' = {} PROVE Gone(log', tracked_pids', seeded')
      <4>1. HasRoom(c) /\ mishap = {}
        BY <3>4, <3>5
      <4>2. tracked_pids' = tracked_pids \cup {c}
        BY <3>1, <4>1
      <4>3. Gone(log, tracked_pids, seeded)
        BY <4>1 DEF GoneInv
      <4> HIDE DEF why
      <4> QED
        BY <1>1, <2>1, <3>1, <3>2, <3>3, <3>5, <4>2, <4>3, GoneReserve
    <3>6. seeded'
      BY <2>1, <2>3 DEF TrackedInv
    <3> QED
      BY <2>1, <3>5, <3>6 DEF GoneInv
  <2> QED
    BY <2>2, <2>3
<1>6. ASSUME NEW t \in Task, TaskExit(t) PROVE GoneInv'
  <2>1. /\ UNCHANGED seeded /\ handle_exit(t)
        /\ \A u \in tree' : task'[u] = "running"
    BY <1>1, <1>6 DEF TaskExit, GoneInv, TypeOK
  <2>2. CASE t \notin tracked_pids
    BY <2>1, <2>2 DEF handle_exit, GoneInv
  <2>3. CASE t \in tracked_pids
    <3> DEFINE e == LifeEvent(EV_EXIT_TRACKED, t, None)
    <3>1. tracked_pids' = tracked_pids \ {t} /\ Reserve(e, 0, {})
      BY <2>1, <2>3 DEF handle_exit
    <3>2. e \in Event
      BY LifeEventType
    <3>3. e.pid = t /\ e.etype = EV_EXIT_TRACKED
      BY DEF LifeEvent
    <3> HIDE DEF e
    <3>4. mishap \subseteq mishap'
      BY <3>1, ReserveMishap
    <3>5. ASSUME mishap' = {} PROVE Gone(log', tracked_pids', seeded')
      <4>1. Gone(log, tracked_pids, seeded)
        BY <3>4, <3>5 DEF GoneInv
      <4>2. \A u \in Task \ tracked_pids' :
              \/ u \notin tracked_pids /\ e.pid # u
              \/ e.pid = u /\ e.etype = EV_EXIT_TRACKED
        BY <2>3, <3>1, <3>3
      <4> QED
        BY <1>1, <2>1, <3>1, <3>2, <3>5, <4>1, <4>2, GoneReserve
    <3>6. seeded'
      BY <2>1, <2>3 DEF TrackedInv
    <3> QED
      BY <2>1, <3>5, <3>6 DEF GoneInv
  <2> QED
    BY <2>2, <2>3
<1>7. ASSUME NEW t \in Task, NEW c \in Call, SysEnter(t, c) PROVE GoneInv'
  <2>1. UNCHANGED <<task, tree, seeded, log, tracked_pids>> /\ mishap \subseteq mishap'
    BY <1>7 DEF SysEnter, stash_enter, UpdateEnterCtx
  <2> QED
    BY <2>1 DEF GoneInv
<1>8. ASSUME NEW t \in Task, NEW ret \in Fd \cup {-1, 0}, SysExit(t, ret) PROVE GoneInv'
  <2> DEFINE sys == call[t].sys
             e == SyscallEvent(t, Etype(sys, enter_ctx[t].flags), enter_ctx[t], ret)
  <2>1. /\ UNCHANGED <<task, tree, seeded, tracked_pids>>
        /\ call[t] \in Call
        /\ emit_exit(t, sys, ret, Len(done'))
        /\ ret \in Int
    BY <1>1, <1>8, TaskAssumption DEF SysExit, TypeOK
  <2>2. CASE UNCHANGED <<log, mishap>>
    BY <2>1, <2>2 DEF GoneInv
  <2>3. CASE ~UNCHANGED <<log, mishap>>
    <3>1. enter_ctx[t] # None /\ Reserve(e, Len(done'), {})
      BY <2>1, <2>3 DEF emit_exit
    <3>2. enter_ctx[t] \in EnterArgs /\ sys \in Syscall
      BY <1>1, <2>1, <3>1, CallAssumption DEF TypeOK, Args
    <3>3. e \in Event
      BY <2>1, <3>2, EtypeType, SyscallEventType
    <3>4. e.pid = t
      BY DEF SyscallEvent
    <3> HIDE DEF e
    <3>5. t \in tracked_pids
      BY <3>1 DEF FirstInv
    <3>6. mishap \subseteq mishap'
      BY <3>1, ReserveMishap
    <3>7. ASSUME mishap' = {} PROVE Gone(log', tracked_pids', seeded')
      <4>1. Gone(log, tracked_pids, seeded)
        BY <3>6, <3>7 DEF GoneInv
      <4>2. \A u \in Task \ tracked_pids' : u \notin tracked_pids /\ e.pid # u
        BY <2>1, <3>4, <3>5
      <4> QED
        BY <1>1, <2>1, <3>1, <3>3, <3>7, <4>1, <4>2, GoneReserve
    <3>8. seeded'
      BY <2>1, <3>5 DEF TrackedInv
    <3> QED
      BY <2>1, <3>7, <3>8 DEF GoneInv
  <2> QED
    BY <2>2, <2>3
<1> QED
  BY <1>2, <1>3, <1>4, <1>5, <1>6, <1>7, <1>8 DEF Next

LEMMA WatchInit == TInit => WatchInv
<1> SUFFICES ASSUME TInit PROVE WatchInv
  OBVIOUS
<1>1. Len(log) = 0 /\ tree = {} /\ ~seeded
  BY DEF TInit, Init
<1>2. GoneInv
  BY <1>1, TaskAssumption DEF GoneInv, Gone
<1> QED
  BY <1>2, ProbesInit, TrackedInit, FirstInit DEF TInit, WatchInv

LEMMA WatchStep == WatchInv /\ [TNext]_tracerVars => WatchInv'
<1> SUFFICES ASSUME WatchInv, [TNext]_tracerVars PROVE WatchInv'
  OBVIOUS
<1>1. ProbesInv'
  BY ProbesStep DEF WatchInv
<1>2. CASE [Next]_vars
  BY <1>1, <1>2, TrackedStep, FirstStep, GoneStep DEF WatchInv, ProbesInv
<1>3. CASE Unseen
  BY <1>1, <1>3 DEF Unseen, WatchInv, TrackedInv, FirstInv, GoneInv, mapVars, historyVars
<1> QED
  BY <1>2, <1>3, StepOfProbes

(* In the replay: what it knows of a task comes from an event of that task, *)
(* or from the start of the root, with no exit handled since.               *)
Fresh(l, t, n) ==
  \E i \in 0..n :
    /\ IF i = 0 THEN t = Root ELSE l[i].pid = t
    /\ \A k \in 1..n : k >= i => ~Leaves(l, k, t)

FreshInv ==
  /\ seeded => probed
  /\ cwd_cache = [t \in Task |-> cwd_cache[t]]
  /\ fd_map = [t \in Task |-> fd_map[t]]
  /\ \A t \in Task : cwd_cache[t] # None \/ fd_map[t] # NoFd => Fresh(log, t, consumed)

LEMMA FreshInit == TInit => FreshInv
  BY DEF TInit, Init, FreshInv

LEMMA FreshNext ==
  ASSUME NEW l, NEW n \in Nat, NEW t
  PROVE  /\ Fresh(l, t, n) /\ ~Leaves(l, n + 1, t) => Fresh(l, t, n + 1)
         /\ l[n + 1].pid = t /\ ~Leaves(l, n + 1, t) => Fresh(l, t, n + 1)
<1>1. ASSUME Fresh(l, t, n), ~Leaves(l, n + 1, t) PROVE Fresh(l, t, n + 1)
  <2>1. PICK i \in 0..n : /\ IF i = 0 THEN t = Root ELSE l[i].pid = t
                          /\ \A k \in 1..n : k >= i => ~Leaves(l, k, t)
    BY <1>1 DEF Fresh
  <2>2. i \in 0..(n + 1) /\ \A k \in 1..(n + 1) : k \in 1..n \/ k = n + 1
    OBVIOUS
  <2> QED
    BY <1>1, <2>1, <2>2 DEF Fresh
<1>2. ASSUME l[n + 1].pid = t, ~Leaves(l, n + 1, t) PROVE Fresh(l, t, n + 1)
  <2>1. n + 1 \in 0..(n + 1) /\ n + 1 # 0
    OBVIOUS
  <2>2. \A k \in 1..(n + 1) : k >= n + 1 => k = n + 1
    OBVIOUS
  <2> QED
    BY <1>2, <2>1, <2>2 DEF Fresh
<1> QED
  BY <1>1, <1>2

(* A handler writes to the maps of the event's task only, and the handler   *)
(* of an exit clears them.                                                  *)
LEMMA HandlerIsLocal ==
  ASSUME FreshInv, NEW e \in Event, handle_event(e)
  PROVE  /\ cwd_cache' = [t \in Task |-> cwd_cache'[t]]
         /\ fd_map' = [t \in Task |-> fd_map'[t]]
         /\ \A t \in Task \ {e.pid} : cwd_cache'[t] = cwd_cache[t] /\ fd_map'[t] = fd_map[t]
         /\ e.etype = EV_EXIT_TRACKED => cwd_cache'[e.pid] = None /\ fd_map'[e.pid] = NoFd
<1>1. e.pid \in Task
  BY DEF Event
<1> DEFINE C(f) == /\ f = [t \in Task |-> f[t]]
                   /\ \A t \in Task \ {e.pid} : f[t] = cwd_cache[t]
           F(f) == /\ f = [t \in Task |-> f[t]]
                   /\ \A t \in Task \ {e.pid} : f[t] = fd_map[t]
<1>2. C(cwd_cache) /\ F(fd_map)
  BY DEF FreshInv
<1>3. \A v : C(Put(cwd_cache, e.pid, v))
  BY <1>1 DEF FreshInv, Put
<1>4. \A v : F([fd_map EXCEPT ![e.pid] = v])
  BY <1>1 DEF FreshInv
<1>5. CASE e.etype = EV_EXIT_TRACKED /\ HandleExit(e)
  <2>1. C(cwd_cache') /\ cwd_cache'[e.pid] = None
    BY <1>1, <1>5 DEF FreshInv, HandleExit
  <2>2. F(fd_map') /\ fd_map'[e.pid] = NoFd
    BY <1>1, <1>5 DEF FreshInv, HandleExit
  <2> QED
    BY <2>1, <2>2
<1>6. CASE e.etype = EV_OPENAT_DIR /\ HandleOpenatDir(e)
  <2>1. \E v : fd_map' = [fd_map EXCEPT ![e.pid] = v]
    BY <1>1, <1>6 DEF FreshInv, HandleOpenatDir
  <2> HIDE DEF C, F
  <2>2. C(cwd_cache') /\ F(fd_map')
    BY <1>2, <1>4, <1>6, <2>1 DEF HandleOpenatDir
  <2> QED
    BY <1>6, <2>2 DEF EV_OPENAT_DIR, EV_EXIT_TRACKED, C, F
<1>7. CASE \/ e.etype = EV_FORK_TRACKED /\ HandleFork(e)
           \/ e.etype = "CHDIR" /\ HandleChdir(e)
           \/ e.etype = "FCHDIR" /\ HandleFchdir(e)
           \/ e.etype \in CreationEvent /\ HandleCreation(e)
  <2> HIDE DEF C, F
  <2>1. UNCHANGED fd_map
    BY <1>7 DEF HandleFork, HandleChdir, HandleFchdir, HandleCreation
  <2>2. UNCHANGED cwd_cache \/ \E v : cwd_cache' = Put(cwd_cache, e.pid, v)
    BY <1>7 DEF HandleFork, HandleChdir, HandleFchdir, HandleCreation
  <2>3. C(cwd_cache') /\ F(fd_map')
    BY <1>2, <1>3, <2>1, <2>2
  <2>4. e.etype # EV_EXIT_TRACKED
    BY <1>7 DEF EV_FORK_TRACKED, EV_EXIT_TRACKED, EV_OPENAT_CREATE, CreationEvent
  <2> QED
    BY <2>3, <2>4 DEF C, F
<1> QED
  BY <1>5, <1>6, <1>7 DEF handle_event

LEMMA FreshStep == WatchInv /\ FreshInv /\ [TNext]_tracerVars => FreshInv'
<1> SUFFICES ASSUME WatchInv, FreshInv, [TNext]_tracerVars PROVE FreshInv'
  OBVIOUS
<1>1. consumed \in 0..Len(log) /\ Len(log) \in Nat /\ log \in Seq(Event)
  BY DEF WatchInv, ProbesInv, TypeOK
<1>2. Grown
  BY LogGrows DEF WatchInv
<1>3. \A t : Fresh(log, t, consumed) => Fresh(log', t, consumed)
  <2>1. \A i \in 1..consumed : log'[i] = log[i]
    BY <1>1, <1>2 DEF Grown
  <2> SUFFICES ASSUME NEW t, Fresh(log, t, consumed) PROVE Fresh(log', t, consumed)
    OBVIOUS
  <2>2. PICK i \in 0..consumed : /\ IF i = 0 THEN t = Root ELSE log[i].pid = t
                                /\ \A k \in 1..consumed : k >= i => ~Leaves(log, k, t)
    BY DEF Fresh
  <2>3. i = 0 \/ i \in 1..consumed
    BY <1>1
  <2>4. IF i = 0 THEN t = Root ELSE log'[i].pid = t
    BY <2>1, <2>2, <2>3
  <2>5. \A k \in 1..consumed : k >= i => ~Leaves(log', k, t)
    BY <2>1, <2>2 DEF Leaves
  <2> QED
    BY <2>4, <2>5 DEF Fresh
<1>4. ASSUME UNCHANGED <<cwd_cache, fd_map, consumed>>, seeded' => probed' PROVE FreshInv'
  <2>1. UNCHANGED cwd_cache /\ UNCHANGED fd_map /\ UNCHANGED consumed
    BY <1>4
  <2>2. \A t \in Task : cwd_cache[t] # None \/ fd_map[t] # NoFd => Fresh(log', t, consumed)
    BY <1>3 DEF FreshInv
  <2>3. /\ cwd_cache' = [t \in Task |-> cwd_cache'[t]]
        /\ fd_map' = [t \in Task |-> fd_map'[t]]
    BY <2>1 DEF FreshInv
  <2>4. \A t \in Task : cwd_cache'[t] # None \/ fd_map'[t] # NoFd => Fresh(log', t, consumed')
    BY <2>1, <2>2
  <2> QED
    BY <1>4, <2>3, <2>4 DEF FreshInv
<1>5. CASE UNCHANGED tracerVars
  BY <1>4, <1>5 DEF tracerVars, vars, stateVars, FreshInv
<1>6. CASE TSpawn \/ TSeed \/ TReap \/ (\E t \in Task : TRelease(t))
  BY <1>4, <1>6 DEF TSpawn, TSeed, TReap, TRelease, Spawn, Seed, Reap, Release, stateVars,
     FreshInv
<1>7. CASE SeedCwd
  <2>1. Len(log) = 0 /\ consumed = 0
    BY <1>1, <1>7 DEF SeedCwd, WatchInv, GoneInv, FreshInv
  <2>2. Fresh(log, Root, consumed)
    BY <2>1 DEF Fresh
  <2>3. /\ UNCHANGED <<fd_map, log, consumed>> /\ probed'
        /\ cwd_cache' = Put(cwd_cache, Root, proc_cwd(Root))
    BY <1>7 DEF SeedCwd, vars
  <2>4. /\ cwd_cache' = [t \in Task |-> cwd_cache'[t]]
        /\ \A t \in Task \ {Root} : cwd_cache'[t] = cwd_cache[t]
    BY <2>3, TaskAssumption DEF FreshInv, Put
  <2> QED
    BY <2>2, <2>3, <2>4 DEF FreshInv
<1>8. CASE TConsume
  <2> DEFINE n == consumed + 1
             e == log[n]
  <2>1. /\ consumed < Len(log) /\ consumed' = n /\ log' = log
        /\ handle_event(e) /\ UNCHANGED <<seeded, probed>>
    BY <1>8 DEF TConsume, Consume, mapVars
  <2>2. n \in 1..Len(log) /\ consumed \in Nat /\ e \in Event
    BY <1>1, <2>1
  <2> HIDE DEF e
  <2>3. /\ cwd_cache' = [t \in Task |-> cwd_cache'[t]]
        /\ fd_map' = [t \in Task |-> fd_map'[t]]
        /\ \A t \in Task \ {e.pid} : cwd_cache'[t] = cwd_cache[t] /\ fd_map'[t] = fd_map[t]
        /\ e.etype = EV_EXIT_TRACKED => cwd_cache'[e.pid] = None /\ fd_map'[e.pid] = NoFd
    BY <2>1, <2>2, HandlerIsLocal
  <2>4. ASSUME NEW t \in Task, cwd_cache'[t] # None \/ fd_map'[t] # NoFd
        PROVE  Fresh(log, t, n)
    <3>1. CASE t # e.pid
      <4>1. Fresh(log, t, consumed)
        BY <2>3, <2>4, <3>1 DEF FreshInv
      <4>2. ~Leaves(log, n, t)
        BY <3>1 DEF Leaves, e
      <4> QED
        BY <2>2, <4>1, <4>2, FreshNext
    <3>2. CASE t = e.pid
      <4>1. log[n].pid = t /\ ~Leaves(log, n, t)
        BY <2>3, <2>4, <3>2 DEF Leaves, e
      <4> QED
        BY <2>2, <4>1, FreshNext
    <3> QED
      BY <3>1, <3>2
  <2> QED
    BY <2>1, <2>3, <2>4 DEF FreshInv
<1>9. CASE \E p, c \in Task : TFork(p, c)
  BY <1>4, <1>9 DEF TFork, Fork, stateVars, FreshInv
<1>10. CASE \E t \in Task : TTaskExit(t)
  BY <1>4, <1>10 DEF TTaskExit, TaskExit, stateVars, FreshInv
<1>11. CASE \E t \in Task, fd \in Fd : Close(t, fd)
  BY <1>4, <1>11 DEF Close, stateVars, FreshInv
<1>12. CASE \E t \in Task, c \in Call : TSysEnter(t, c)
  BY <1>4, <1>12 DEF TSysEnter, SysEnter, stateVars, FreshInv
<1>13. CASE \E t \in Task, ret \in Fd \cup {-1, 0} : TSysExit(t, ret)
  BY <1>4, <1>13 DEF TSysExit, SysExit, stateVars, FreshInv
<1> QED
  BY <1>5, <1>6, <1>7, <1>8, <1>9, <1>10, <1>11, <1>12, <1>13 DEF TNext

LEMMA FreshImplies == WatchInv /\ FreshInv => NoStaleEntries
<1> SUFFICES ASSUME WatchInv, FreshInv, mishap = {}, seeded,
                    NEW t \in Task, task[t] # "running",
                    \A i \in (consumed + 1)..Len(log) : log[i].pid # t,
                    Fresh(log, t, consumed)
             PROVE  FALSE
  BY DEF NoStaleEntries, FreshInv
<1>1. consumed \in 0..Len(log) /\ Len(log) \in Nat
  BY DEF WatchInv, ProbesInv, TypeOK
<1>2. t \notin tracked_pids /\ Gone(log, tracked_pids, seeded)
  BY DEF WatchInv, TrackedInv, GoneInv
<1>3. PICK i \in 0..consumed : /\ IF i = 0 THEN t = Root ELSE log[i].pid = t
                               /\ \A k \in 1..consumed : k >= i => ~Leaves(log, k, t)
  BY DEF Fresh
<1>4. \E k \in 1..Len(log) : k >= i /\ Leaves(log, k, t)
  <2>1. CASE i = 0
    <3>1. LeftSince(log, t, 1)
      BY <1>2, <1>3, <2>1 DEF Gone
    <3> QED
      BY <1>1, <2>1, <3>1 DEF LeftSince
  <2>2. CASE i # 0
    <3>1. i \in 1..Len(log) /\ LeftSince(log, t, i)
      BY <1>1, <1>2, <1>3, <2>2 DEF Gone
    <3> QED
      BY <1>1, <3>1 DEF LeftSince
  <2> QED
    BY <2>1, <2>2
<1>5. PICK k \in 1..Len(log) : k >= i /\ Leaves(log, k, t)
  BY <1>4
<1>6. k \in 1..consumed \/ k \in (consumed + 1)..Len(log)
  BY <1>1
<1> QED
  BY <1>3, <1>5, <1>6 DEF Leaves

(* With nothing lost, a task that ended and has no event left to handle has *)
(* no entry in cwd_cache or fd_map, so a reused id starts with neither the   *)
(* directory nor the descriptors of its predecessor (main.rs:207).          *)
THEOREM NothingStale == TSpec => []NoStaleEntries
  BY WatchInit, WatchStep, FreshInit, FreshStep, FreshImplies, PTL DEF TSpec
-----------------------------------------------------------------------------
(* Types of the tracer.  An event has the fields its handler reads.        *)
Shape(e) ==
  /\ e.etype = EV_FORK_TRACKED => e.ppid \in Task
  /\ e.etype \notin LifeEtype => e.dirfd \in Dirfd
  /\ e.etype \notin LifeEtype \cup {"FCHDIR"} => e.path \in Path
  /\ e.etype = "FCHDIR" => e.dirfd \in Fd
  /\ e.etype = EV_OPENAT_DIR => e.result_fd \in Fd

Etypes == {EV_FORK_TRACKED, EV_EXIT_TRACKED, EV_OPENAT_DIR, EV_OPENAT_CREATE}

LEMMA EmittedShape ==
  ASSUME ProbesInv, NEW t \in Task, NEW ret \in Result(call[t]), call[t] # None,
         enter_ctx[t] # None, Succeeded(call[t].sys, ret)
  PROVE  LET e == SyscallEvent(t, Etype(call[t].sys, enter_ctx[t].flags), enter_ctx[t], ret)
         IN  e \in Event /\ Shape(e)
<1> DEFINE c == call[t]
           ea == enter_ctx[t]
           etype == Etype(c.sys, ea.flags)
           e == SyscallEvent(t, etype, ea, ret)
<1>1. c \in Call /\ c \in Args /\ c.sys \in Syscall
  BY CallAssumption DEF ProbesInv, TypeOK, Args
<1>2. ea = Stash(c) /\ ea \in EnterArgs
  BY DEF ProbesInv, StashIsCurrent, TypeOK
<1>3. ret \in Int /\ etype \in EventType
  BY <1>1, EtypeType, TaskAssumption DEF Result
<1>4. e \in Event
  BY <1>2, <1>3, SyscallEventType
<1>5. etype \notin LifeEtype
  BY <1>1 DEF Etype, FixedEtype, Syscall, OpenatFamily, LifeEtype, EV_FORK_TRACKED,
              EV_EXIT_TRACKED, EV_OPENAT_CREATE, EV_OPENAT_DIR
<1>6. etype = "FCHDIR" <=> c.sys = "fchdir"
  BY <1>1 DEF Etype, FixedEtype, Syscall, OpenatFamily, EV_OPENAT_CREATE, EV_OPENAT_DIR
<1>7. etype = EV_OPENAT_DIR => c.sys \in OpenatFamily
  BY <1>1 DEF Etype, FixedEtype, Syscall, OpenatFamily, EV_OPENAT_CREATE, EV_OPENAT_DIR
<1>8. e.etype = etype /\ e.dirfd = ea.dirfd /\ e.path = ea.path
  BY DEF SyscallEvent
<1>9. e.dirfd \in Dirfd
  BY <1>2, <1>8 DEF EnterArgs
<1>10. etype # "FCHDIR" => e.path \in Path
  <2>1. ASSUME c.sys # "fchdir" PROVE ea.path \in Path
    <3>1. c.path \in Path /\ c.path # None
      BY <1>1, <2>1, CallAssumption DEF Args
    <3>2. Cut[c.path] \in Path
      BY <3>1, CallAssumption
    <3> QED
      BY <1>2, <3>1, <3>2 DEF Stash
  <2> QED
    BY <1>6, <1>8, <2>1
<1>11. etype = "FCHDIR" => e.dirfd \in Fd
  BY <1>1, <1>2, <1>6, <1>8, PathAssumption DEF Stash, DirfdCalls
<1>12. etype = EV_OPENAT_DIR => e.result_fd \in Fd
  <2>1. ASSUME etype = EV_OPENAT_DIR PROVE ret \in Fd
    <3>1. c.sys \in Openers
      BY <1>7, <2>1 DEF Openers
    <3>2. ret >= 0 /\ ret \in {-1} \cup Fd
      BY <3>1 DEF Succeeded, Result
    <3> QED
      BY <3>2
  <2> QED
    BY <2>1 DEF SyscallEvent
<1> HIDE DEF e, etype
<1>13. e.etype # EV_FORK_TRACKED
  BY <1>5, <1>8 DEF LifeEtype
<1>14. Shape(e)
  BY <1>8, <1>9, <1>10, <1>11, <1>12, <1>13 DEF Shape
<1> QED
  BY <1>4, <1>14 DEF e, etype

(* A step adds at most one event to the log, of the right shape.            *)
LogStays == UNCHANGED log
LogAdds == \E e \in Event : Shape(e) /\ log' = Append(log, e)

LEMMA LifeShape ==
  ASSUME NEW t \in Task, NEW p \in Task
  PROVE  /\ LifeEvent(EV_FORK_TRACKED, t, p) \in Event
         /\ Shape(LifeEvent(EV_FORK_TRACKED, t, p))
         /\ LifeEvent(EV_EXIT_TRACKED, t, None) \in Event
         /\ Shape(LifeEvent(EV_EXIT_TRACKED, t, None))
<1>1. /\ LifeEvent(EV_FORK_TRACKED, t, p) \in Event
      /\ LifeEvent(EV_EXIT_TRACKED, t, None) \in Event
  BY LifeEventType
<1>2. Shape(LifeEvent(EV_FORK_TRACKED, t, p))
  BY DEF LifeEvent, Shape, LifeEtype, EV_FORK_TRACKED, EV_EXIT_TRACKED, EV_OPENAT_DIR
<1>3. Shape(LifeEvent(EV_EXIT_TRACKED, t, None))
  BY DEF LifeEvent, Shape, LifeEtype, EV_FORK_TRACKED, EV_EXIT_TRACKED, EV_OPENAT_DIR
<1> QED
  BY <1>1, <1>2, <1>3

LEMMA LogStep == ProbesInv /\ [TNext]_tracerVars => LogStays \/ LogAdds
<1> SUFFICES ASSUME ProbesInv, [TNext]_tracerVars PROVE LogStays \/ LogAdds
  OBVIOUS
<1>1. ASSUME NEW p \in Task, NEW c \in Task, Fork(p, c) PROVE LogStays \/ LogAdds
  BY <1>1, LifeShape DEF Fork, handle_fork, Reserve, LogStays, LogAdds
<1>2. ASSUME NEW t \in Task, TaskExit(t) PROVE LogStays \/ LogAdds
  BY <1>2, LifeShape DEF TaskExit, handle_exit, Reserve, LogStays, LogAdds
<1>3. ASSUME NEW t \in Task, NEW ret \in Fd \cup {-1, 0}, SysExit(t, ret)
      PROVE  LogStays \/ LogAdds
  <2> DEFINE e == SyscallEvent(t, Etype(call[t].sys, enter_ctx[t].flags), enter_ctx[t], ret)
  <2>1. CASE UNCHANGED log
    BY <2>1 DEF LogStays
  <2>2. CASE ~UNCHANGED log
    <3>1. /\ call[t] # None /\ ret \in Result(call[t]) /\ enter_ctx[t] # None
          /\ Succeeded(call[t].sys, ret) /\ log' = Append(log, e)
      BY <1>3, <2>2 DEF SysExit, emit_exit, Reserve
    <3>2. e \in Event /\ Shape(e)
      BY <3>1, EmittedShape
    <3> HIDE DEF e
    <3> QED
      BY <3>1, <3>2 DEF LogAdds
  <2> QED
    BY <2>1, <2>2
<1>4. CASE Next
  BY <1>1, <1>2, <1>3, <1>4
  DEF Next, Spawn, Seed, Reap, Release, Consume, SysEnter, mapVars, LogStays
<1>5. CASE UNCHANGED vars \/ Unseen
  BY <1>5 DEF vars, Unseen, mapVars, LogStays
<1> QED
  BY <1>4, <1>5, StepOfProbes

-----------------------------------------------------------------------------
(* Types of the kernel's directories.                                      *)
Base == [dir : Where \cup {None}, sure : BOOLEAN]

WorldOK ==
  /\ lead \in [Task -> Task]
  /\ cwd \in [Task -> Dir]
  /\ files \in [Task -> [Fd -> Dir \cup {None}]]
  /\ known \in SUBSET Task
  /\ mapped \in [Task -> SUBSET Fd]

BaseOK == base \in Seq(Base) /\ Len(base) = Len(log)

LEMMA ResolveType ==
  ASSUME NEW b \in Where \cup {None}, NEW p \in Path
  PROVE  ResolveFrom(b, p) \in Where \cup {None}
<1>1. CASE p \in Absolute
  BY <1>1, PathAssumption DEF ResolveFrom
<1>2. CASE p \notin Absolute
  <2>1. b # None => Join[b] \in [Path \ Absolute -> Where]
    BY PathAssumption
  <2> QED
    BY <1>2, <2>1 DEF ResolveFrom
<1> QED
  BY <1>1, <1>2

LEMMA BaseDirType ==
  ASSUME WorldOK, NEW t \in Task, NEW c \in Call
  PROVE  BaseDir(t, c) \in Where \cup {None}
<1>1. c.dirfd \in Fd \cup {AT_FDCWD}
  BY CallAssumption DEF Args, Dirfd
<1>2. lead[t] \in Task
  BY DEF WorldOK
<1>3. cwd[lead[t]] \in Where /\ files[lead[t]] \in [Fd -> Dir \cup {None}]
  BY <1>2, PathAssumption DEF WorldOK
<1>4. c.dirfd # AT_FDCWD => files[lead[t]][c.dirfd] \in Dir \cup {None}
  BY <1>1, <1>3
<1> QED
  BY <1>3, <1>4, PathAssumption DEF BaseDir

LEMMA OriginType ==
  ASSUME WorldOK, NEW t \in Task, NEW c \in Call
  PROVE  Origin(t, c) \in Base
<1>1. BaseDir(t, c) \in Where \cup {None}
  BY BaseDirType
<1> QED
  BY <1>1 DEF Origin, Base

LEMMA RememberType ==
  ASSUME ProbesInv, BaseOK, [TNext]_tracerVars,
         NEW o \in Base, NEW users, NEW fds, Remember(o, users, fds)
  PROVE  BaseOK'
<1> DEFINE b == [i \in DOMAIN base |->
              IF /\ i > consumed /\ log[i].pid \in users
                 /\ log[i].etype \in CreationEvent
                 /\ log[i].path \notin Absolute /\ log[i].dirfd \in fds
              THEN [base[i] EXCEPT !.sure = FALSE] ELSE base[i]]
<1>1. /\ DOMAIN base = 1..Len(base) /\ Len(base) \in Nat /\ Len(base) = Len(log)
      /\ \A i \in 1..Len(base) : base[i] \in Base
  BY DEF BaseOK
<1>2. b \in [1..Len(base) -> Base]
  BY <1>1 DEF Base
<1>3. base' = IF Logged THEN Append(b, o) ELSE b
  BY DEF Remember
<1> HIDE DEF b
<1>4. b \in Seq(Base) /\ Len(b) = Len(base)
  BY <1>1, <1>2
<1>5. Append(b, o) \in Seq(Base) /\ Len(Append(b, o)) = Len(b) + 1
  BY <1>4, AppendFacts
<1>6. Len(log') = IF Logged THEN Len(log) + 1 ELSE Len(log)
  <2> DEFINE n == Len(log)
             m == Len(log')
  <2>0. n \in Nat
    BY <1>1
  <2>1. CASE LogStays
    <3>1. m = n
      BY <2>1 DEF LogStays
    <3> HIDE DEF m, n
    <3>2. ~(m > n)
      BY <2>0, <3>1
    <3> QED
      BY <3>1, <3>2 DEF Logged, m, n
  <2>2. CASE LogAdds
    <3>1. log \in Seq(Event)
      BY DEF ProbesInv, TypeOK
    <3>2. m = n + 1
      BY <2>2, <3>1, AppendFacts DEF LogAdds
    <3> HIDE DEF m, n
    <3>3. m > n
      BY <2>0, <3>2
    <3> QED
      BY <3>2, <3>3 DEF Logged, m, n
  <2> QED
    BY <2>1, <2>2, LogStep
<1> QED
  BY <1>1, <1>3, <1>4, <1>5, <1>6 DEF BaseOK

LEMMA MoveType ==
  ASSUME WorldOK, NEW t \in Task, NEW c \in Call, NEW ret,
         Feasible(t, c, ret), UNCHANGED lead,
         \/ OpensDir(c) /\ InstallDir(t, c, ret)
         \/ MovesCwd(c) /\ ChangeCwd(t, c)
  PROVE  WorldOK'
<1>1. lead[t] \in Task
  BY DEF WorldOK
<1>2. CASE OpensDir(c) /\ InstallDir(t, c, ret)
  <2>1. Target(t, c) \in Dir
    BY <1>2 DEF Feasible
  <2>2. ret \in Fd
    BY <1>2 DEF Feasible, FreeFd, OpensDir
  <2>3. files' \in [Task -> [Fd -> Dir \cup {None}]]
    BY <1>1, <1>2, <2>1, <2>2 DEF InstallDir, WorldOK
  <2>4. mapped' \in [Task -> SUBSET Fd]
    BY <1>2, <2>2 DEF InstallDir, WorldOK
  <2> QED
    BY <1>2, <2>3, <2>4 DEF InstallDir, WorldOK
<1>3. CASE MovesCwd(c) /\ ChangeCwd(t, c)
  <2>1. Target(t, c) \in Dir
    BY <1>3 DEF Feasible
  <2>2. cwd' \in [Task -> Dir] /\ known' \in SUBSET Task
    BY <1>1, <1>3, <2>1 DEF ChangeCwd, WorldOK
  <2> QED
    BY <1>3, <2>2 DEF ChangeCwd, WorldOK
<1> QED
  BY <1>2, <1>3

LEMMA WorldStep ==
  ProbesInv /\ WorldOK /\ BaseOK /\ [TNext]_tracerVars => WorldOK' /\ BaseOK'
<1> SUFFICES ASSUME ProbesInv, WorldOK, BaseOK, [TNext]_tracerVars
             PROVE  WorldOK' /\ BaseOK'
  OBVIOUS
<1>1. NoOrigin \in Base
  BY DEF NoOrigin, Base
<1>2. ASSUME UNCHANGED <<worldVars, replayVars, log>> PROVE WorldOK' /\ BaseOK'
  BY <1>2 DEF worldVars, replayVars, WorldOK, BaseOK
<1>3. CASE UNCHANGED tracerVars
  BY <1>2, <1>3 DEF tracerVars, vars
<1>4. CASE TSpawn \/ TSeed \/ TConsume
  BY <1>2, <1>4 DEF TSpawn, TSeed, TConsume, Spawn, Seed, Consume, mapVars
<1>11. CASE TReap \/ \E t \in Task : TRelease(t)
  BY <1>11, TaskAssumption
  DEF TReap, TRelease, Reap, Release, mapVars, replayVars, WorldOK, BaseOK
<1>5. CASE SeedCwd
  BY <1>5, TaskAssumption DEF SeedCwd, worldVars, vars, WorldOK, BaseOK
<1>6. ASSUME NEW p \in Task, NEW c \in Task, TFork(p, c) PROVE WorldOK' /\ BaseOK'
  <2>1. Remember([dir |-> cwd[lead[p]], sure |-> p \in known], {}, {})
    BY <1>6 DEF TFork
  <2>2. lead[p] \in Task
    BY DEF WorldOK
  <2>3. BaseOK'
    <3>1. [dir |-> cwd[lead[p]], sure |-> p \in known] \in Base
      BY <2>2, PathAssumption DEF Base, WorldOK
    <3> QED
      BY <2>1, <3>1, RememberType
  <2>4. CASE /\ lead' = [lead EXCEPT ![c] = c]
             /\ cwd' = [cwd EXCEPT ![c] = cwd[lead[p]]]
             /\ files' = [files EXCEPT ![c] = files[lead[p]]]
             /\ known' = (known \ {c}) \cup {u \in {c} : p \in known /\ Logged}
             /\ mapped' = [mapped EXCEPT ![c] = {}]
    <3>1. lead' \in [Task -> Task] /\ cwd' \in [Task -> Dir] /\ known' \in SUBSET Task
      BY <2>2, <2>4 DEF WorldOK
    <3>2. files' \in [Task -> [Fd -> Dir \cup {None}]] /\ mapped' \in [Task -> SUBSET Fd]
      BY <2>2, <2>4 DEF WorldOK
    <3> QED
      BY <2>3, <3>1, <3>2 DEF WorldOK
  <2>5. CASE /\ lead' = [lead EXCEPT ![c] = lead[p]]
             /\ known' = known \ (Sharers(p) \cup {c})
             /\ mapped' = [u \in Task |-> IF u \in Sharers(p) \cup {c} THEN {} ELSE mapped[u]]
             /\ UNCHANGED <<cwd, files>>
    <3>1. mapped' \in [Task -> SUBSET Fd]
      BY <2>5 DEF WorldOK
    <3> QED
      BY <2>3, <2>2, <2>5, <3>1 DEF WorldOK
  <2> QED
    BY <1>6, <2>4, <2>5 DEF TFork
<1>7. ASSUME NEW t \in Task, TTaskExit(t) PROVE WorldOK' /\ BaseOK'
  <2>1. Remember(NoOrigin, {t}, Fd)
    BY <1>7 DEF TTaskExit
  <2>2. BaseOK'
    BY <1>1, <2>1, RememberType
  <2> QED
    BY <1>7, <2>2 DEF TTaskExit, worldVars, WorldOK
<1>8. ASSUME NEW t \in Task, NEW fd \in Fd, Close(t, fd) PROVE WorldOK' /\ BaseOK'
  <2>1. Remember(NoOrigin, Sharers(t), {fd})
    BY <1>8 DEF Close
  <2>2. BaseOK'
    BY <1>1, <2>1, RememberType
  <2>3. lead[t] \in Task
    BY DEF WorldOK
  <2>4. files' \in [Task -> [Fd -> Dir \cup {None}]] /\ mapped' \in [Task -> SUBSET Fd]
    BY <1>8, <2>3 DEF Close, WorldOK
  <2> QED
    BY <1>8, <2>2, <2>4 DEF Close, WorldOK
<1>9. ASSUME NEW t \in Task, NEW c \in Call, TSysEnter(t, c) PROVE WorldOK' /\ BaseOK'
  BY <1>2, <1>9 DEF TSysEnter, SysEnter
<1>10. ASSUME NEW t \in Task, NEW ret \in Fd \cup {-1, 0}, TSysExit(t, ret)
       PROVE  WorldOK' /\ BaseOK'
  <2>1. call[t] \in Call /\ UNCHANGED lead /\ Remember(Origin(t, call[t]), {}, {})
    BY <1>10 DEF TSysExit, SysExit, ProbesInv, TypeOK
  <2>2. BaseOK'
    BY <2>1, OriginType, RememberType
  <2>3. CASE UNCHANGED <<cwd, files, known, mapped>>
    BY <2>1, <2>2, <2>3 DEF WorldOK
  <2>4. CASE ~UNCHANGED <<cwd, files, known, mapped>>
    <3>1. /\ Feasible(t, call[t], ret)
          /\ \/ OpensDir(call[t]) /\ InstallDir(t, call[t], ret)
             \/ MovesCwd(call[t]) /\ ChangeCwd(t, call[t])
      BY <1>10, <2>4 DEF TSysExit
    <3> QED
      BY <2>1, <2>2, <3>1, MoveType
  <2> QED
    BY <2>3, <2>4
<1> QED
  BY <1>3, <1>4, <1>5, <1>6, <1>7, <1>8, <1>9, <1>10, <1>11 DEF TNext

-----------------------------------------------------------------------------
(* Types of the State of main.rs.                                          *)
StateOK ==
  /\ cwd_cache \in [Task -> Where \cup {None}]
  /\ fd_map \in [Task -> [Fd -> Where \cup {None}]]
  /\ events \in Seq(CapturedEvent)
  /\ overflow_warned \in BOOLEAN
  /\ probed \in BOOLEAN

Shaped == \A i \in 1..Len(log) : Shape(log[i])

LEMMA ShapedStep == ProbesInv /\ Shaped /\ [TNext]_tracerVars => Shaped'
<1> SUFFICES ASSUME ProbesInv, Shaped, [TNext]_tracerVars PROVE Shaped'
  OBVIOUS
<1>1. CASE LogStays
  BY <1>1 DEF LogStays, Shaped
<1>2. CASE LogAdds
  <2>1. PICK e \in Event : Shape(e) /\ log' = Append(log, e)
    BY <1>2 DEF LogAdds
  <2>2. log \in Seq(Event)
    BY DEF ProbesInv, TypeOK
  <2>3. /\ Len(log) \in Nat /\ Len(log') = Len(log) + 1 /\ log'[Len(log) + 1] = e
        /\ \A i \in 1..Len(log) : log'[i] = log[i]
    BY <2>1, <2>2, AppendFacts
  <2>4. \A i \in 1..Len(log') : Shape(log'[i])
    BY <2>1, <2>3 DEF Shaped
  <2> QED
    BY <2>4 DEF Shaped
<1> QED
  BY <1>1, <1>2, LogStep

LEMMA ProcTypes ==
  ASSUME WorldOK, StateOK, NEW t \in Task
  PROVE  /\ proc_cwd(t) \in Where \cup {None}
         /\ Cwd(t) \in Where \cup {None}
         /\ \A fd \in Fd : proc_fd(t, fd) \in Where \cup {None}
<1>1. lead[t] \in Task
  BY DEF WorldOK
<1>2. cwd[lead[t]] \in Dir /\ files[lead[t]] \in [Fd -> Dir \cup {None}]
  BY <1>1 DEF WorldOK
<1> QED
  BY <1>2, PathAssumption DEF StateOK, proc_cwd, proc_fd, Cwd, OrElse

LEMMA PutType ==
  ASSUME NEW f \in [Task -> Where \cup {None}], NEW t \in Task, NEW v \in Where \cup {None}
  PROVE  Put(f, t, v) \in [Task -> Where \cup {None}]
  BY DEF Put

LEMMA HandlerType ==
  ASSUME WorldOK, StateOK, consumed \in Nat, NEW e \in Event, Shape(e), handle_event(e),
         UNCHANGED probed
  PROVE  StateOK'
<1> DEFINE t == e.pid
           W == Where \cup {None}
<1>1. /\ t \in Task /\ e.truncated \in BOOLEAN
      /\ \A u \in Task : cwd_cache[u] \in W /\ fd_map[u] \in [Fd -> W]
  BY DEF Event, StateOK
<1>2. /\ proc_cwd(t) \in W /\ Cwd(t) \in W
      /\ \A fd \in Fd : proc_fd(t, fd) \in W
  BY <1>1, ProcTypes
<1>3. \A v \in W : Put(cwd_cache, t, v) \in [Task -> W]
  BY <1>1, PutType DEF StateOK
<1> HIDE DEF W
<1>4. ASSUME cwd_cache' \in [Task -> W], fd_map' \in [Task -> [Fd -> W]],
             UNCHANGED <<events, overflow_warned>>
      PROVE  StateOK'
  BY <1>4 DEF StateOK, W
<1>5. fd_map \in [Task -> [Fd -> W]] /\ cwd_cache \in [Task -> W]
  BY DEF StateOK, W
<1>6. CASE e.etype = EV_FORK_TRACKED /\ HandleFork(e)
  <2>1. OrElse(cwd_cache[e.ppid], proc_cwd(t)) \in W
    BY <1>1, <1>2, <1>6 DEF OrElse, Shape
  <2> QED
    BY <1>3, <1>4, <1>5, <1>6, <2>1 DEF HandleFork
<1>7. CASE e.etype = EV_EXIT_TRACKED /\ HandleExit(e)
  <2>1. NoFd \in [Fd -> W] /\ None \in W
    BY DEF NoFd, W
  <2> QED
    BY <1>1, <1>4, <1>5, <1>7, <2>1 DEF HandleExit
<1>8. CASE e.etype = "CHDIR" /\ HandleChdir(e)
  <2>1. e.path \in Path
    BY <1>8 DEF Shape, LifeEtype, EV_FORK_TRACKED, EV_EXIT_TRACKED
  <2>2. ResolveFrom(Cwd(t), e.path) \in W
    BY <1>2, <2>1, ResolveType DEF W
  <2> QED
    BY <1>3, <1>4, <1>5, <1>8, <2>2 DEF HandleChdir
<1>9. CASE e.etype = "FCHDIR" /\ HandleFchdir(e)
  <2>1. e.dirfd \in Fd
    BY <1>9 DEF Shape
  <2>2. OrElse(fd_map[t][e.dirfd], proc_fd(t, e.dirfd)) \in W
    BY <1>1, <1>2, <2>1 DEF OrElse
  <2> QED
    BY <1>3, <1>4, <1>5, <1>9, <2>2 DEF HandleFchdir
<1>10. CASE e.etype = EV_OPENAT_DIR /\ HandleOpenatDir(e)
  <2> DEFINE from == IF e.dirfd = AT_FDCWD THEN Cwd(t)
                     ELSE OrElse(fd_map[t][e.dirfd], proc_fd(t, e.dirfd))
             v == ResolveFrom(from, e.path)
  <2>1. e.path \in Path /\ e.dirfd \in Fd \cup {AT_FDCWD} /\ e.result_fd \in Fd
    BY <1>10 DEF Shape, LifeEtype, EV_FORK_TRACKED, EV_EXIT_TRACKED, EV_OPENAT_DIR, Dirfd
  <2>2. from \in W
    BY <1>1, <1>2, <2>1 DEF OrElse
  <2>3. v \in W
    BY <2>1, <2>2, ResolveType DEF W
  <2>4. fd_map' = [fd_map EXCEPT ![t] = Put(@, e.result_fd, v)]
    BY <1>10 DEF HandleOpenatDir
  <2> HIDE DEF v
  <2>5. Put(fd_map[t], e.result_fd, v) \in [Fd -> W]
    BY <1>1, <2>1, <2>3 DEF Put
  <2>6. fd_map' \in [Task -> [Fd -> W]]
    BY <1>1, <1>5, <2>4, <2>5
  <2> QED
    BY <1>4, <1>5, <1>10, <2>6 DEF HandleOpenatDir
<1>11. CASE e.etype \in CreationEvent /\ HandleCreation(e)
  <2>1. e.etype \notin LifeEtype \cup {"FCHDIR"}
    BY <1>11 DEF CreationEvent, LifeEtype, EV_FORK_TRACKED, EV_EXIT_TRACKED, EV_OPENAT_CREATE
  <2>2. e.path \in Path /\ e.dirfd \in Fd \cup {AT_FDCWD}
    BY <2>1 DEF Shape, Dirfd
  <2>3. ResolvedBase(e) \in W
    BY <1>2, <2>2 DEF ResolvedBase, W
  <2>4. Captured(e) \in CapturedEvent
    BY <1>1, <1>11, <2>2, <2>3 DEF Captured, CapturedEvent, W
  <2>5. events' \in Seq(CapturedEvent) /\ overflow_warned' \in BOOLEAN
    <3>1. push_event(Captured(e)) /\ events \in Seq(CapturedEvent) /\ overflow_warned \in BOOLEAN
      BY <1>11 DEF HandleCreation, StateOK
    <3>2. Append(events, Captured(e)) \in Seq(CapturedEvent)
      BY <2>4, <3>1, AppendFacts
    <3> QED
      BY <3>1, <3>2 DEF push_event
  <2>6. cwd_cache' \in [Task -> W] /\ UNCHANGED fd_map
    BY <1>2, <1>3, <1>5, <1>11 DEF HandleCreation
  <2> QED
    BY <1>5, <2>5, <2>6 DEF StateOK, W
<1> QED
  BY <1>6, <1>7, <1>8, <1>9, <1>10, <1>11 DEF handle_event

LEMMA StateStep ==
  ProbesInv /\ WorldOK /\ StateOK /\ Shaped /\ [TNext]_tracerVars => StateOK'
<1> SUFFICES ASSUME ProbesInv, WorldOK, StateOK, Shaped, [TNext]_tracerVars PROVE StateOK'
  OBVIOUS
<1>1. CASE TConsume
  <2> DEFINE e == log[consumed + 1]
  <2>1. consumed < Len(log) /\ handle_event(e) /\ UNCHANGED probed
    BY <1>1 DEF TConsume, Consume
  <2>2. consumed \in Nat /\ consumed + 1 \in 1..Len(log) /\ log \in Seq(Event)
    BY <2>1 DEF ProbesInv, TypeOK
  <2>3. e \in Event /\ Shape(e)
    BY <2>2 DEF Shaped
  <2> HIDE DEF e
  <2> QED
    BY <2>1, <2>2, <2>3, HandlerType
<1>2. CASE SeedCwd
  <2>1. proc_cwd(Root) \in Where \cup {None}
    BY ProcTypes, TaskAssumption
  <2>2. Put(cwd_cache, Root, proc_cwd(Root)) \in [Task -> Where \cup {None}]
    BY <2>1, PutType, TaskAssumption DEF StateOK
  <2> QED
    BY <1>2, <2>2 DEF SeedCwd, StateOK
<1>3. ASSUME UNCHANGED <<stateVars, probed>> PROVE StateOK'
  BY <1>3 DEF stateVars, StateOK
<1>4. CASE UNCHANGED tracerVars \/ TSpawn \/ TSeed \/ TReap \/ \E t \in Task : TRelease(t)
  BY <1>3, <1>4 DEF tracerVars, TSpawn, TSeed, TReap, TRelease
<1>5. CASE \E p, c \in Task : TFork(p, c)
  BY <1>3, <1>5 DEF TFork
<1>6. CASE \E t \in Task : TTaskExit(t)
  BY <1>3, <1>6 DEF TTaskExit
<1>7. CASE \E t \in Task, fd \in Fd : Close(t, fd)
  BY <1>3, <1>7 DEF Close
<1>8. CASE \E t \in Task, c \in Call : TSysEnter(t, c)
  BY <1>3, <1>8 DEF TSysEnter
<1>9. CASE \E t \in Task, ret \in Fd \cup {-1, 0} : TSysExit(t, ret)
  BY <1>3, <1>9 DEF TSysExit
<1> QED
  BY <1>1, <1>2, <1>4, <1>5, <1>6, <1>7, <1>8, <1>9 DEF TNext

TypesInv == ProbesInv /\ WorldOK /\ BaseOK /\ StateOK /\ Shaped

LEMMA TypesInit == TInit => TypesInv
<1> SUFFICES ASSUME TInit PROVE TypesInv
  OBVIOUS
<1>1. ProbesInv /\ Len(log) = 0
  BY ProbesInit DEF TInit, Init
<1>2. NoFd \in [Fd -> Dir \cup {None}] /\ NoFd \in [Fd -> Where \cup {None}]
  BY DEF NoFd
<1>3. WorldOK
  BY <1>2, PathAssumption DEF TInit, WorldOK
<1>4. BaseOK /\ Shaped
  BY <1>1 DEF TInit, BaseOK, Shaped
<1>5. StateOK
  <2>1. cwd_cache \in [Task -> Where \cup {None}] /\ fd_map \in [Task -> [Fd -> Where \cup {None}]]
    BY <1>2 DEF TInit
  <2>2. overflow_warned \in BOOLEAN /\ probed \in BOOLEAN
    BY DEF TInit
  <2>3. <<>> \in Seq(CapturedEvent)
    OBVIOUS
  <2>4. events \in Seq(CapturedEvent)
    BY <2>3 DEF TInit
  <2> QED
    BY <2>1, <2>2, <2>4 DEF StateOK
<1> QED
  BY <1>1, <1>3, <1>4, <1>5 DEF TypesInv

LEMMA TypesStep == TypesInv /\ [TNext]_tracerVars => TypesInv'
  BY ProbesStep, WorldStep, StateStep, ShapedStep DEF TypesInv

(* The state of the replay is well typed: what a handler looks up, a parent *)
(* in cwd_cache, a descriptor in fd_map, is always of the right kind, as an  *)
(* event has every field its handler reads.                                 *)
THEOREM TracerTypeCorrect == TSpec => []TracerTypeOK
<1>1. TypesInv => TracerTypeOK
  BY DEF TypesInv, ProbesInv, WorldOK, BaseOK, StateOK, Base, TracerTypeOK
<1> QED
  BY <1>1, TypesInit, TypesStep, PTL DEF TSpec
=============================================================================
