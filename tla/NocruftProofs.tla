--------------------------- MODULE NocruftProofs ---------------------------
(* What holds of a whole run of nocruft, for every set of tasks, every size *)
(* of the maps and the ring, every cap and every number of drain polls: the *)
(* summary covers what the root has left in the ring, and the report is a   *)
(* report in the sense of Ledger.                                           *)
EXTENDS Nocruft, ReplayProofs

-----------------------------------------------------------------------------
(* A step of the system is a step of the tracer, or none of its.            *)
LEMMA StepOfTracer == [NNext]_systemVars => [TNext]_tracerVars
<1> SUFFICES ASSUME [NNext]_systemVars PROVE [TNext]_tracerVars
  OBVIOUS
<1>1. CASE UNCHANGED systemVars
  BY <1>1 DEF systemVars
<1>2. CASE ParseArgs \/ CheckKernel \/ LoadProbes \/ IgnoreSignals \/ PollReturn
           \/ DrainReturn \/ DrainEnd \/ Emit \/ Interrupt \/ \E t \in Task : Submit(t)
  BY <1>2 DEF ParseArgs, CheckKernel, LoadProbes, IgnoreSignals, PollReturn, DrainReturn,
              DrainEnd, Emit, Interrupt, Submit
<1>3. CASE SpawnRoot \/ ReadCwd \/ SeedPid \/ PollEvent \/ TryWait
  BY <1>3 DEF SpawnRoot, ReadCwd, SeedPid, PollEvent, TryWait, TNext
<1>4. CASE TaskStep
  BY <1>4 DEF TaskStep, TNext
<1> QED
  BY <1>1, <1>2, <1>3, <1>4 DEF NNext, MainStep

SystemInv == ProbesInv /\ CaptureInv

LEMMA SystemInit == NInit => SystemInv
  BY ProbesInit, CaptureInit DEF NInit, SystemInv

LEMMA SystemStep == SystemInv /\ [NNext]_systemVars => SystemInv'
  BY StepOfTracer, ProbesStep, CaptureStep DEF SystemInv

-----------------------------------------------------------------------------
(* The debt main has at the root's death is paid by the first poll of the   *)
(* drain that runs until the ring is empty, if one does.                    *)
DrainInv ==
  /\ MainTypeOK
  /\ pc \in {"parse", "check", "load", "signals", "spawn", "seed_cwd", "seed_pid", "poll",
             "try_wait"} => drained = 0
  /\ pc = "drain" /\ cut < drained => consumed >= owed
  /\ RootEventsHandled

LEMMA DrainInit == NInit => DrainInv
<1> SUFFICES ASSUME NInit PROVE DrainInv
  OBVIOUS
<1>1. /\ pc = "parse" /\ drained = 0 /\ owed = 0 /\ cut = 0 /\ sigint_ignored \in BOOLEAN
      /\ 0 \in 0..DrainPolls
  <2>1. pc = "parse" /\ drained = 0 /\ owed = 0 /\ cut = 0 /\ sigint_ignored = FALSE
    BY DEF NInit
  <2>2. 0 \in 0..DrainPolls
    BY DrainAssumption
  <2> QED
    BY <2>1, <2>2
<1>2. 0 \in 0..Len(log) /\ 0 \in 0..0
  BY DEF NInit, TInit, Init
<1>3. held \in [Task -> 0..Len(log)]
  BY <1>2 DEF NInit
<1> QED
  BY <1>1, <1>2, <1>3 DEF DrainInv, MainTypeOK, RootEventsHandled

(* A task holds the place of an event of the log, or none.                  *)
LEMMA HeldStep ==
  ASSUME held \in [Task -> 0..Len(log)], Len(log) \in Nat, Len(log') \in Nat,
         Len(log) <= Len(log'), [NNext]_systemVars
  PROVE  held' \in [Task -> 0..Len(log')]
<1>1. CASE UNCHANGED held
  BY <1>1
<1>2. ASSUME NEW tasks, Hold(tasks) PROVE held' \in [Task -> 0..Len(log')]
  BY <1>2 DEF Hold
<1>3. CASE TaskStep
  BY <1>1, <1>2, <1>3 DEF TaskStep
<1>4. ASSUME NEW t \in Task, Submit(t) PROVE held' \in [Task -> 0..Len(log')]
  BY <1>4 DEF Submit
<1>5. CASE MainStep \/ Interrupt \/ UNCHANGED systemVars
  BY <1>1, <1>5 DEF MainStep, ParseArgs, CheckKernel, LoadProbes, IgnoreSignals, SpawnRoot,
     ReadCwd, SeedPid, PollEvent, PollReturn, TryWait, DrainReturn, DrainEnd, Emit, Interrupt,
     Stay, mainVars, systemVars
<1> QED
  BY <1>3, <1>4, <1>5 DEF NNext

LEMMA DrainStep == SystemInv /\ DrainInv /\ [NNext]_systemVars => DrainInv'
<1> SUFFICES ASSUME SystemInv, DrainInv, [NNext]_systemVars PROVE DrainInv'
  OBVIOUS
<1>1. /\ Len(log) \in Nat /\ consumed \in 0..Len(log) /\ drained \in 0..DrainPolls
      /\ owed \in 0..Len(log) /\ DrainPolls \in Nat \ {0} /\ sigint_ignored \in BOOLEAN
      /\ cut \in 0..drained
  BY DrainAssumption DEF SystemInv, ProbesInv, TypeOK, DrainInv, MainTypeOK
<1>2. Len(log') \in Nat /\ Len(log) <= Len(log')
  BY StepOfTracer, LogGrows DEF SystemInv, Grown
<1>3. consumed' \in Nat /\ consumed <= consumed'
  BY <1>1, StepOfTracer, CaptureSteps DEF Aside, Skips, Captures, Takes
<1> DEFINE HeldOK == held' \in [Task -> 0..Len(log')]
<1>13. HeldOK
  BY <1>1, <1>2, HeldStep DEF DrainInv, MainTypeOK
<1> HIDE DEF HeldOK
(* The debt stands, and main stays or goes on before the drain.             *)
<1>4. ASSUME UNCHANGED <<pc, drained, sigint_ignored, owed, cut>> PROVE DrainInv'
  BY <1>1, <1>2, <1>3, <1>4, <1>13 DEF DrainInv, MainTypeOK, RootEventsHandled, HeldOK
<1>5. ASSUME UNCHANGED <<drained, owed, cut>>, sigint_ignored' \in BOOLEAN,
             pc \in {"parse", "check", "load", "signals", "spawn", "seed_cwd", "seed_pid",
                     "poll", "try_wait"},
             pc' \in {"check", "load", "signals", "spawn", "seed_cwd", "seed_pid", "poll",
                      "try_wait", "failed"}
      PROVE  DrainInv'
  BY <1>1, <1>2, <1>5, <1>13 DEF DrainInv, MainTypeOK, RootEventsHandled, Stopped, HeldOK
<1>6. CASE UNCHANGED systemVars \/ PollEvent \/ TaskStep \/ \E t \in Task : Submit(t)
  BY <1>4, <1>6 DEF systemVars, mainVars, PollEvent, TaskStep, Submit
<1>7. CASE ParseArgs \/ CheckKernel \/ LoadProbes \/ IgnoreSignals \/ SpawnRoot \/ ReadCwd
           \/ SeedPid \/ PollReturn
  BY <1>1, <1>5, <1>7 DEF ParseArgs, CheckKernel, LoadProbes, IgnoreSignals, SpawnRoot,
     ReadCwd, SeedPid, PollReturn, Goto, Stay
<1>8. CASE TryWait
  <2>1. CASE TReap /\ Goto("drain") /\ owed' = Len(log)
    <3>1. drained' = 0 /\ pc' = "drain" /\ UNCHANGED <<sigint_ignored, cut>> /\ drained = 0
      BY <1>8, <2>1 DEF TryWait, Goto, DrainInv
    <3> QED
      BY <1>1, <1>2, <1>13, <2>1, <3>1 DEF DrainInv, MainTypeOK, RootEventsHandled, HeldOK
  <2> QED
    BY <1>1, <1>5, <1>8, <2>1 DEF TryWait, Goto
<1>9. CASE DrainReturn
  <2>1. /\ pc = "drain" /\ pc' = "drain" /\ drained < DrainPolls /\ drained' = drained + 1
        /\ cut' = IF consumed < Len(log) THEN cut + 1 ELSE cut
        /\ UNCHANGED <<sigint_ignored, owed, log, consumed>>
    BY <1>9 DEF DrainReturn, tracerVars, vars
  <2>2. cut' \in 0..drained' /\ drained' \in 0..DrainPolls
    BY <1>1, <2>1
  <2>3. cut' < drained' => consumed' >= owed'
    BY <1>1, <2>1 DEF DrainInv
  <2> QED
    BY <1>1, <1>13, <2>1, <2>2, <2>3 DEF DrainInv, MainTypeOK, RootEventsHandled, HeldOK
<1>10. CASE DrainEnd
  <2>1. /\ pc = "drain" /\ pc' = "emit" /\ drained = DrainPolls
        /\ UNCHANGED <<drained, sigint_ignored, owed, cut, log, consumed>>
    BY <1>1, <1>10 DEF DrainEnd, Goto, Stay, tracerVars, vars
  <2> QED
    BY <1>1, <1>13, <2>1 DEF DrainInv, MainTypeOK, RootEventsHandled, HeldOK
<1>11. CASE Emit
  <2>1. /\ pc = "emit" /\ pc' = "done"
        /\ UNCHANGED <<drained, sigint_ignored, owed, cut, log, consumed>>
    BY <1>11 DEF Emit, Goto, Stay, tracerVars, vars
  <2> QED
    BY <1>1, <1>13, <2>1 DEF DrainInv, MainTypeOK, RootEventsHandled, Stopped, HeldOK
<1>12. CASE Interrupt
  <2>1. pc' = "killed" /\ UNCHANGED <<drained, sigint_ignored, owed, cut, log, consumed>>
    BY <1>12 DEF Interrupt, Goto, Stay, tracerVars, vars
  <2> QED
    BY <1>1, <1>13, <2>1 DEF DrainInv, MainTypeOK, RootEventsHandled, Stopped, HeldOK
<1> QED
  BY <1>6, <1>7, <1>8, <1>9, <1>10, <1>11, <1>12 DEF NNext, MainStep

(* Whatever was in the ring when the root was found dead is handled before  *)
(* the summary, if one poll of the drain, whichever, ran until the ring was *)
(* empty: for any ring, any positive number of polls, and other polls that  *)
(* fail or stop at an event that is not submitted (main.rs:163).            *)
THEOREM RootEventsAreHandled == NSpec => []RootEventsHandled
<1>1. DrainInv => RootEventsHandled
  BY DEF DrainInv
<1> QED
  BY <1>1, SystemInit, SystemStep, DrainInit, DrainStep, PTL DEF NSpec

(* main is always at one of its labels, has polled no more often than the   *)
(* drain does, and owes no more than what was reserved (main.rs:163).       *)
THEOREM MainTypeCorrect == NSpec => []MainTypeOK
<1>1. DrainInv => MainTypeOK
  BY DEF DrainInv
<1> QED
  BY <1>1, SystemInit, SystemStep, DrainInit, DrainStep, PTL DEF NSpec

-----------------------------------------------------------------------------
(* The report is a Ledger.                                                  *)
Clock == Len(done)
MadeCalls == {d \in 1..Len(done) : Creates(done[d].call)}
Told == [i \in 1..Len(events) |-> origin[events[i].seq]]

LEMMA LedgerStart == NInit => Report!LedgerInit
<1> SUFFICES ASSUME NInit PROVE Report!LedgerInit
  OBVIOUS
<1>1. done = <<>> /\ events = <<>>
  BY DEF NInit, TInit, Init
<1>2. MadeCalls = {}
  BY <1>1 DEF MadeCalls
<1>3. Told = <<>>
  BY <1>1 DEF Told
<1> QED
  BY <1>1, <1>2, <1>3 DEF Report!LedgerInit, MadeCalls, Told

(* What a captured event tells of does not change.                          *)
LEMMA ToldStays ==
  ASSUME SystemInv, [TNext]_tracerVars
  PROVE  \A i \in 1..Len(events) : origin'[events[i].seq] = origin[events[i].seq]
<1>1. consumed \in 0..Len(log) /\ Len(log) \in Nat
  BY DEF SystemInv, ProbesInv, TypeOK
<1>2. \A i \in 1..Len(events) : events[i].seq \in 1..Len(log)
  BY <1>1 DEF SystemInv, CaptureInv, Made
<1> QED
  BY <1>2, LogGrows DEF SystemInv, Grown

(* A completed call is a step of the ledger, or none.                       *)
LEMMA CompleteStep ==
  ASSUME SystemInv, [TNext]_tracerVars, UNCHANGED events
  PROVE  [Report!Complete]_<<Clock, MadeCalls, Told>>
<1>1. Told' = Told
  BY ToldStays DEF Told
<1>2. CASE UNCHANGED done
  BY <1>1, <1>2 DEF Clock, MadeCalls
<1>3. ASSUME NEW d, done' = Append(done, d) PROVE Report!Complete
  <2>1. Plain(done)
    BY DEF SystemInv, ProbesInv, TypeOK, Plain
  <2>2. /\ Len(done') = Len(done) + 1 /\ Len(done) \in Nat
        /\ \A i \in 1..Len(done) : done'[i] = done[i]
    BY <1>3, <2>1, AppendPlain DEF Plain
  <2>3. /\ 1..Len(done') = 1..Len(done) \cup {Len(done')}
        /\ Len(done') \notin 1..Len(done)
    BY <2>2
  <2>4. MadeCalls' \in {MadeCalls, MadeCalls \cup {Len(done')}}
    <3>1. CASE Creates(done'[Len(done')].call)
      BY <2>2, <2>3, <3>1 DEF MadeCalls
    <3>2. CASE ~Creates(done'[Len(done')].call)
      BY <2>2, <2>3, <3>2 DEF MadeCalls
    <3> QED
      BY <3>1, <3>2
  <2> QED
    BY <1>1, <2>2, <2>4 DEF Report!Complete, MadeCalls, Told
<1> QED
  BY <1>2, <1>3, LogGrows DEF SystemInv, Grown

(* A captured event tells of a call that made a file, later than all told.  *)
LEMMA TellStep ==
  ASSUME SystemInv, [TNext]_tracerVars, Captures, Len(events) < MAX_EVENTS,
         events' = Append(events, Captured(log[consumed + 1]))
  PROVE  Report!Tell
<1> DEFINE n == consumed + 1
           m == origin[n]
           e == Captured(log[n])
<1>1. n \in 1..Len(log) /\ log[n].etype \in CreationEvent /\ UNCHANGED <<origin, done>>
  BY DEF Captures, Takes, SystemInv, ProbesInv, TypeOK
<1>2. m # 0
  BY <1>1 DEF SystemInv, ProbesInv, GenuineInv, Genuine, CreationEvent, LifeEtype,
              EV_FORK_TRACKED, EV_EXIT_TRACKED, EV_OPENAT_CREATE
<1>3. m \in 1..Len(done)
  BY <1>1, <1>2 DEF SystemInv, ProbesInv, GenuineInv, TypeOK
<1>4. m \in MadeCalls
  BY <1>1, <1>2, <1>3 DEF SystemInv, ProbesInv, GenuineInv, Genuine, Reports, MadeCalls
<1>5. \A i \in 1..Len(events) : Told[i] < m
  <2> TAKE i \in 1..Len(events)
  <2> DEFINE k == events[i].seq
  <2>1. k \in 1..Len(log) /\ k < n /\ log[k].etype \in CreationEvent
    BY <1>1 DEF SystemInv, ProbesInv, TypeOK, CaptureInv, Made
  <2>2. origin[k] # 0
    BY <2>1 DEF SystemInv, ProbesInv, GenuineInv, Genuine, CreationEvent, LifeEtype,
                EV_FORK_TRACKED, EV_EXIT_TRACKED, EV_OPENAT_CREATE
  <2> QED
    BY <1>1, <1>2, <2>1, <2>2 DEF SystemInv, ProbesInv, GenuineInv, Genuine, Told
<1>6. e.seq = n
  BY DEF Captured
<1> HIDE DEF e
<1>7. /\ Len(events') = Len(events) + 1 /\ Len(events) \in Nat
      /\ \A i \in 1..Len(events) : events'[i] = events[i]
      /\ events'[Len(events) + 1] = e
  BY AppendPlain DEF SystemInv, CaptureInv, Plain, e
<1> HIDE DEF m
<1>8. Told' = Append(Told, m)
  <2>1. Len(Told) = Len(events) /\ Plain(Told)
    BY <1>7 DEF Told, Plain
  <2>2. /\ Plain(Append(Told, m)) /\ Len(Append(Told, m)) = Len(events) + 1
        /\ \A i \in 1..Len(events) : Append(Told, m)[i] = Told[i]
        /\ Append(Told, m)[Len(events) + 1] = m
    BY <2>1, AppendPlain
  <2>3. \A i \in 1..Len(events) + 1 :
          origin'[events'[i].seq] = Append(Told, m)[i]
    <3> TAKE i \in 1..Len(events) + 1
    <3>1. CASE i \in 1..Len(events)
      BY <1>7, <2>2, <3>1, ToldStays DEF Told
    <3>2. CASE i = Len(events) + 1
      BY <1>1, <1>6, <1>7, <2>2, <3>2 DEF m
    <3>3. i \in 1..Len(events) \/ i = Len(events) + 1
      BY <1>7
    <3> QED
      BY <3>1, <3>2, <3>3
  <2>4. Told' = [i \in 1..Len(events) + 1 |-> origin'[events'[i].seq]]
    BY <1>7 DEF Told
  <2>5. Append(Told, m) = [i \in 1..Len(events) + 1 |-> Append(Told, m)[i]]
    BY <2>2 DEF Plain
  <2> QED
    BY <2>3, <2>4, <2>5
<1>9. Len(Told) = Len(events)
  BY <1>7 DEF Told
<1>10. UNCHANGED <<Clock, MadeCalls>>
  BY <1>1 DEF Clock, MadeCalls
<1> QED
  BY <1>4, <1>5, <1>8, <1>9, <1>10 DEF Report!Tell, Clock, MadeCalls, Told

LEMMA LedgerStep ==
  SystemInv /\ [NNext]_systemVars => [Report!Complete \/ Report!Tell]_(Report!ledgerVars)
<1> SUFFICES ASSUME SystemInv, [NNext]_systemVars
             PROVE  [Report!Complete \/ Report!Tell]_<<Clock, MadeCalls, Told>>
  BY DEF Report!ledgerVars, Clock, MadeCalls, Told
<1>1. [TNext]_tracerVars
  BY StepOfTracer
<1>2. CASE UNCHANGED events
  BY <1>1, <1>2, CompleteStep
<1>3. CASE Captures /\ ~(UNCHANGED events)
  BY <1>1, <1>3, TellStep DEF Captures, push_event
<1> QED
  BY <1>1, <1>2, <1>3, CaptureSteps DEF Aside, Skips, Untouched

(* Every run of nocruft is a run of the ledger: the report tells of files   *)
(* that were made, each at most once, in the order they were made, and of   *)
(* no more than the cap, whatever the tasks, the maps, the ring and Ctrl-C  *)
(* do.                                                                      *)
THEOREM ReportIsALedger == NSpec => ReportImplementsLedger
  BY SystemInit, SystemStep, LedgerStart, LedgerStep, PTL
  DEF NSpec, ReportImplementsLedger, Report!LedgerSpec
-----------------------------------------------------------------------------
(* The report is complete.  What the probes lose they name, close or not.   *)
LEMMA LossKept == ProbesInv /\ LossInv /\ [TNext]_tracerVars => LossInv'
<1> SUFFICES ASSUME ProbesInv, LossInv, [TNext]_tracerVars PROVE LossInv'
  OBVIOUS
<1>1. CASE [Next]_vars
  BY <1>1, LossStep DEF ProbesInv
<1>2. CASE Unseen
  BY <1>2 DEF Unseen, LossInv, NoSilentLoss, mapVars, historyVars
<1> QED
  BY <1>1, <1>2, StepOfProbes

(* Of what was taken from the ring nothing is missing from the capture      *)
(* until the warning is given.                                              *)
CompleteInv ==
  /\ overflow_warned \in BOOLEAN
  /\ ~overflow_warned => \A k \in Made : \E i \in 1..Len(events) : events[i].seq = k

LEMMA CompleteInit == NInit => CompleteInv
<1> SUFFICES ASSUME NInit PROVE CompleteInv
  OBVIOUS
<1>1. overflow_warned = FALSE
  BY DEF NInit, TInit
<1>2. Made = {}
  BY DEF NInit, TInit, Init, Made
<1> QED
  BY <1>1, <1>2, Zenon DEF CompleteInv

LEMMA CompleteKept ==
  ProbesInv /\ CaptureInv /\ CompleteInv /\ [TNext]_tracerVars => CompleteInv'
<1> SUFFICES ASSUME ProbesInv, CaptureInv, CompleteInv, [TNext]_tracerVars PROVE CompleteInv'
  OBVIOUS
<1>1. CASE Aside \/ Skips
  BY <1>1, MadeStays DEF Aside, Skips, Untouched, CompleteInv
<1>2. CASE Captures
  <2> DEFINE e == Captured(log[consumed + 1])
  <2>1. Made' = Made \cup {consumed + 1}
    BY <1>2, MadeStays
  <2>2. e.seq = consumed + 1
    BY DEF Captured
  <2>3. \/ overflow_warned' = TRUE
        \/ events' = Append(events, e) /\ UNCHANGED overflow_warned
    BY <1>2 DEF Captures, push_event
  <2> HIDE DEF e
  <2>4. CASE overflow_warned' = TRUE
    BY <2>4 DEF CompleteInv
  <2>5. CASE events' = Append(events, e) /\ UNCHANGED overflow_warned
    <3>1. /\ Len(events') = Len(events) + 1 /\ Len(events) \in Nat
          /\ \A i \in 1..Len(events) : events'[i] = events[i]
          /\ events'[Len(events) + 1] = e
      BY <2>5, AppendPlain DEF CaptureInv, Plain
    <3>2. /\ Len(events) + 1 \in 1..Len(events')
          /\ \A i \in 1..Len(events) : i \in 1..Len(events')
      BY <3>1
    <3> QED
      BY <2>1, <2>2, <2>5, <3>1, <3>2 DEF CompleteInv
  <2> QED
    BY <2>3, <2>4, <2>5
<1> QED
  BY <1>1, <1>2, CaptureSteps

-----------------------------------------------------------------------------
(* Straight to the summary.  Before it is spawned the root cannot be gone,  *)
(* and before it is reaped its id is free for no one else.                  *)
StartInv ==
  /\ pc \in {"parse", "check", "load", "signals", "spawn"} => task[Root] = "free"
  /\ pc \notin {"drain", "emit"} \cup Stopped => ~reaped

LEMMA StartInit == NInit => StartInv
  BY TaskAssumption DEF NInit, TInit, Init, StartInv

(* A task of the kernel does nothing to the root before it is spawned, and  *)
(* nothing to its corpse.                                                   *)
RootKept ==
  /\ RootDead /\ ~reaped => RootDead'
  /\ task[Root] = "free" /\ ~reaped => task'[Root] = "free"
  /\ UNCHANGED reaped

LEMMA RootLeftAlone ==
  ASSUME TypeOK, LossInv, lead \in [Task -> Task], held \in [Task -> 0..Len(log)],
         TaskStep \/ \E t \in Task : Submit(t)
  PROVE  RootKept
<1>1. /\ task \in [Task -> {"free", "running", "zombie"}] /\ Root \in Task
      /\ lead \in [Task -> Task]
  BY TaskAssumption DEF TypeOK
<1>2. ASSUME NEW T, Hold(T), Root \notin T, held[Root] = 0 PROVE held'[Root] = 0
  BY <1>1, <1>2 DEF Hold
<1>3. ASSUME NEW p \in Task, NEW c \in Task, TFork(p, c), Hold({p, c}) PROVE RootKept
  <2>1. /\ task[p] = "running" /\ task[c] = "free" /\ (c = Root => reaped)
        /\ task' = [task EXCEPT ![c] = "running"] /\ UNCHANGED reaped
        /\ lead' \in {[lead EXCEPT ![c] = c], [lead EXCEPT ![c] = lead[p]]}
    BY <1>3 DEF TFork, Fork
  <2>2. RootDead /\ ~reaped => RootDead'
    <3> SUFFICES ASSUME RootDead PROVE RootDead'
      OBVIOUS
    <3>1. p # Root /\ c # Root /\ lead[p] # Root
      BY <2>1 DEF RootDead, NoThreads
    <3>2. NoThreads(Root)'
      BY <1>1, <2>1, <3>1 DEF RootDead, NoThreads
    <3>3. held'[Root] = 0
      BY <1>2, <1>3, <3>1 DEF RootDead
    <3> QED
      BY <1>1, <2>1, <3>1, <3>2, <3>3 DEF RootDead
  <2> QED
    BY <1>1, <2>1, <2>2 DEF RootKept
<1>4. ASSUME NEW t \in Task, TTaskExit(t), Hold({t}) PROVE RootKept
  <2>1. /\ task[t] = "running" /\ task' = [task EXCEPT ![t] = "zombie"]
        /\ UNCHANGED <<reaped, lead>>
    BY <1>4 DEF TTaskExit, TaskExit, worldVars
  <2>2. RootDead => RootDead'
    BY <1>1, <1>2, <1>4, <2>1 DEF RootDead, NoThreads
  <2> QED
    BY <1>1, <2>1, <2>2 DEF RootKept
<1>5. ASSUME NEW t \in Task, TRelease(t), UNCHANGED held PROVE RootKept
  <2>1. /\ task[t] = "zombie" /\ task' = [task EXCEPT ![t] = "free"] /\ (t = Root => reaped)
        /\ lead' = [lead EXCEPT ![t] = t] /\ UNCHANGED reaped
    BY <1>5 DEF TRelease, Release
  <2>2. RootDead /\ ~reaped => RootDead'
    BY <1>1, <1>5, <2>1 DEF RootDead, NoThreads
  <2> QED
    BY <1>1, <2>1, <2>2 DEF RootKept
<1>6. ASSUME NEW t \in Task, NEW ret, TSysExit(t, ret), Hold({t}) PROVE RootKept
  <2>1. UNCHANGED <<task, reaped, lead>> /\ call[t] # None
    BY <1>6 DEF TSysExit, SysExit
  <2>2. RootDead => t # Root
    BY <2>1 DEF RootDead, LossInv
  <2> QED
    BY <1>2, <1>6, <2>1, <2>2 DEF RootKept, RootDead, NoThreads
<1>7. CASE UNCHANGED <<task, reaped, lead, held>>
  BY <1>7 DEF RootKept, RootDead, NoThreads
<1>8. CASE \E t \in Task, fd \in Fd : Close(t, fd) /\ UNCHANGED held
  BY <1>7, <1>8 DEF Close
<1>9. CASE \E t \in Task, c \in Call : TSysEnter(t, c) /\ UNCHANGED held
  BY <1>7, <1>9 DEF TSysEnter, SysEnter, worldVars
<1>10. CASE \E t \in Task : Submit(t)
  BY <1>1, <1>10 DEF Submit, RootKept, RootDead, NoThreads, tracerVars, vars, worldVars
<1> QED
  BY <1>3, <1>4, <1>5, <1>6, <1>8, <1>9, <1>10 DEF TaskStep

WayInv == SystemInv /\ DrainInv /\ LossInv /\ StartInv /\ TypesInv

LEMMA WayLeftAlone ==
  ASSUME WayInv, TaskStep \/ \E t \in Task : Submit(t)
  PROVE  RootKept
  BY RootLeftAlone DEF WayInv, SystemInv, ProbesInv, DrainInv, MainTypeOK, TypesInv, WorldOK

LEMMA StartStep == WayInv /\ [NNext]_systemVars => StartInv'
<1> SUFFICES ASSUME WayInv, [NNext]_systemVars PROVE StartInv'
  OBVIOUS
<1>1. CASE UNCHANGED systemVars
  BY <1>1 DEF systemVars, mainVars, tracerVars, vars, kernelVars, StartInv, WayInv
<1>2. CASE ParseArgs \/ CheckKernel \/ LoadProbes \/ IgnoreSignals
  BY <1>2 DEF ParseArgs, CheckKernel, LoadProbes, IgnoreSignals, Goto, Stay, tracerVars, vars,
     kernelVars, StartInv, WayInv, Stopped
<1>3. CASE SpawnRoot \/ ReadCwd \/ SeedPid \/ PollEvent \/ PollReturn
  <2>1. /\ pc' \notin {"parse", "check", "load", "signals", "spawn"} /\ UNCHANGED reaped
        /\ pc \notin {"drain", "emit"} \cup Stopped \/ pc' = pc
    BY <1>3 DEF SpawnRoot, TSpawn, Spawn, ReadCwd, SeedCwd, SeedPid, TSeed, Seed, PollEvent,
       TConsume, Consume, PollReturn, Goto, mainVars, tracerVars, vars, Stopped
  <2> QED
    BY <2>1 DEF StartInv, WayInv
<1>5. CASE TryWait \/ DrainReturn \/ DrainEnd \/ Emit \/ Interrupt
  <2>1. /\ pc' \notin {"parse", "check", "load", "signals", "spawn"}
        /\ \/ pc' \in {"drain", "emit"} \cup Stopped
           \/ pc = "try_wait" /\ UNCHANGED reaped
    BY <1>5 DEF TryWait, DrainReturn, DrainEnd, Emit, Interrupt, Goto, tracerVars, vars, Stopped
  <2> QED
    BY <2>1 DEF StartInv, WayInv, Stopped
<1>4. CASE TaskStep \/ \E t \in Task : Submit(t)
  <2>1. UNCHANGED pc
    BY <1>4 DEF TaskStep, Submit
  <2>2. RootKept
    BY <1>4, WayLeftAlone DEF WayInv
  <2>3. pc \notin {"drain", "emit"} \cup Stopped => ~reaped'
    BY <2>2 DEF WayInv, StartInv, RootKept
  <2>4. pc \in {"parse", "check", "load", "signals", "spawn"} => task'[Root] = "free"
    <3>1. pc \in {"parse", "check", "load", "signals", "spawn"} => task[Root] = "free" /\ ~reaped
      BY DEF WayInv, StartInv, Stopped
    <3> QED
      BY <2>2, <3>1 DEF RootKept
  <2> QED
    BY <2>1, <2>3, <2>4 DEF StartInv
<1> QED
  BY <1>1, <1>2, <1>3, <1>4, <1>5 DEF NNext, MainStep

LEMMA WayInit == NInit => WayInv
  BY SystemInit, DrainInit, LossInit, StartInit, TypesInit DEF NInit, TInit, WayInv

LEMMA WayStep == WayInv /\ [NNext]_systemVars => WayInv'
  BY SystemStep, DrainStep, LossKept, StartStep, TypesStep, StepOfTracer DEF WayInv, SystemInv

Nearer == Distance' \in 0..(Distance - 1)

LEMMA StraightStep ==
  ASSUME WayInv, [NNext]_systemVars, RootGone
  PROVE  /\ RootGone' \/ pc' \in Stopped
         /\ MainStep => Nearer
<1>1. /\ Len(log) \in Nat /\ consumed \in 0..Len(log)
      /\ drained \in 0..DrainPolls /\ DrainPolls \in Nat
  BY DrainAssumption DEF WayInv, SystemInv, ProbesInv, TypeOK, DrainInv, MainTypeOK
<1>2. pc \notin {"parse", "check", "load", "signals", "spawn"}
  BY DEF WayInv, StartInv, RootGone, RootDead
(* A step within the system that leaves tasks and log alone.                *)
<1>3. ASSUME UNCHANGED <<log, consumed, drained, task, lead, held>>,
             <<pc, pc'>> \in {<<"seed_cwd", "seed_pid">>, <<"seed_pid", "poll">>,
               <<"poll", "try_wait">>, <<"drain", "emit">>, <<"emit", "done">>,
               <<"seed_pid", "failed">>, <<"try_wait", "failed">>}
      PROVE  (RootGone' \/ pc' \in Stopped) /\ Nearer
  <2>1. LabelsLeft \in 1..6 /\ LabelsLeft' \in 0..(LabelsLeft - 1)
    BY <1>3 DEF LabelsLeft
  <2>2. Nearer
    BY <1>1, <1>3, <2>1 DEF Nearer, Distance
  <2>3. RootGone' \/ pc' \in Stopped
    BY <1>3 DEF RootGone, RootDead, NoThreads, Stopped
  <2> QED
    BY <2>2, <2>3
<1>4. CASE ReadCwd \/ SeedPid \/ PollReturn \/ DrainEnd \/ Emit
  BY <1>3, <1>4 DEF ReadCwd, SeedCwd, SeedPid, TSeed, Seed, PollReturn, DrainEnd, Emit, Goto,
     Stay, tracerVars, vars, kernelVars, worldVars
<1>5. CASE PollEvent
  <2>1. /\ UNCHANGED <<pc, drained, log, task, lead, held>>
        /\ consumed < Len(log) /\ consumed' = consumed + 1
    BY <1>5 DEF PollEvent, TConsume, Consume, mainVars, kernelVars, mapVars, worldVars
  <2>2. LabelsLeft' = LabelsLeft /\ LabelsLeft \in Nat
    BY <2>1 DEF LabelsLeft
  <2>3. RootGone'
    BY <2>1 DEF RootGone, RootDead, NoThreads
  <2>4. Nearer
    BY <1>1, <2>1, <2>2 DEF Nearer, Distance
  <2> QED
    BY <2>3, <2>4
<1>6. CASE TryWait
  <2>1. pc = "try_wait" /\ UNCHANGED <<drained, held>> /\ RootDead
    BY <1>6 DEF TryWait, RootGone
  <2>2. CASE TReap /\ Goto("drain")
    <3>1. UNCHANGED <<log, consumed>> /\ pc' = "drain"
      BY <2>2 DEF TReap, Reap, Goto, mapVars
    <3> QED
      BY <1>1, <2>1, <3>1 DEF RootGone, Nearer, Distance, LabelsLeft
  <2>3. CASE Goto("failed") /\ UNCHANGED <<owed, tracerVars>>
    BY <1>3, <2>1, <2>3 DEF Goto, tracerVars, vars, kernelVars, worldVars
  <2> QED
    BY <1>6, <2>1, <2>2, <2>3 DEF TryWait
<1>7. CASE DrainReturn
  <2>1. /\ pc = "drain" /\ pc' = "drain" /\ drained < DrainPolls /\ drained' = drained + 1
        /\ UNCHANGED <<log, consumed>>
    BY <1>7 DEF DrainReturn, tracerVars, vars
  <2> QED
    BY <1>1, <2>1 DEF RootGone, Nearer, Distance, LabelsLeft
<1>8. CASE ParseArgs \/ CheckKernel \/ LoadProbes \/ IgnoreSignals \/ SpawnRoot
  BY <1>2, <1>8 DEF ParseArgs, CheckKernel, LoadProbes, IgnoreSignals, SpawnRoot
<1>9. MainStep => (RootGone' \/ pc' \in Stopped) /\ Nearer
  BY <1>4, <1>5, <1>6, <1>7, <1>8 DEF MainStep
<1>10. CASE TaskStep \/ \E t \in Task : Submit(t)
  <2>1. UNCHANGED pc
    BY <1>10 DEF TaskStep, Submit
  <2>2. RootKept
    BY <1>10, WayLeftAlone
  <2>3. RootGone' \/ pc' \in Stopped
    BY <2>1, <2>2 DEF WayInv, StartInv, RootKept, RootGone
  <2> QED
    BY <1>9, <2>3
<1>11. CASE UNCHANGED systemVars
  <2>1. UNCHANGED <<pc, task, lead, held>>
    BY <1>11 DEF systemVars, mainVars, tracerVars, vars, kernelVars, worldVars
  <2>2. RootGone'
    BY <2>1 DEF RootGone, RootDead, NoThreads
  <2> QED
    BY <1>9, <2>2
<1>12. CASE Interrupt
  BY <1>9, <1>12 DEF Interrupt, Goto, Stopped
<1> QED
  BY <1>9, <1>10, <1>11, <1>12 DEF NNext

(* The way from the root's exit to the end of main has no branch that waits *)
(* and no way back, for any ring and any number of polls: what remains of   *)
(* it gets shorter with each step of main (main.rs:156-167).                *)
THEOREM StraightAhead == NSpec => StraightToSummary
<1>1. WayInv /\ [NNext]_systemVars =>
        [RootGone => /\ RootGone' \/ pc' \in Stopped
                     /\ MainStep => Distance' \in 0..(Distance - 1)]_systemVars
  BY StraightStep DEF Nearer
<1> QED
  BY <1>1, WayInit, WayStep, PTL DEF NSpec, StraightToSummary

-----------------------------------------------------------------------------
(* A plain run.  Without threads every task has a cwd of its own; the seed  *)
(* comes behind the read of the root's cwd, and before it nothing is        *)
(* stashed and no one but the root is there.                                *)
SeedInv ==
  /\ ThreadClone \subseteq {FALSE} => \A t \in Task : lead[t] = t
  /\ seeded => probed
  /\ probed => task[Root] # "free" \/ reaped
  /\ \A t \in tree : task[t] = "running"
  /\ ~seeded => \A t \in Task : enter_ctx[t] = None

LEMMA SeedInit == TInit => SeedInv
  BY DEF TInit, Init, SeedInv

LEMMA SeedKept == GroundInv /\ SeedInv /\ [TNext]_tracerVars => SeedInv'
<1> SUFFICES ASSUME GroundInv, SeedInv, [TNext]_tracerVars PROVE SeedInv'
  OBVIOUS
<1> USE DEF SeedInv
<1>1. TypeOK /\ TrackedInv /\ lead \in [Task -> Task]
  BY DEF GroundInv, WatchInv, ProbesInv, TypesInv, WorldOK
<1>2. CASE UNCHANGED tracerVars
  BY <1>2 DEF tracerVars, vars, worldVars
<1>3. CASE TSpawn
  <2>1. /\ task' = [task EXCEPT ![Root] = "running"] /\ tree' = tree \cup {Root}
        /\ UNCHANGED <<lead, seeded, reaped, probed, enter_ctx>>
    BY <1>3 DEF TSpawn, Spawn, worldVars, mapVars
  <2>2. task'[Root] = "running" /\ \A t \in tree' : task'[t] = "running"
    BY <1>1, <2>1, TaskAssumption DEF TypeOK
  <2> QED
    BY <2>1, <2>2
<1>4. CASE SeedCwd
  BY <1>4 DEF SeedCwd, vars, worldVars
<1>5. CASE TSeed
  BY <1>5 DEF TSeed, Seed, worldVars, kernelVars
<1>6. CASE TReap
  <2>1. \A t \in Task : t # Root => task'[t] = task[t]
    BY <1>1, <1>6 DEF TReap, Reap, TypeOK
  <2>2. Root \notin tree
    BY <1>6 DEF TReap, Reap
  <2>3. lead' = [lead EXCEPT ![Root] = Root] /\ reaped'
        /\ UNCHANGED <<tree, probed, seeded, enter_ctx>>
    BY <1>6 DEF TReap, Reap, mapVars, historyVars
  <2>4. ThreadClone \subseteq {FALSE} => \A u \in Task : lead'[u] = u
    BY <1>1, <2>3
  <2>5. \A u \in tree' : task'[u] = "running"
    BY <1>1, <2>1, <2>2, <2>3 DEF TypeOK
  <2> QED
    BY <2>3, <2>4, <2>5
<1>7. CASE TConsume
  BY <1>7 DEF TConsume, Consume, worldVars, kernelVars, mapVars, historyVars
<1>8. ASSUME NEW p \in Task, NEW c \in Task, TFork(p, c) PROVE SeedInv'
  <2>1. Fork(p, c) /\ UNCHANGED <<probed, seeded, reaped, enter_ctx>>
    BY <1>8 DEF TFork, Fork
  <2>2. task' = [task EXCEPT ![c] = "running"] /\ tree' \subseteq tree \cup {c}
    BY <2>1 DEF Fork
  <2>3. ThreadClone \subseteq {FALSE} => lead' = [lead EXCEPT ![c] = c]
    BY <1>8 DEF TFork
  <2>4. ThreadClone \subseteq {FALSE} => \A t \in Task : lead'[t] = t
    BY <1>1, <2>3
  <2>5. \A t \in tree' : task'[t] = "running"
    BY <1>1, <2>2 DEF TypeOK
  <2>6. probed' => task'[Root] # "free" \/ reaped'
    BY <1>1, <2>1, <2>2 DEF TypeOK
  <2> QED
    BY <2>1, <2>4, <2>5, <2>6
<1>9. ASSUME NEW t \in Task, TTaskExit(t) PROVE SeedInv'
  <2>1. /\ task' = [task EXCEPT ![t] = "zombie"] /\ tree' = tree \ {t}
        /\ UNCHANGED <<lead, probed, seeded, reaped, enter_ctx>>
    BY <1>9 DEF TTaskExit, TaskExit, worldVars
  <2>2. \A u \in tree' : task'[u] = "running"
    BY <1>1, <2>1 DEF TypeOK
  <2>3. probed' => task'[Root] # "free" \/ reaped'
    BY <1>1, <2>1 DEF TypeOK
  <2> QED
    BY <2>1, <2>2, <2>3
<1>13. ASSUME NEW t \in Task, TRelease(t) PROVE SeedInv'
  <2>1. /\ task[t] = "zombie" /\ task' = [task EXCEPT ![t] = "free"] /\ (t = Root => reaped)
        /\ lead' = [lead EXCEPT ![t] = t]
        /\ UNCHANGED <<tree, probed, seeded, reaped, enter_ctx>>
    BY <1>13 DEF TRelease, Release, mapVars, historyVars
  <2>2. \A u \in tree' : task'[u] = "running"
    BY <1>1, <2>1 DEF TypeOK
  <2>3. probed' => task'[Root] # "free" \/ reaped'
    BY <1>1, <2>1 DEF TypeOK
  <2>4. ThreadClone \subseteq {FALSE} => \A u \in Task : lead'[u] = u
    BY <1>1, <2>1
  <2> QED
    BY <2>1, <2>2, <2>3, <2>4
<1>10. ASSUME NEW t \in Task, NEW fd \in Fd, Close(t, fd) PROVE SeedInv'
  BY <1>10 DEF Close, mapVars, historyVars
<1>11. ASSUME NEW t \in Task, NEW c \in Call, TSysEnter(t, c) PROVE SeedInv'
  <2>1. UNCHANGED <<task, tree, lead, seeded, probed, reaped>>
    BY <1>11 DEF TSysEnter, SysEnter, worldVars
  <2>2. ~seeded => UNCHANGED enter_ctx
    BY <1>1, <1>11 DEF TSysEnter, SysEnter, stash_enter, TrackedInv
  <2> QED
    BY <2>1, <2>2
<1>12. ASSUME NEW t \in Task, NEW ret \in Fd \cup {-1, 0}, TSysExit(t, ret) PROVE SeedInv'
  <2>1. UNCHANGED <<task, tree, lead, seeded, probed, reaped>>
    BY <1>12 DEF TSysExit, SysExit
  <2>2. ~seeded => UNCHANGED enter_ctx
    BY <1>12 DEF TSysExit, SysExit, emit_exit
  <2> QED
    BY <2>1, <2>2
<1> QED
  BY <1>2, <1>3, <1>4, <1>5, <1>6, <1>7, <1>8, <1>9, <1>10, <1>11, <1>12, <1>13 DEF TNext

(* Mishaps are not forgotten, and what was not plain does not become so.    *)
LEMMA PlainBefore ==
  ASSUME ProbesInv, [TNext]_tracerVars
  PROVE  /\ mishap' = {} => mishap = {}
         /\ PlainRun' => PlainRun
<1>1. mishap' = {} => mishap = {}
  <2>1. CASE Unseen
    BY <2>1 DEF Unseen, historyVars
  <2>2. CASE [Next]_vars
    BY <2>2 DEF Next, vars, Spawn, Seed, Reap, Consume, Fork, TaskExit, Release, SysEnter,
       SysExit, handle_fork, handle_exit, stash_enter, UpdateEnterCtx, emit_exit, Reserve, historyVars
  <2> QED
    BY <2>1, <2>2, StepOfProbes
<1>2. ASSUME PlainRun' PROVE PlainRun
  <2>1. Plain(done)
    BY DEF ProbesInv, TypeOK, Plain
  <2>2. /\ Len(done) \in Nat /\ Len(done') \in {Len(done), Len(done) + 1}
        /\ \A d \in 1..Len(done) : done'[d] = done[d]
    BY <2>1, LogGrows, AppendPlain DEF Grown, Plain
  <2>3. \A d \in 1..Len(done) : d \in 1..Len(done')
    BY <2>2
  <2> QED
    BY <1>2, <2>2, <2>3 DEF PlainRun, Fits, MovesCwd
<1> QED
  BY <1>1, <1>2

(* An event that gets into the ring makes the log longer.                   *)
LEMMA ReserveLogs ==
  ASSUME TypeOK, NEW e \in Event, NEW from, Reserve(e, from, {}), mishap' = {}
  PROVE  Logged
<1>1. log \in Seq(Event)
  BY DEF TypeOK
<1>2. log' = Append(log, e)
  BY DEF Reserve
<1>3. Len(log') = Len(log) + 1 /\ Len(log) \in Nat
  BY <1>1, <1>2, AppendFacts
<1> QED
  BY <1>3 DEF Logged

(* A task of the tree that moves is told of, and its move can be replayed.  *)
LEMMA MoveAccounted ==
  ASSUME GroundInv, SeedInv, LossInv, NEW t \in tree, NEW ret \in Fd \cup {-1, 0},
         TSysExit(t, ret), ret >= 0, MovesCwd(call[t]), mishap = {}, mishap' = {}, PlainRun',
         t \in known
  PROVE  Alone(t) /\ Logged /\ Replayable(t, call[t])
<1> DEFINE c == call[t]
           d == [task |-> t, call |-> c, ret |-> ret, member |-> t \in tree]
           e == SyscallEvent(t, Etype(c.sys, enter_ctx[t].flags), enter_ctx[t], ret)
<1>1. TypeOK /\ t \in Task /\ Plain(done)
  BY DEF GroundInv, TypesInv, ProbesInv, TypeOK, Plain
<1>2. c \in Call /\ c \in Args /\ ret \in Result(c) /\ emit_exit(t, c.sys, ret, Len(done'))
      /\ done' = IF Relevant(c) /\ ret >= 0 THEN Append(done, d) ELSE done
  BY <1>1, CallAssumption DEF TSysExit, SysExit, TypeOK
<1>3. c.sys \in {"chdir", "fchdir"} /\ Relevant(c)
  BY DEF MovesCwd, Relevant
<1>4. Alone(t)
  <2>1. \A u \in Task : lead[u] = u
    BY DEF SeedInv, PlainRun
  <2> QED
    BY <1>1, <2>1 DEF Alone, Sharers, SeedInv
<1>5. ret = 0 /\ Succeeded(c.sys, ret)
  BY <1>2, <1>3 DEF Result, Succeeded, Openers, OpenatFamily
<1>6. enter_ctx[t] # None
  BY <1>2, <1>3, CallAssumption DEF LossInv
<1>7. Logged
  <2>1. Reserve(e, Len(done'), {})
    BY <1>2, <1>5, <1>6 DEF emit_exit
  <2>2. e \in Event
    <3>1. enter_ctx[t] \in EnterArgs /\ c.sys \in Syscall /\ ret \in Int
      BY <1>1, <1>2, <1>5, <1>6 DEF TypeOK, Args
    <3> QED
      BY <1>1, <3>1, EtypeType, SyscallEventType
  <2> HIDE DEF e
  <2> QED
    BY <1>1, <2>1, <2>2, ReserveLogs
<1>8. c.path # None /\ Fits(c.path)
  <2>1. d.member /\ d.call = c
    OBVIOUS
  <2>2. done' = Append(done, d)
    BY <1>2, <1>3
  <2> HIDE DEF d, c
  <2>3. Len(done') \in 1..Len(done') /\ done'[Len(done')] = d
    BY <1>1, <2>2, AppendPlain DEF Plain
  <2>4. MovesCwd(d.call)
    BY <2>1 DEF c
  <2>5. done'[Len(done')].call.path # None /\ Fits(done'[Len(done')].call.path)
    BY <2>1, <2>3, <2>4 DEF PlainRun, Fits, MovesCwd
  <2> QED
    BY <2>1, <2>3, <2>5
<1>9. c.dirfd = AT_FDCWD
  BY <1>2, <1>3, <1>8, CallAssumption DEF DirfdCalls, OpenatFamily
<1> QED
  BY <1>4, <1>7, <1>8, <1>9 DEF Replayable

(* So the log accounts for the cwd of every task of the tree.               *)
LEMMA TreeKnown ==
  ASSUME GroundInv, SeedInv, LossInv, [TNext]_tracerVars, mishap' = {}, PlainRun',
         probed => tree \subseteq known
  PROVE  probed' => tree' \subseteq known'
<1>1. /\ TypeOK /\ TrackedInv /\ mishap = {} /\ PlainRun /\ tree \subseteq Task
      /\ cwd \in [Task -> Dir] /\ \A t \in Task : lead[t] = t
  <2>1. TypeOK /\ TrackedInv /\ ProbesInv /\ cwd \in [Task -> Dir]
    BY DEF GroundInv, WatchInv, ProbesInv, TypesInv, WorldOK
  <2>2. mishap = {} /\ PlainRun
    BY <2>1, PlainBefore
  <2> QED
    BY <2>1, <2>2 DEF TypeOK, PlainRun, SeedInv
<1>2. \A t \in tree : task[t] = "running"
  BY DEF SeedInv
<1>3. CASE UNCHANGED <<probed, tree, known>>
  BY <1>3
<1>4. CASE TSeed \/ TReap \/ TConsume \/ UNCHANGED tracerVars
           \/ (\E t \in Task, c \in Call : TSysEnter(t, c))
           \/ (\E t \in Task, fd \in Fd : Close(t, fd)) \/ (\E t \in Task : TRelease(t))
  BY <1>3, <1>4 DEF TSeed, TReap, TConsume, TSysEnter, Close, TRelease, Release, Seed, Reap,
     Consume, SysEnter, tracerVars, vars, replayVars, historyVars
<1>5. CASE TSpawn
  BY <1>5 DEF TSpawn, Spawn, SeedInv
<1>6. CASE SeedCwd
  <2>1. tree \subseteq {Root} /\ tree' = tree
    BY <1>1, <1>6 DEF SeedCwd, SeedInv, TrackedInv, vars
  <2>2. Root \in tree => proc_cwd(Root) # None /\ Alone(Root)
    <3> SUFFICES ASSUME Root \in tree PROVE proc_cwd(Root) # None /\ Alone(Root)
      OBVIOUS
    <3>1. Alone(Root)
      BY <1>1, <1>2, TaskAssumption DEF Alone, Sharers
    <3>2. proc_cwd(Root) \in Dir
      BY <1>1, <1>2, TaskAssumption DEF proc_cwd
    <3> QED
      BY <3>1, <3>2, PathAssumption
  <2> QED
    BY <1>6, <2>1, <2>2 DEF SeedCwd
<1>7. ASSUME NEW p \in Task, NEW c \in Task, TFork(p, c), probed
      PROVE  tree' \subseteq known'
  <2>1. /\ task[c] = "free" /\ tree' = IF p \in tree THEN tree \cup {c} ELSE tree
        /\ handle_fork(p, c)
    BY <1>7 DEF TFork, Fork
  <2>2. known' = (known \ {c}) \cup {u \in {c} : p \in known /\ Logged}
    BY <1>7 DEF TFork, PlainRun
  <2>3. c \notin tree
    BY <1>2, <2>1
  <2>4. p \in tree => Logged
    <3> SUFFICES ASSUME p \in tree PROVE Logged
      OBVIOUS
    <3> DEFINE e == LifeEvent(EV_FORK_TRACKED, c, p)
    <3>1. p \in tracked_pids
      BY <2>1 DEF handle_fork
    <3>2. \E why : Reserve(e, 0, why)
      BY <2>1, <3>1 DEF handle_fork
    <3>3. Reserve(e, 0, {})
      BY <3>2 DEF Reserve
    <3>4. e \in Event
      BY LifeEventType
    <3> HIDE DEF e
    <3> QED
      BY <1>1, <3>3, <3>4, ReserveLogs
  <2> QED
    BY <1>7, <2>1, <2>2, <2>3, <2>4
<1>8. ASSUME NEW t \in Task, TTaskExit(t), probed PROVE tree' \subseteq known'
  BY <1>8 DEF TTaskExit, TaskExit
<1>9. ASSUME NEW t \in Task, NEW ret \in Fd \cup {-1, 0}, TSysExit(t, ret), probed
      PROVE  tree' \subseteq known'
  <2>1. tree' = tree /\ probed' = probed
    BY <1>9 DEF TSysExit, SysExit
  <2>2. CASE UNCHANGED known
    BY <1>9, <2>1, <2>2
  <2>3. CASE ret >= 0 /\ MovesCwd(call[t]) /\ ChangeCwd(t, call[t])
    <3>1. known' = (known \ Sharers(t))
                   \cup {u \in {t} : Alone(t) /\ Logged /\ Replayable(t, call[t])}
      BY <2>3 DEF ChangeCwd
    <3>2. Sharers(t) \subseteq {t}
      BY <1>1 DEF Sharers
    <3>3. t \in tree => Alone(t) /\ Logged /\ Replayable(t, call[t])
      BY <1>1, <1>9, <2>3, MoveAccounted
    <3> QED
      BY <1>9, <2>1, <3>1, <3>2, <3>3
  <2> QED
    BY <1>9, <2>2, <2>3 DEF TSysExit, InstallDir
<1>10. probed' => probed \/ SeedCwd
  BY DEF TNext, TSpawn, TSeed, TReap, TConsume, TFork, TTaskExit, TRelease, Close, TSysEnter,
     TSysExit, tracerVars
<1> QED
  BY <1>4, <1>5, <1>6, <1>7, <1>8, <1>9, <1>10 DEF TNext

(* The events whose path a plain run leaves no doubt about                  *)
Clear(i) ==
  /\ log[i].etype \in CreationEvent /\ done[origin[i]].member /\ ~log[i].truncated
  /\ log[i].path \in Absolute \/ log[i].dirfd = AT_FDCWD

(* Certainty is lost only by events that start from a descriptor.           *)
LEMMA SureStays ==
  ASSUME GroundInv, [TNext]_tracerVars, NEW i \in 1..Len(log), base[i].sure,
         log[i].path \in Absolute \/ log[i].dirfd = AT_FDCWD
  PROVE  base'[i].sure
<1>1. base \in Seq(Base) /\ Len(base) = Len(log) /\ Len(log) \in Nat
  BY GroundFacts
<1>2. CASE UNCHANGED base
  BY <1>2
<1>3. ASSUME NEW o \in Base, NEW users, NEW fds, Remember(o, users, fds), AT_FDCWD \notin fds
      PROVE  base'[i].sure
  <2> DEFINE b == [j \in DOMAIN base |->
              IF /\ j > consumed /\ log[j].pid \in users
                 /\ log[j].etype \in CreationEvent
                 /\ log[j].path \notin Absolute /\ log[j].dirfd \in fds
              THEN [base[j] EXCEPT !.sure = FALSE] ELSE base[j]]
  <2>1. base' = IF Logged THEN Append(b, o) ELSE b
    BY <1>3 DEF Remember
  <2>2. DOMAIN base = 1..Len(base)
    BY <1>1
  <2>3. b[i] = base[i]
    BY <1>1, <1>3, <2>2
  <2>4. b \in Seq(Base) /\ Len(b) = Len(base)
    <3>1. \A j \in 1..Len(base) : base[j] \in Base
      BY <1>1
    <3>2. b \in [1..Len(base) -> Base]
      BY <2>2, <3>1 DEF Base
    <3> QED
      BY <1>1, <3>2
  <2> HIDE DEF b
  <2>5. i \in 1..Len(b) /\ b[i].sure
    BY <1>1, <2>3, <2>4
  <2>6. Append(b, o)[i] = b[i]
    BY <1>3, <2>4, <2>5, AppendFacts
  <2> QED
    BY <2>1, <2>5, <2>6
<1>4. AT_FDCWD \notin Fd
  BY TaskAssumption DEF AT_FDCWD
<1>5. CASE TSpawn \/ SeedCwd \/ TSeed \/ TReap \/ TConsume \/ UNCHANGED tracerVars
           \/ (\E t \in Task, c \in Call : TSysEnter(t, c)) \/ \E t \in Task : TRelease(t)
  BY <1>2, <1>5 DEF TSpawn, SeedCwd, TSeed, TReap, TConsume, TRelease, TSysEnter, replayVars,
     tracerVars
<1>6. ASSUME NEW p \in Task, NEW c \in Task, TFork(p, c) PROVE base'[i].sure
  <2> DEFINE o == [dir |-> cwd[lead[p]], sure |-> p \in known]
  <2>1. o \in Base /\ Remember(o, {}, {})
    BY <1>6, PathAssumption DEF TFork, Base, GroundInv, TypesInv, WorldOK
  <2> HIDE DEF o
  <2> QED
    BY <1>3, <2>1
<1>7. ASSUME NEW t \in Task, TTaskExit(t) PROVE base'[i].sure
  <2>1. Remember(NoOrigin, {t}, Fd) /\ NoOrigin \in Base
    BY <1>7 DEF TTaskExit, NoOrigin, Base
  <2> QED
    BY <1>3, <1>4, <2>1
<1>8. ASSUME NEW t \in Task, NEW fd \in Fd, Close(t, fd) PROVE base'[i].sure
  <2>1. Remember(NoOrigin, Sharers(t), {fd}) /\ NoOrigin \in Base
    BY <1>8 DEF Close, NoOrigin, Base
  <2> QED
    BY <1>3, <1>4, <2>1
<1>9. ASSUME NEW t \in Task, NEW ret \in Fd \cup {-1, 0}, TSysExit(t, ret) PROVE base'[i].sure
  <2> DEFINE o == Origin(t, call[t])
  <2>1. call[t] \in Call
    BY <1>9 DEF TSysExit, SysExit, GroundInv, TypesInv, ProbesInv, TypeOK
  <2>2. o \in Base /\ Remember(o, {}, {})
    BY <1>9, <2>1, OriginType DEF GroundInv, TypesInv, TSysExit
  <2> HIDE DEF o
  <2> QED
    BY <1>3, <2>2
<1> QED
  BY <1>5, <1>6, <1>7, <1>8, <1>9 DEF TNext

(* A clear event that gets into the log is certain.                         *)
LEMMA NewSure ==
  ASSUME GroundInv, SeedInv, [TNext]_tracerVars, Adds, PlainRun,
         probed => tree \subseteq known,
         New.etype \in CreationEvent, done'[origin'[Len(log) + 1]].member, ~New.truncated,
         New.path \in Absolute \/ New.dirfd = AT_FDCWD
  PROVE  NewBase.sure
<1>1. PICK t \in Task, ret \in Fd \cup {-1, 0} : TSysExit(t, ret)
  BY CreationIsExit
<1> DEFINE c == call[t]
           o == Origin(t, c)
<1>2. /\ c \in Call /\ Relevant(c) /\ New = Emitted(t, c, ret)
      /\ t \in tree /\ enter_ctx[t] # None
  <2>1. done'[origin'[Len(log) + 1]].member = (t \in tree)
    BY <1>1, EmittedEvent
  <2> QED
    BY <1>1, <2>1, EmittedEvent
<1>3. t \in known
  BY <1>2 DEF SeedInv
<1>4. NewBase = o
  <2>1. o \in Base
    BY <1>2, OriginType DEF GroundInv, TypesInv
  <2>2. Remember(o, {}, {}) /\ UNCHANGED <<consumed, cwd_cache, fd_map>>
    BY <1>1 DEF TSysExit, SysExit, stateVars
  <2> HIDE DEF o
  <2> QED
    BY <2>1, <2>2, RememberFrame DEF Adds, NewBase
<1>5. c \in Args /\ c.path # None
  <2> DEFINE e == New
  <2>1. e = Emitted(t, c, ret)
    BY <1>2
  <2> HIDE DEF e
  <2>2. e.etype \in CreationEvent <=> Creates(c)
    BY <1>2, <2>1, EmittedFields
  <2>3. Creates(c)
    BY <2>2 DEF e
  <2> QED
    BY <1>2, <2>3, CallAssumption DEF Creates, OpenatFamily
<1>6. Fits(c.path)
  <2>1. New.truncated = Stash(c).truncated
    BY <1>2 DEF Emitted, SyscallEvent
  <2>2. Stash(c).truncated = (c.path # None /\ Copied(c.path) = PATH_BUF_SZ)
    BY DEF Stash
  <2> QED
    BY <1>5, <2>1, <2>2 DEF Copied, Fits
<1>7. c.path \in Absolute \/ c.dirfd = AT_FDCWD
  <2> DEFINE e == New
  <2>1. e = Emitted(t, c, ret)
    BY <1>2
  <2> HIDE DEF e
  <2>2. e.dirfd = c.dirfd /\ e.path = c.path
    BY <1>2, <1>6, <2>1, EmittedFields
  <2> QED
    BY <2>2 DEF e
<1>8. o.sure
  BY <1>3, <1>6, <1>7, <1>5 DEF Origin, Replayable
<1> QED
  BY <1>4, <1>8

ExactInv ==
  /\ mishap = {} /\ PlainRun =>
       /\ probed => tree \subseteq known
       /\ \A i \in 1..Len(log) : Clear(i) => base[i].sure
  /\ \A i \in 1..Len(events) : events[i].truncated = log[events[i].seq].truncated

LEMMA ExactInit == TInit => ExactInv
<1> SUFFICES ASSUME TInit PROVE ExactInv
  OBVIOUS
<1>1. Len(log) = 0 /\ Len(events) = 0 /\ probed = FALSE
  BY DEF TInit, Init
<1> QED
  BY <1>1 DEF ExactInv

LEMMA OriginStands ==
  ASSUME GroundInv, [TNext]_tracerVars, NEW i \in 1..Len(log), log[i].etype \in CreationEvent
  PROVE  origin[i] \in 1..Len(done) /\ done'[origin[i]] = done[origin[i]]
<1>1. Plain(done) /\ Len(done) \in Nat
  BY DEF GroundInv, TypesInv, ProbesInv, TypeOK, Plain
<1>2. origin[i] \in Nat /\ origin[i] <= Len(done) /\ (origin[i] = 0 <=> log[i].etype \in LifeEtype)
  BY DEF GroundInv, TypesInv, ProbesInv, TypeOK, GenuineInv, Genuine
<1>3. log[i].etype \notin LifeEtype
  BY DEF LifeEtype, CreationEvent, EV_FORK_TRACKED, EV_EXIT_TRACKED, EV_OPENAT_CREATE
<1>4. origin[i] \in 1..Len(done)
  BY <1>1, <1>2, <1>3
<1>5. UNCHANGED done \/ \E d : done' = Append(done, d)
  BY LogGrows DEF Grown, GroundInv, WatchInv
<1> QED
  BY <1>1, <1>4, <1>5, AppendPlain

LEMMA ClearKept ==
  ASSUME GroundInv, SeedInv, ExactInv, [TNext]_tracerVars, mishap' = {}, PlainRun',
         NEW i \in 1..Len(log'), Clear(i)'
  PROVE  base'[i].sure
<1>1. mishap = {} /\ PlainRun /\ Len(log) \in Nat
  BY PlainBefore, GroundFacts DEF GroundInv, TypesInv
<1>2. CASE i \in 1..Len(log)
  <2>1. log'[i] = log[i] /\ origin'[i] = origin[i] /\ origin[i] \in Nat
    BY <1>2, LogGrows DEF Grown, GroundInv, TypesInv, ProbesInv, GenuineInv, TypeOK
  <2>2. log[i].etype \in CreationEvent
    BY <2>1 DEF Clear, CreationEvent, EV_OPENAT_CREATE
  <2>3. origin[i] \in 1..Len(done) /\ done'[origin[i]] = done[origin[i]]
    BY <1>2, <2>2, OriginStands
  <2>4. Clear(i)
    BY <2>1, <2>3 DEF Clear, CreationEvent, EV_OPENAT_CREATE
  <2> QED
    BY <1>1, <1>2, <2>4, SureStays DEF ExactInv, Clear
<1>3. CASE i \notin 1..Len(log)
  <2>1. i = Len(log) + 1 /\ Adds
    BY <1>1, <1>3, LogByOne DEF Adds
  <2> QED
    BY <1>1, <2>1, NewSure DEF ExactInv, Clear, New, NewBase, CreationEvent, EV_OPENAT_CREATE
<1> QED
  BY <1>2, <1>3

(* A capture is flagged as its event is.                                    *)
LEMMA FlagKept ==
  ASSUME GroundInv, CaptureInv, ExactInv, [TNext]_tracerVars, NEW i \in 1..Len(events')
  PROVE  events'[i].truncated = log'[events'[i].seq].truncated
<1>1. /\ Plain(events) /\ Len(events) \in Nat /\ consumed \in Nat /\ Len(log) \in Nat
      /\ consumed <= Len(log)
  BY GroundFacts DEF CaptureInv, Plain
<1>2. ASSUME NEW j \in 1..Len(events)
      PROVE  events[j].truncated = log'[events[j].seq].truncated
  <2>1. events[j].seq \in 1..Len(log)
    BY <1>1 DEF CaptureInv, Made
  <2> QED
    BY <2>1, LogGrows DEF Grown, GroundInv, WatchInv, ExactInv
<1>3. CASE UNCHANGED events
  BY <1>2, <1>3
<1>4. CASE Captures /\ ~(UNCHANGED events)
  <2> DEFINE v == Captured(log[consumed + 1])
  <2>1. events' = Append(events, v) /\ UNCHANGED log
    BY <1>4 DEF Captures, Takes, push_event
  <2>2. v.truncated = log[v.seq].truncated
    BY DEF Captured
  <2> HIDE DEF v
  <2>3. (i \in 1..Len(events) /\ events'[i] = events[i]) \/ events'[i] = v
    BY <1>1, <2>1, AppendPlain
  <2> QED
    BY <1>2, <2>1, <2>2, <2>3
<1> QED
  BY <1>3, <1>4, CaptureSteps DEF Aside, Skips, Untouched

ExactAll == GroundInv /\ CaptureInv /\ LossInv /\ SeedInv /\ ExactInv

LEMMA ExactAllInit == TInit => ExactAll
  BY GroundInit, CaptureInit, LossInit, SeedInit, ExactInit DEF ExactAll, TInit

LEMMA ExactAllStep == ExactAll /\ [TNext]_tracerVars => ExactAll'
<1> SUFFICES ASSUME ExactAll, [TNext]_tracerVars PROVE ExactAll'
  OBVIOUS
<1>1. GroundInv' /\ CaptureInv' /\ LossInv' /\ SeedInv'
  BY GroundStep, CaptureStep, LossKept, SeedKept DEF ExactAll, GroundInv, TypesInv
<1>2. ASSUME mishap' = {}, PlainRun'
      PROVE  /\ probed' => tree' \subseteq known'
             /\ \A i \in 1..Len(log') : Clear(i)' => base'[i].sure
  <2>1. mishap = {} /\ PlainRun
    BY <1>2, PlainBefore DEF ExactAll, GroundInv, TypesInv
  <2>2. probed => tree \subseteq known
    BY <2>1 DEF ExactAll, ExactInv
  <2>3. probed' => tree' \subseteq known'
    BY <1>2, <2>2, TreeKnown DEF ExactAll
  <2> QED
    BY <1>2, <2>3, ClearKept DEF ExactAll
<1>3. \A i \in 1..Len(events') : events'[i].truncated = log'[events'[i].seq].truncated
  BY FlagKept DEF ExactAll
<1>4. ExactInv'
  BY <1>2, <1>3 DEF ExactInv
<1> QED
  BY <1>1, <1>4 DEF ExactAll

LEMMA ClearIsExact == ExactAll /\ ReportedWhereMade => ReportIsExact
<1> SUFFICES ASSUME ExactAll, ReportedWhereMade, mishap = {}, PlainRun,
                    NEW i \in 1..Len(events),
                    done[origin[events[i].seq]].member, ~events[i].truncated,
                    \/ done[origin[events[i].seq]].call.dirfd = AT_FDCWD
                    \/ done[origin[events[i].seq]].call.path \in Absolute
             PROVE  resolve(events[i]) = RealPath(events[i].seq)
  BY DEF ReportIsExact
<1> DEFINE k == events[i].seq
<1>1. k \in 1..Len(log) /\ log[k].etype \in CreationEvent
  <2>1. consumed \in Nat /\ Len(log) \in Nat /\ consumed <= Len(log)
    BY GroundFacts DEF ExactAll
  <2> QED
    BY <2>1 DEF ExactAll, CaptureInv, Made
<1>2. ~log[k].truncated
  BY DEF ExactAll, ExactInv
<1> HIDE DEF k
<1>3. origin[k] # 0
  <2>1. log[k].etype \notin LifeEtype
    BY <1>1 DEF LifeEtype, CreationEvent, EV_FORK_TRACKED, EV_EXIT_TRACKED, EV_OPENAT_CREATE
  <2> QED
    BY <1>1, <2>1 DEF ExactAll, GroundInv, TypesInv, ProbesInv, GenuineInv, Genuine
<1>4. Reports(log[k], done[origin[k]])
  BY <1>1, <1>3 DEF ExactAll, GroundInv, TypesInv, ProbesInv, GenuineInv, Genuine
<1>5. Clear(k)
  BY <1>1, <1>2, <1>4 DEF Clear, Reports, k
<1>6. base[k].sure
  BY <1>1, <1>5 DEF ExactAll, ExactInv
<1> QED
  BY <1>6 DEF ReportedWhereMade, k

(* In a plain run without mishap nothing has to be taken on the word of the *)
(* history: whatever the number of tasks, the sizes of maps and ring and    *)
(* the delay of each event, every file the tree made by an absolute path or *)
(* from its cwd is reported where it was made (main.rs:194, main.rs:303).   *)
THEOREM PlainRunsAreExact == TSpec => []ReportIsExact
  BY ExactAllInit, ExactAllStep, ClearIsExact, FilesAreReportedWhereMade, PTL DEF TSpec

-----------------------------------------------------------------------------
(* The way to the filters.  A task is anchored at a place of the log if the *)
(* replay has a cwd for it when it gets there: it has one now and no exit   *)
(* comes before, or the fork event comes before, with no exit behind it.    *)
Anchored(t, n) ==
  \/ cwd_cache[t] # None /\ \A k \in (consumed + 1)..n : ~Leaves(log, k, t)
  \/ \E f \in (consumed + 1)..n :
       /\ log[f].pid = t /\ log[f].etype = EV_FORK_TRACKED
       /\ \A k \in f..n : ~Leaves(log, k, t)

AllAnchored ==
  /\ \A t \in tracked_pids : Anchored(t, Len(log))
  /\ \A i \in (consumed + 1)..Len(log) : Anchored(Source(log[i]), i - 1)

(* Whatever is tracked, and the source of whatever is pending, is anchored. *)
AnchorInv ==
  /\ reaped => seeded
  /\ mishap = {} =>
       /\ AllAnchored
       /\ probed /\ ~seeded /\ task[Root] = "running" => cwd_cache[Root] # None

LEMMA AnchorInit == TInit => AnchorInv
<1> SUFFICES ASSUME TInit PROVE AnchorInv
  OBVIOUS
<1>1. Len(log) = 0 /\ consumed = 0 /\ tracked_pids = {} /\ probed = FALSE /\ reaped = FALSE
  BY DEF TInit, Init
<1> QED
  BY <1>1 DEF AnchorInv, AllAnchored

(* Anchors hold behind a new event, but for the task whose exit it is; a    *)
(* fork is one.                                                             *)
LEMMA AnchorBehind ==
  ASSUME GroundInv, UNCHANGED <<consumed, cwd_cache>>, NEW e \in Event, log' = Append(log, e)
  PROVE  /\ \A t, n : n \in 0..Len(log) /\ Anchored(t, n) => Anchored(t, n)'
         /\ \A t : Anchored(t, Len(log)) /\ ~(e.pid = t /\ e.etype = EV_EXIT_TRACKED)
                     => Anchored(t, Len(log))'
         /\ e.etype = EV_FORK_TRACKED => Anchored(e.pid, Len(log))'
<1>1. /\ consumed \in Nat /\ consumed <= Len(log) /\ Len(log) \in Nat
      /\ Len(log') = Len(log) + 1 /\ log'[Len(log) + 1] = e
      /\ \A i \in 1..Len(log) : log'[i] = log[i]
  BY GroundFacts, AppendFacts
<1>2. \A t, k : k \in (consumed + 1)..Len(log) => (Leaves(log', k, t) <=> Leaves(log, k, t))
  BY <1>1 DEF Leaves
<1>3. ASSUME NEW t, NEW n \in 0..Len(log), Anchored(t, n) PROVE Anchored(t, n)'
  <2>1. CASE cwd_cache[t] # None /\ \A k \in (consumed + 1)..n : ~Leaves(log, k, t)
    <3>1. \A k \in (consumed + 1)..n : ~Leaves(log', k, t)
      BY <1>1, <1>2, <2>1
    <3> QED
      BY <2>1, <3>1 DEF Anchored
  <2>2. ASSUME NEW f \in (consumed + 1)..n, log[f].pid = t, log[f].etype = EV_FORK_TRACKED,
               \A k \in f..n : ~Leaves(log, k, t)
        PROVE  Anchored(t, n)'
    <3>1. \A k \in f..n : ~Leaves(log', k, t)
      BY <1>1, <1>2, <2>2
    <3>2. log'[f] = log[f]
      BY <1>1, <2>2
    <3> QED
      BY <2>2, <3>1, <3>2 DEF Anchored, EV_FORK_TRACKED
  <2> QED
    BY <1>3, <2>1, <2>2 DEF Anchored
<1>4. ASSUME NEW t, Anchored(t, Len(log)), ~(e.pid = t /\ e.etype = EV_EXIT_TRACKED)
      PROVE  Anchored(t, Len(log))'
  <2>1. ~Leaves(log', Len(log'), t)
    BY <1>1, <1>4 DEF Leaves, EV_EXIT_TRACKED
  <2>2. CASE cwd_cache[t] # None /\ \A k \in (consumed + 1)..Len(log) : ~Leaves(log, k, t)
    <3>1. \A k \in (consumed + 1)..Len(log') : ~Leaves(log', k, t)
      BY <1>1, <1>2, <2>1, <2>2
    <3> QED
      BY <2>2, <3>1 DEF Anchored
  <2>3. ASSUME NEW f \in (consumed + 1)..Len(log), log[f].pid = t,
               log[f].etype = EV_FORK_TRACKED, \A k \in f..Len(log) : ~Leaves(log, k, t)
        PROVE  Anchored(t, Len(log))'
    <3>1. \A k \in f..Len(log') : ~Leaves(log', k, t)
      BY <1>1, <1>2, <2>1, <2>3
    <3>2. log'[f] = log[f] /\ f \in (consumed' + 1)..Len(log')
      BY <1>1, <2>3
    <3> QED
      BY <2>3, <3>1, <3>2 DEF Anchored, EV_FORK_TRACKED
  <2> QED
    BY <1>4, <2>2, <2>3 DEF Anchored
<1>5. ASSUME e.etype = EV_FORK_TRACKED PROVE Anchored(e.pid, Len(log))'
  <2>1. Len(log') \in (consumed' + 1)..Len(log') /\ \A k \in Len(log')..Len(log') : k = Len(log')
    BY <1>1
  <2>2. log'[Len(log')] = e /\ ~Leaves(log', Len(log'), e.pid)
    BY <1>1, <1>5 DEF Leaves, EV_FORK_TRACKED, EV_EXIT_TRACKED
  <2> QED
    BY <1>5, <2>1, <2>2 DEF Anchored, EV_FORK_TRACKED
<1> QED
  BY <1>3, <1>4, <1>5

(* An event of an anchored source keeps all anchored that remain tracked.   *)
LEMMA AnchorReserve ==
  ASSUME GroundInv, AllAnchored, UNCHANGED <<consumed, cwd_cache>>,
         NEW e \in Event, NEW from, NEW why, Reserve(e, from, why), mishap' = {},
         Source(e) \in tracked_pids,
         \A t \in tracked_pids' :
           \/ t \in tracked_pids /\ ~(e.pid = t /\ e.etype = EV_EXIT_TRACKED)
           \/ e.pid = t /\ e.etype = EV_FORK_TRACKED
  PROVE  AllAnchored'
<1>1. log' = Append(log, e)
  BY DEF Reserve
<1>2. /\ consumed \in Nat /\ consumed <= Len(log) /\ Len(log) \in Nat
      /\ Len(log') = Len(log) + 1 /\ log'[Len(log) + 1] = e
      /\ \A i \in 1..Len(log) : log'[i] = log[i]
  BY <1>1, GroundFacts, AppendFacts
<1>3. /\ \A t, n : n \in 0..Len(log) /\ Anchored(t, n) => Anchored(t, n)'
      /\ \A t : Anchored(t, Len(log)) /\ ~(e.pid = t /\ e.etype = EV_EXIT_TRACKED)
                  => Anchored(t, Len(log))'
      /\ e.etype = EV_FORK_TRACKED => Anchored(e.pid, Len(log))'
  BY <1>1, AnchorBehind
<1>4. \A t \in tracked_pids' : Anchored(t, Len(log))'
  BY <1>3 DEF AllAnchored
<1>5. ASSUME NEW i \in (consumed' + 1)..Len(log') PROVE Anchored(Source(log[i]), i - 1)'
  <2>1. CASE i \in (consumed + 1)..Len(log)
    <3>1. log'[i] = log[i] /\ i - 1 \in 0..Len(log)
      BY <1>2, <2>1
    <3>2. Anchored(Source(log[i]), i - 1)
      BY <2>1 DEF AllAnchored
    <3>3. Anchored(Source(log[i]), i - 1) => \A t : t = Source(log[i]) => Anchored(t, i - 1)'
      BY <1>3, <3>1
    <3>4. Source(log'[i]) = Source(log[i])
      BY <3>1
    <3> QED
      BY <3>2, <3>3, <3>4 DEF Source, EV_FORK_TRACKED
  <2>2. CASE i = Len(log) + 1
    <3>1. i - 1 = Len(log) /\ Len(log) \in 0..Len(log) /\ log'[i] = e
      BY <1>2, <2>2
    <3>2. Anchored(Source(e), i - 1)
      BY <3>1 DEF AllAnchored
    <3> QED
      BY <1>3, <3>1, <3>2 DEF Source, EV_FORK_TRACKED
  <2> QED
    BY <1>2, <2>1, <2>2
<1> QED
  BY <1>4, <1>5 DEF AllAnchored

(* A handler forgets the cwd of no task but the one that exits, and gives   *)
(* one to the child of a parent that has one.                               *)
LEMMA HandlerKeepsCwd ==
  ASSUME GroundInv, NEW e \in Event, Shape(e), handle_event(e), cwd_cache[Source(e)] # None
  PROVE  /\ \A t \in Task : t # e.pid => cwd_cache'[t] = cwd_cache[t]
         /\ e.etype # EV_EXIT_TRACKED => cwd_cache'[e.pid] # None
<1>1. cwd_cache \in [Task -> Where \cup {None}] /\ e.pid \in Task
  BY DEF GroundInv, TypesInv, StateOK, Event
<1>2. \A t \in Task \ {e.pid} : cwd_cache'[t] = cwd_cache[t]
  BY HandlerIsLocal DEF GroundInv
<1>3. \A v : cwd_cache[e.pid] # None => Put(cwd_cache, e.pid, v)[e.pid] # None
  BY <1>1 DEF Put
<1>4. CASE e.etype = EV_FORK_TRACKED /\ HandleFork(e)
  <2>1. OrElse(cwd_cache[e.ppid], proc_cwd(e.pid)) # None
    BY <1>4 DEF Source, OrElse
  <2> QED
    BY <1>1, <1>2, <1>4, <2>1 DEF HandleFork, Put
<1>5. ASSUME e.etype # EV_FORK_TRACKED, NEW v,
             cwd_cache' = Put(cwd_cache, e.pid, v) \/ UNCHANGED cwd_cache
      PROVE  cwd_cache'[e.pid] # None
  BY <1>3, <1>5 DEF Source
<1>6. CASE \/ e.etype = "CHDIR" /\ HandleChdir(e)
           \/ e.etype = "FCHDIR" /\ HandleFchdir(e)
           \/ e.etype = EV_OPENAT_DIR /\ HandleOpenatDir(e)
           \/ e.etype \in CreationEvent /\ HandleCreation(e)
  <2>1. \E v : cwd_cache' = Put(cwd_cache, e.pid, v) \/ UNCHANGED cwd_cache
    BY <1>6 DEF HandleChdir, HandleFchdir, HandleOpenatDir, HandleCreation
  <2>2. e.etype # EV_FORK_TRACKED
    BY <1>6 DEF CreationEvent, EV_FORK_TRACKED, EV_OPENAT_DIR, EV_OPENAT_CREATE
  <2> QED
    BY <1>2, <1>5, <2>1, <2>2
<1>7. CASE e.etype = EV_EXIT_TRACKED
  BY <1>2, <1>7
<1> QED
  BY <1>2, <1>4, <1>6, <1>7 DEF handle_event

(* The next event finds the cwd of its source.                              *)
LEMMA HeadIsAnchored ==
  ASSUME GroundInv, AllAnchored, consumed < Len(log)
  PROVE  cwd_cache[Source(log[consumed + 1])] # None
<1>1. /\ consumed \in Nat /\ Len(log) \in Nat /\ consumed + 1 \in (consumed + 1)..Len(log)
      /\ consumed + 1 - 1 = consumed
  BY GroundFacts
<1>2. Anchored(Source(log[consumed + 1]), consumed)
  BY <1>1 DEF AllAnchored
<1> QED
  BY <1>1, <1>2 DEF Anchored

LEMMA AnchorTake ==
  ASSUME GroundInv, AllAnchored, TConsume
  PROVE  AllAnchored'
<1> DEFINE e == log[consumed + 1]
<1>1. /\ consumed \in Nat /\ Len(log) \in Nat /\ consumed < Len(log)
      /\ consumed' = consumed + 1 /\ UNCHANGED <<log, tracked_pids>>
      /\ e \in Event /\ Shape(e) /\ handle_event(e) /\ tracked_pids \subseteq Task
      /\ \A i \in 1..Len(log) : log[i] \in Event /\ Shape(log[i])
  BY GroundFacts DEF TConsume, Consume, mapVars, GroundInv, TypesInv, ProbesInv, TypeOK
<1>2. cwd_cache[Source(e)] # None
  BY <1>1, HeadIsAnchored
<1>3. /\ \A t \in Task : t # e.pid => cwd_cache'[t] = cwd_cache[t]
      /\ e.etype # EV_EXIT_TRACKED => cwd_cache'[e.pid] # None
  BY <1>1, <1>2, HandlerKeepsCwd
<1>4. Leaves(log, consumed + 1, e.pid) <=> e.etype = EV_EXIT_TRACKED
  BY DEF Leaves
<1> HIDE DEF e
<1>5. ASSUME NEW t \in Task, NEW n \in (consumed + 1)..Len(log), Anchored(t, n)
      PROVE  Anchored(t, n)'
  <2>1. CASE cwd_cache[t] # None /\ \A k \in (consumed + 1)..n : ~Leaves(log, k, t)
    <3>1. ~Leaves(log, consumed + 1, t)
      BY <1>1, <2>1
    <3>2. cwd_cache'[t] # None
      BY <1>3, <1>4, <2>1, <3>1
    <3>3. \A k \in (consumed + 2)..n : ~Leaves(log, k, t)
      BY <1>1, <2>1
    <3> QED
      BY <1>1, <3>2, <3>3 DEF Anchored
  <2>2. ASSUME NEW f \in (consumed + 1)..n, log[f].pid = t, log[f].etype = EV_FORK_TRACKED,
               \A k \in f..n : ~Leaves(log, k, t)
        PROVE  Anchored(t, n)'
    <3>1. CASE f = consumed + 1
      <4>1. t = e.pid /\ e.etype # EV_EXIT_TRACKED
        BY <2>2, <3>1 DEF e, EV_FORK_TRACKED, EV_EXIT_TRACKED
      <4>2. \A k \in (consumed + 2)..n : ~Leaves(log, k, t)
        BY <1>1, <2>2, <3>1
      <4> QED
        BY <1>1, <1>3, <4>1, <4>2 DEF Anchored
    <3>2. CASE f \in (consumed + 2)..n
      <4>1. f \in (consumed' + 1)..n /\ log' = log
        BY <1>1, <3>2
      <4> QED
        BY <2>2, <4>1 DEF Anchored, EV_FORK_TRACKED
    <3> QED
      BY <1>1, <2>2, <3>1, <3>2
  <2> QED
    BY <1>5, <2>1, <2>2 DEF Anchored
<1>6. ASSUME NEW i \in (consumed' + 1)..Len(log') PROVE Anchored(Source(log[i]), i - 1)'
  <2>1. /\ i \in (consumed + 1)..Len(log) /\ i \in 1..Len(log)
        /\ i - 1 \in (consumed + 1)..Len(log) /\ log' = log
    BY <1>1
  <2>2. Source(log[i]) \in Task
    BY <1>1, <2>1 DEF Source, Shape, Event
  <2>3. Anchored(Source(log[i]), i - 1)
    BY <2>1 DEF AllAnchored
  <2> QED
    BY <1>5, <2>1, <2>2, <2>3 DEF Source, EV_FORK_TRACKED
<1>7. \A t \in tracked_pids' : Anchored(t, Len(log))'
  <2>1. Len(log) \in (consumed + 1)..Len(log) /\ log' = log
    BY <1>1
  <2> QED
    BY <1>1, <1>5, <2>1 DEF AllAnchored
<1> QED
  BY <1>6, <1>7 DEF AllAnchored

LEMMA AnchorStep ==
  GroundInv /\ SeedInv /\ AnchorInv /\ [TNext]_tracerVars => AnchorInv'
<1> SUFFICES ASSUME GroundInv, SeedInv, AnchorInv, [TNext]_tracerVars PROVE AnchorInv'
  OBVIOUS
<1>1. /\ TypeOK /\ TrackedInv /\ FirstInv /\ StashIsCurrent /\ ProbesInv
      /\ ~seeded => Len(log) = 0 /\ tracked_pids = {}
      /\ cwd \in [Task -> Dir] /\ lead \in [Task -> Task]
      /\ cwd_cache \in [Task -> Where \cup {None}] /\ Root \in Task
      /\ mishap' = {} => mishap = {} /\ AllAnchored
  BY PlainBefore, TaskAssumption
  DEF GroundInv, WatchInv, ProbesInv, GoneInv, TrackedInv, TypesInv, WorldOK, StateOK, AnchorInv
(* A step that leaves log and maps alone and does not start the root.       *)
<1>2. ASSUME UNCHANGED <<log, consumed, tracked_pids, cwd_cache, seeded>>,
             probed' /\ ~seeded' /\ task'[Root] = "running" => probed /\ task[Root] = "running",
             reaped' => reaped \/ seeded
      PROVE  AnchorInv'
  <2>1. AllAnchored => AllAnchored'
    BY <1>2 DEF AllAnchored, Anchored, Source, EV_FORK_TRACKED
  <2> QED
    BY <1>1, <1>2, <2>1 DEF AnchorInv
<1>3. CASE UNCHANGED tracerVars
  BY <1>2, <1>3 DEF tracerVars, vars, stateVars
<1>4. CASE TSpawn
  <2>1. task[Root] = "free" /\ ~reaped /\ UNCHANGED probed
    BY <1>4 DEF TSpawn, Spawn
  <2>2. ~probed
    BY <2>1 DEF SeedInv
  <2> QED
    BY <1>2, <1>4, <2>1, <2>2 DEF TSpawn, Spawn, mapVars, stateVars
<1>5. CASE TReap
  BY <1>1, <1>2, <1>5 DEF TReap, Reap, mapVars, stateVars, TypeOK
<1>6. ASSUME NEW t \in Task, TRelease(t) PROVE AnchorInv'
  BY <1>1, <1>2, <1>6 DEF TRelease, Release, mapVars, stateVars, TypeOK
<1>7. ASSUME NEW t \in Task, NEW fd \in Fd, Close(t, fd) PROVE AnchorInv'
  BY <1>2, <1>7 DEF Close, mapVars, stateVars
<1>8. ASSUME NEW t \in Task, NEW c \in Call, TSysEnter(t, c) PROVE AnchorInv'
  BY <1>2, <1>8 DEF TSysEnter, SysEnter, stateVars
<1>9. CASE SeedCwd
  <2>1. /\ ~probed /\ UNCHANGED <<log, consumed, tracked_pids, task, seeded, reaped>>
        /\ cwd_cache' = Put(cwd_cache, Root, proc_cwd(Root))
    BY <1>9 DEF SeedCwd, vars
  <2>2. Len(log) = 0 /\ tracked_pids = {}
    BY <1>1, <2>1 DEF SeedInv
  <2>3. consumed \in Nat
    BY GroundFacts
  <2>4. AllAnchored'
    BY <2>1, <2>2, <2>3 DEF AllAnchored
  <2>5. task[Root] = "running" => cwd_cache'[Root] # None
    <3>1. task[Root] = "running" => proc_cwd(Root) \in Dir
      BY <1>1 DEF proc_cwd
    <3> QED
      BY <1>1, <2>1, <3>1, PathAssumption DEF Put
  <2> QED
    BY <2>1, <2>4, <2>5 DEF AnchorInv
<1>10. CASE TSeed
  <2>1. /\ probed /\ ~seeded /\ task[Root] # "free" /\ seeded'
        /\ tracked_pids' = tracked_pids \cup {Root} /\ UNCHANGED <<log, consumed, cwd_cache>>
        /\ mishap' = mishap \cup (IF task[Root] = "zombie" THEN {"late_seed"} ELSE {})
    BY <1>10 DEF TSeed, Seed, stateVars
  <2>2. consumed \in Nat /\ Len(log) = 0 /\ tracked_pids = {}
    BY <1>1, <2>1, GroundFacts
  <2>3. mishap' = {} => task[Root] = "running"
    BY <1>1, <2>1 DEF TypeOK
  <2>4. mishap' = {} => cwd_cache'[Root] # None
    BY <1>1, <2>1, <2>3 DEF AnchorInv
  <2>5. mishap' = {} => AllAnchored'
    BY <2>1, <2>2, <2>4 DEF AllAnchored, Anchored
  <2> QED
    BY <2>1, <2>5 DEF AnchorInv
<1>11. CASE TConsume
  <2>1. seeded /\ UNCHANGED <<seeded, mishap>>
    BY <1>11 DEF TConsume, Consume, historyVars
  <2> QED
    BY <1>1, <1>11, <2>1, AnchorTake DEF AnchorInv
(* The steps that may add an event: the probes of fork, exit and return.    *)
<1>12. ASSUME UNCHANGED <<consumed, cwd_cache, seeded, probed>>,
              ~seeded /\ task'[Root] = "running" => task[Root] = "running" \/ reaped,
              UNCHANGED reaped,
              mishap' = {} => AllAnchored'
       PROVE  AnchorInv'
  BY <1>1, <1>12 DEF AnchorInv
<1>13. ASSUME NEW p \in Task, NEW c \in Task, TFork(p, c) PROVE AnchorInv'
  <2>1. /\ UNCHANGED <<consumed, cwd_cache, seeded, reaped, probed>> /\ handle_fork(p, c)
        /\ task' = [task EXCEPT ![c] = "running"] /\ (c = Root => reaped)
    BY <1>13 DEF TFork, Fork, stateVars
  <2>2. ASSUME mishap' = {}, p \in tracked_pids PROVE AllAnchored'
    <3> DEFINE e == LifeEvent(EV_FORK_TRACKED, c, p)
               why == IF HasRoom(c) THEN {} ELSE {"tracked_full"}
    <3>1. tracked_pids' \subseteq tracked_pids \cup {c} /\ Reserve(e, 0, why)
      BY <2>1, <2>2 DEF handle_fork
    <3>2. e \in Event
      BY LifeEventType
    <3>3. e.pid = c /\ e.etype = EV_FORK_TRACKED /\ Source(e) = p
      BY DEF LifeEvent, Source
    <3> HIDE DEF e, why
    <3> QED
      BY <1>1, <2>1, <2>2, <3>1, <3>2, <3>3, AnchorReserve DEF EV_FORK_TRACKED, EV_EXIT_TRACKED
  <2>3. ASSUME mishap' = {}, p \notin tracked_pids PROVE AllAnchored'
    BY <1>1, <2>1, <2>3 DEF handle_fork, AllAnchored, Anchored, Source, EV_FORK_TRACKED
  <2> QED
    BY <1>1, <1>12, <2>1, <2>2, <2>3 DEF TypeOK
<1>14. ASSUME NEW t \in Task, TTaskExit(t) PROVE AnchorInv'
  <2>1. /\ UNCHANGED <<consumed, cwd_cache, seeded, reaped, probed>> /\ handle_exit(t)
        /\ task[t] = "running" /\ task' = [task EXCEPT ![t] = "zombie"]
    BY <1>14 DEF TTaskExit, TaskExit, stateVars
  <2>2. ASSUME mishap' = {}, t \in tracked_pids PROVE AllAnchored'
    <3> DEFINE e == LifeEvent(EV_EXIT_TRACKED, t, None)
    <3>1. tracked_pids' = tracked_pids \ {t} /\ Reserve(e, 0, {})
      BY <2>1, <2>2 DEF handle_exit
    <3>2. e \in Event
      BY LifeEventType
    <3>3. e.pid = t /\ e.etype = EV_EXIT_TRACKED /\ Source(e) = t
      BY DEF LifeEvent, Source, EV_FORK_TRACKED, EV_EXIT_TRACKED
    <3> HIDE DEF e
    <3> QED
      BY <1>1, <2>1, <2>2, <3>1, <3>2, <3>3, AnchorReserve
  <2>3. ASSUME mishap' = {}, t \notin tracked_pids PROVE AllAnchored'
    BY <1>1, <2>1, <2>3 DEF handle_exit, AllAnchored, Anchored, Source, EV_FORK_TRACKED
  <2> QED
    BY <1>1, <1>12, <2>1, <2>2, <2>3 DEF TypeOK
<1>15. ASSUME NEW t \in Task, NEW ret \in Fd \cup {-1, 0}, TSysExit(t, ret) PROVE AnchorInv'
  <2> DEFINE e == SyscallEvent(t, Etype(call[t].sys, enter_ctx[t].flags), enter_ctx[t], ret)
  <2>1. /\ UNCHANGED <<consumed, cwd_cache, seeded, reaped, probed, task, tracked_pids>>
        /\ call[t] # None /\ ret \in Result(call[t])
        /\ emit_exit(t, call[t].sys, ret, Len(done'))
    BY <1>15 DEF TSysExit, SysExit, stateVars
  <2>2. CASE UNCHANGED log
    BY <1>1, <1>12, <2>1, <2>2 DEF AllAnchored, Anchored, Source, EV_FORK_TRACKED
  <2>3. CASE enter_ctx[t] # None /\ Succeeded(call[t].sys, ret) /\ Reserve(e, Len(done'), {})
    <3>1. e \in Event
      BY <1>1, <2>1, <2>3, EmittedShape
    <3>2. /\ e.pid = t /\ Source(e) = t /\ e.etype \notin LifeEtype
      <4>1. call[t] \in Call /\ call[t].sys \in Syscall
        BY <1>1, <2>1, CallAssumption DEF TypeOK, Args
      <4>2. Etype(call[t].sys, enter_ctx[t].flags) \notin LifeEtype
        BY <4>1 DEF Etype, FixedEtype, Syscall, OpenatFamily, EV_EXIT_TRACKED,
           EV_FORK_TRACKED, EV_OPENAT_CREATE, EV_OPENAT_DIR, LifeEtype
      <4> QED
        BY <4>2 DEF SyscallEvent, Source, LifeEtype
    <3>3. t \in tracked_pids
      BY <1>1, <2>3 DEF FirstInv
    <3> HIDE DEF e
    <3>4. mishap' = {} => AllAnchored'
      BY <1>1, <2>1, <2>3, <3>1, <3>2, <3>3, AnchorReserve DEF LifeEtype
    <3> QED
      BY <1>12, <2>1, <3>4
  <2> QED
    BY <2>1, <2>2, <2>3 DEF emit_exit
<1> QED
  BY <1>3, <1>4, <1>5, <1>6, <1>7, <1>8, <1>9, <1>10, <1>11, <1>13, <1>14, <1>15 DEF TNext

(* A capture has the path of its event, and a base if the path starts from  *)
(* the cwd.                                                                 *)
FromCwd(e) == e.path \notin Absolute /\ e.dirfd = AT_FDCWD

CopyInv ==
  \A i \in 1..Len(events) :
    /\ events[i].path = log[events[i].seq].path
    /\ mishap = {} /\ FromCwd(log[events[i].seq]) => events[i].resolved_base # None

LEMMA CopyInit == TInit => CopyInv
<1> SUFFICES ASSUME TInit PROVE CopyInv
  OBVIOUS
<1>1. Len(events) = 0
  BY DEF TInit
<1> QED
  BY <1>1 DEF CopyInv

LEMMA CopyStep ==
  GroundInv /\ CaptureInv /\ AnchorInv /\ CopyInv /\ [TNext]_tracerVars => CopyInv'
<1> SUFFICES ASSUME GroundInv, CaptureInv, AnchorInv, CopyInv, [TNext]_tracerVars,
                    NEW i \in 1..Len(events')
             PROVE  /\ events'[i].path = log'[events'[i].seq].path
                    /\ mishap' = {} /\ FromCwd(log'[events'[i].seq])
                         => events'[i].resolved_base # None
  BY DEF CopyInv, FromCwd, AT_FDCWD
<1>1. /\ Plain(events) /\ Len(events) \in Nat /\ consumed \in Nat /\ Len(log) \in Nat
      /\ consumed <= Len(log) /\ (mishap' = {} => mishap = {})
  BY GroundFacts, PlainBefore DEF CaptureInv, Plain, GroundInv, TypesInv
<1>2. ASSUME NEW j \in 1..Len(events)
      PROVE  /\ events[j].path = log'[events[j].seq].path
             /\ mishap' = {} /\ FromCwd(log'[events[j].seq]) => events[j].resolved_base # None
  <2>1. events[j].seq \in 1..Len(log)
    BY <1>1 DEF CaptureInv, Made
  <2>2. log'[events[j].seq] = log[events[j].seq]
    BY <2>1, LogGrows DEF Grown, GroundInv, WatchInv
  <2> QED
    BY <1>1, <2>2 DEF CopyInv
<1>3. CASE UNCHANGED events
  BY <1>2, <1>3
<1>4. CASE Captures /\ ~(UNCHANGED events)
  <2> DEFINE e == log[consumed + 1]
             v == Captured(e)
  <2>1. /\ events' = Append(events, v) /\ UNCHANGED log /\ consumed < Len(log)
        /\ e.etype \in CreationEvent
    BY <1>4 DEF Captures, Takes, push_event
  <2>2. v.path = e.path /\ v.seq = consumed + 1 /\ v.resolved_base = ResolvedBase(e)
    BY DEF Captured
  <2>3. mishap' = {} /\ FromCwd(e) => ResolvedBase(e) # None
    <3> SUFFICES ASSUME mishap' = {}, FromCwd(e) PROVE ResolvedBase(e) # None
      OBVIOUS
    <3>1. Source(e) = e.pid
      BY <2>1 DEF Source, CreationEvent, EV_FORK_TRACKED, EV_OPENAT_CREATE
    <3>2. cwd_cache[e.pid] # None
      BY <1>1, <2>1, <3>1, HeadIsAnchored DEF AnchorInv
    <3> QED
      BY <3>2 DEF ResolvedBase, FromCwd, Cwd, OrElse
  <2> HIDE DEF v
  <2>4. (i \in 1..Len(events) /\ events'[i] = events[i]) \/ events'[i] = v
    BY <1>1, <2>1, AppendPlain
  <2>5. CASE events'[i] = v
    BY <2>1, <2>2, <2>3, <2>5
  <2> QED
    BY <1>2, <2>4, <2>5
<1> QED
  BY <1>3, <1>4, CaptureSteps DEF Aside, Skips, Untouched

EndToEndInv == ExactAll /\ DrainInv /\ CompleteInv /\ AnchorInv /\ CopyInv

LEMMA EndToEndInit == NInit => EndToEndInv
  BY ExactAllInit, DrainInit, CompleteInit, AnchorInit, CopyInit DEF NInit, EndToEndInv

LEMMA EndToEndStep == EndToEndInv /\ [NNext]_systemVars => EndToEndInv'
  BY ExactAllStep, DrainStep, CompleteKept, AnchorStep, CopyStep, StepOfTracer
  DEF EndToEndInv, ExactAll, SystemInv, GroundInv, TypesInv

(* With no loss on the way to the ring, no overflow of the capture and a    *)
(* poll of the drain that ran to its end, a file of the tree comes whole to *)
(* the filters, or was made too late: the probes put it in the log, the     *)
(* drain has it handled, the capture has it kept, and its base is known.    *)
LEMMA EndToEnd == EndToEndInv => CreationsReachTheFilters
<1> SUFFICES ASSUME EndToEndInv, pc \in {"emit", "done"}, cut < DrainPolls, mishap = {},
                    ~overflow_warned, NEW d \in 1..Len(done), done[d].member,
                    Creates(done[d].call), ByName(done[d].call),
                    PathLen[done[d].call.path] + 1 < PATH_BUF_SZ, ~TooLate(d)
             PROVE  Tells(d)
  BY DEF CreationsReachTheFilters
<1> DEFINE c == done[d].call
<1>1. PICK k \in 1..Len(log) : origin[k] = d
  BY DEF EndToEndInv, ExactAll, LossInv, NoSilentLoss
<1>2. /\ Len(log) \in Nat /\ consumed \in 0..Len(log) /\ owed \in 0..Len(log)
      /\ consumed >= owed /\ TypeOK /\ GenuineInv /\ StateOK
  BY DEF EndToEndInv, ExactAll, GroundInv, TypesInv, ProbesInv, TypeOK, DrainInv, MainTypeOK,
         RootEventsHandled
<1>3. k \in 1..consumed
  <2>1. k \notin (owed + 1)..Len(log)
    BY <1>1 DEF TooLate
  <2> QED
    BY <1>2, <2>1
<1>4. log[k].etype \in CreationEvent /\ Reports(log[k], done[d])
  <2>1. origin[k] # 0 /\ origin[k] = d
    BY <1>1
  <2> QED
    BY <1>1, <1>2, <2>1 DEF GenuineInv, Genuine, Reports
<1>5. k \in Made
  BY <1>3, <1>4 DEF Made
<1>6. PICK i \in 1..Len(events) : events[i].seq = k
  BY <1>5 DEF EndToEndInv, CompleteInv
<1>7. c \in Call /\ c.path \in Path
  <2>1. done[d] \in Done
    BY <1>2 DEF TypeOK
  <2>2. c \in Call
    BY <2>1 DEF Done
  <2>3. c.sys # "fchdir"
    BY DEF Creates, OpenatFamily
  <2>4. c.path # None
    BY <2>2, <2>3, CallAssumption
  <2> QED
    BY <2>2, <2>4, CallAssumption DEF Args
<1>8. PathLen[c.path] \in Nat /\ PATH_BUF_SZ \in Nat
  BY <1>7, CallAssumption, BoundAssumption
<1>9. ~log[k].truncated /\ log[k].path = c.path /\ log[k].dirfd = c.dirfd
  <2>1. ~(PathLen[c.path] + 1 >= PATH_BUF_SZ)
    BY <1>8
  <2> QED
    BY <1>4, <2>1 DEF Reports
<1>10. /\ ~events[i].truncated /\ events[i].path = c.path
       /\ FromCwd(log[k]) => events[i].resolved_base # None
  BY <1>6, <1>9 DEF EndToEndInv, ExactAll, ExactInv, CopyInv
<1>11. resolve(events[i]) # None
  <2>1. events[i] \in CapturedEvent
    BY <1>2 DEF StateOK
  <2>2. events[i].resolved_base \in Where \cup {None}
    BY <2>1 DEF CapturedEvent
  <2>3. CASE c.path \in Absolute
    BY <1>10, <2>3, PathAssumption DEF resolve, ResolveFrom
  <2>4. CASE c.path \notin Absolute
    <3>1. FromCwd(log[k])
      BY <1>9, <2>4 DEF ByName, FromCwd
    <3>2. events[i].resolved_base \in Where
      BY <1>10, <2>2, <3>1
    <3>3. Join[events[i].resolved_base][c.path] \in Where
      BY <1>7, <2>4, <3>2, PathAssumption
    <3> QED
      BY <1>10, <2>4, <3>2, <3>3, PathAssumption DEF resolve, ResolveFrom
  <2> QED
    BY <2>3, <2>4
<1> QED
  BY <1>1, <1>6, <1>10, <1>11 DEF Tells, Listable

(* For any number of tasks, threads, maps, ring and cap: unless a mishap    *)
(* has a name, the warning was given or every poll of the drain was cut     *)
(* short, each file the tree made by name before the root was found dead    *)
(* comes before the filters with a whole path (main.rs:163-167,             *)
(* output.rs:128).                                                          *)
THEOREM AllReachTheFilters == NSpec => []CreationsReachTheFilters
  BY EndToEndInit, EndToEndStep, EndToEnd, PTL DEF NSpec

-----------------------------------------------------------------------------
(* What holds of the parts holds of the whole.  To the probes a close is no *)
(* step at all.                                                             *)
ProbesKeep == ProbesInv /\ TrackedInv /\ LossInv /\ FirstInv

LEMMA ProbesKeepInit == TInit => ProbesKeep
  BY ProbesInit, TrackedInit, LossInit, FirstInit DEF TInit, ProbesKeep

LEMMA ProbesKeepStep == ProbesKeep /\ [TNext]_tracerVars => ProbesKeep'
<1> SUFFICES ASSUME ProbesKeep, [TNext]_tracerVars PROVE ProbesKeep'
  OBVIOUS
<1>1. ProbesInv' /\ LossInv'
  BY ProbesStep, LossKept DEF ProbesKeep
<1>2. CASE [Next]_vars
  BY <1>1, <1>2, TrackedStep, FirstStep DEF ProbesKeep, ProbesInv
<1>3. CASE Unseen
  <2>1. UNCHANGED <<task, seeded, reaped, tracked_pids, enter_ctx, tree, mishap, log>>
    BY <1>3 DEF Unseen, mapVars, historyVars
  <2>2. TrackedInv' /\ FirstInv'
    BY <2>1 DEF ProbesKeep, TrackedInv, FirstInv, InOrder, Announced
  <2> QED
    BY <1>1, <2>2 DEF ProbesKeep
<1> QED
  BY <1>2, <1>3, StepOfProbes

(* main only restricts when the tracer's steps are taken: a run of nocruft, *)
(* with start-up failures, Ctrl-C, events reserved but not submitted, polls *)
(* that return early and drain, is a run of the tracer (main.rs:105-167).   *)
THEOREM NocruftIsATracer == NSpec => TSpec
  BY StepOfTracer, PTL DEF NSpec, NInit, TSpec

(* So all that was proved of the probes and of the replay, each by itself,  *)
(* is true of a run of nocruft with everything in it.                       *)
THEOREM WholeRun ==
  NSpec => [](/\ StashIsCurrent /\ TrackedIsTree /\ Genuine /\ NoSilentLoss /\ ForkComesFirst
              /\ NoStaleEntries /\ CapKeepsPrefix /\ CaughtUp /\ ReportedWhereMade /\ ReportIsExact)
<1>1. ProbesKeep => StashIsCurrent /\ TrackedIsTree /\ Genuine /\ NoSilentLoss /\ ForkComesFirst
  BY FirstImplies DEF ProbesKeep, ProbesInv, GenuineInv, LossInv, TrackedInv, TrackedIsTree
<1>2. TSpec => []ProbesKeep
  BY ProbesKeepInit, ProbesKeepStep, PTL DEF TSpec
<1> QED
  BY <1>1, <1>2, NocruftIsATracer, NothingStale, CapKeepsPrefixAlways, ReplayCatchesUp,
     FilesAreReportedWhereMade, PlainRunsAreExact, PTL
=============================================================================
