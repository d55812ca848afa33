---------------------------- MODULE ReplayProofs ----------------------------
(* That the replay is exact where the log allows it: for every set of       *)
(* tasks, paths and descriptors, every size of the maps and the ring, and   *)
(* every interleaving of the tasks with the handling of their events.       *)
(*                                                                         *)
(* The two maps of the replay are taken cell by cell.  An event writes a    *)
(* cell, or not; what the cell will hold after the events up to n is the    *)
(* outcome of the last pending event that writes it, or what it holds now.  *)
EXTENDS TracerProofs

Moves == {EV_FORK_TRACKED, EV_EXIT_TRACKED, "CHDIR", "FCHDIR"}

WritesCwd(e, t) == e.pid = t /\ e.etype \in Moves
WritesFd(e, t, fd) ==
  e.pid = t /\ (e.etype = EV_EXIT_TRACKED \/ (e.etype = EV_OPENAT_DIR /\ e.result_fd = fd))

CwdWriters(l, t) == {i \in 1..Len(l) : WritesCwd(l[i], t)}
FdWriters(l, t, fd) == {i \in 1..Len(l) : WritesFd(l[i], t, fd)}

(* What an event writes, when the call started from b.dir                   *)
Outcome(e, b) ==
  IF e.etype \in {"CHDIR", EV_OPENAT_DIR} THEN ResolveFrom(b.dir, e.path) ELSE b.dir

Exact(e, b) == e.etype # EV_EXIT_TRACKED /\ b.sure

(* After the events m+1..n of log l, with bases b, the cell holds v.        *)
Will(l, b, m, W, cell, n, v) ==
  \/ W \cap ((m + 1)..n) = {} /\ cell = v
  \/ \E i \in W \cap ((m + 1)..n) :
       /\ \A j \in W \cap ((m + 1)..n) : j <= i
       /\ Exact(l[i], b[i]) /\ Outcome(l[i], b[i]) = v

LEMMA WillSame ==
  ASSUME NEW l, NEW b, NEW l2, NEW b2, NEW m, NEW W, NEW W2, NEW cell, NEW n, NEW v,
         Will(l, b, m, W, cell, n, v),
         W2 \cap ((m + 1)..n) = W \cap ((m + 1)..n),
         \A i \in W \cap ((m + 1)..n) : l2[i] = l[i] /\ b2[i] = b[i]
  PROVE  Will(l2, b2, m, W2, cell, n, v)
<1>1. CASE W \cap ((m + 1)..n) = {} /\ cell = v
  BY <1>1 DEF Will
<1>2. CASE \E i \in W \cap ((m + 1)..n) :
             /\ \A j \in W \cap ((m + 1)..n) : j <= i
             /\ Exact(l[i], b[i]) /\ Outcome(l[i], b[i]) = v
  <2>1. PICK i \in W \cap ((m + 1)..n) :
             /\ \A j \in W \cap ((m + 1)..n) : j <= i
             /\ Exact(l[i], b[i]) /\ Outcome(l[i], b[i]) = v
    BY <1>2
  <2>2. l2[i] = l[i] /\ b2[i] = b[i]
    BY <2>1
  <2> QED
    BY <2>1, <2>2 DEF Will
<1> QED
  BY <1>1, <1>2 DEF Will

(* An event that does not write the cell changes nothing.                   *)
LEMMA WillPass ==
  ASSUME NEW l, NEW b, NEW m \in Nat, NEW W, NEW cell, NEW n \in Nat, NEW v,
         Will(l, b, m, W, cell, n, v), n + 1 \notin W
  PROVE  Will(l, b, m, W, cell, n + 1, v)
<1>1. W \cap ((m + 1)..(n + 1)) = W \cap ((m + 1)..n)
  OBVIOUS
<1> QED
  BY <1>1 DEF Will

(* The last event decides.                                                  *)
LEMMA WillLast ==
  ASSUME NEW l, NEW b, NEW m \in Nat, NEW W, NEW cell, NEW n \in Nat, NEW v,
         m <= n, n + 1 \in W, Exact(l[n + 1], b[n + 1]), Outcome(l[n + 1], b[n + 1]) = v
  PROVE  Will(l, b, m, W, cell, n + 1, v)
<1>1. n + 1 \in W \cap ((m + 1)..(n + 1))
  OBVIOUS
<1>2. \A j \in W \cap ((m + 1)..(n + 1)) : j <= n + 1
  OBVIOUS
<1> QED
  BY <1>1, <1>2 DEF Will

(* The oldest pending event is handled.                                     *)
LEMMA WillTake ==
  ASSUME NEW l, NEW b, NEW m \in Nat, NEW W, NEW cell, NEW cell2, NEW n \in Nat, NEW v,
         m < n, Will(l, b, m, W, cell, n, v),
         m + 1 \in W /\ Exact(l[m + 1], b[m + 1]) => cell2 = Outcome(l[m + 1], b[m + 1]),
         m + 1 \notin W /\ cell = v => cell2 = v
  PROVE  Will(l, b, m + 1, W, cell2, n, v)
<1> DEFINE P == (m + 1)..n
           Q == (m + 1 + 1)..n
<1>1. Q = P \ {m + 1} /\ m + 1 \in P
  OBVIOUS
<1>2. CASE W \cap P = {} /\ cell = v
  <2>1. m + 1 \notin W /\ W \cap Q = {}
    BY <1>1, <1>2
  <2> QED
    BY <1>2, <2>1 DEF Will
<1>3. CASE \E i \in W \cap P : /\ \A j \in W \cap P : j <= i
                               /\ Exact(l[i], b[i]) /\ Outcome(l[i], b[i]) = v
  <2>1. PICK i \in W \cap P : /\ \A j \in W \cap P : j <= i
                              /\ Exact(l[i], b[i]) /\ Outcome(l[i], b[i]) = v
    BY <1>3
  <2>2. CASE i = m + 1
    <3>1. W \cap Q = {}
      BY <2>1, <2>2
    <3> QED
      BY <2>1, <2>2, <3>1 DEF Will
  <2>3. CASE i # m + 1
    <3>1. i \in W \cap Q /\ \A j \in W \cap Q : j <= i
      BY <1>1, <2>1, <2>3
    <3> QED
      BY <2>1, <3>1 DEF Will
  <2> QED
    BY <2>2, <2>3
<1> QED
  BY <1>2, <1>3 DEF Will

(* With no event pending the cell holds the value.                          *)
LEMMA WillNow ==
  ASSUME NEW l, NEW b, NEW m \in Nat, NEW W, NEW cell, NEW v
  PROVE  /\ Will(l, b, m, W, cell, m, v) => cell = v
         /\ cell = v => Will(l, b, m, W, cell, m, v)
<1>1. (m + 1)..m = {}
  OBVIOUS
<1> QED
  BY <1>1 DEF Will
-----------------------------------------------------------------------------
(* What the handling of an event rests on: the cwd of a task, one of its    *)
(* replayed descriptors, or one of its real ones.                           *)
Relative(e) ==
  e.etype \notin LifeEtype \cup {"FCHDIR"} /\ e.path \notin Absolute

NeedsCwd(e) ==
  \/ e.etype = EV_FORK_TRACKED
  \/ Relative(e) /\ (e.etype = "CHDIR" \/ e.dirfd = AT_FDCWD)
NeedsFd(e) ==
  \/ e.etype = "FCHDIR"
  \/ e.etype = EV_OPENAT_DIR /\ Relative(e) /\ e.dirfd # AT_FDCWD
NeedsProc(e) == e.etype \in CreationEvent /\ Relative(e) /\ e.dirfd # AT_FDCWD

Source(e) == IF e.etype = EV_FORK_TRACKED THEN e.ppid ELSE e.pid

(* The cells as they are, after the events up to n                          *)
WillCwd(t, n, v) == Will(log, base, consumed, CwdWriters(log, t), cwd_cache[t], n, v)
WillFd(t, fd, n, v) ==
  Will(log, base, consumed, FdWriters(log, t, fd), fd_map[t][fd], n, v)

(* A pending event that is to be exact finds what it rests on.              *)
CwdReady(i) ==
  NeedsCwd(log[i]) =>
    base[i].dir \in Where /\ WillCwd(Source(log[i]), i - 1, base[i].dir)
FdReady(i) ==
  NeedsFd(log[i]) =>
    base[i].dir \in Where /\ WillFd(log[i].pid, log[i].dirfd, i - 1, base[i].dir)
ProcReady(i) ==
  NeedsProc(log[i]) =>
    /\ base[i].dir \in Where /\ task[log[i].pid] = "running"
    /\ files[lead[log[i].pid]][log[i].dirfd] = base[i].dir

Ready(i) == base[i].sure => CwdReady(i) /\ FdReady(i) /\ ProcReady(i)

PendingInv == \A i \in (consumed + 1)..Len(log) : Ready(i)

(* Threads form groups around a leader that keeps its id, alive or not; only *)
(* a running task is in a call.                                             *)
KinInv ==
  /\ \A u \in Task : task[u] # "free" => task[lead[u]] # "free" /\ lead[lead[u]] = lead[u]
  /\ \A u \in Task : task[u] = "free" => lead[u] = u
  /\ \A u \in Task : call[u] # None => task[u] = "running"

KnownInv ==
  \A t \in known :
    task[t] = "running" /\ Alone(t) /\ WillCwd(t, Len(log), cwd[lead[t]])

MappedInv ==
  \A t \in Task : \A fd \in mapped[t] :
    /\ task[t] = "running" /\ files[lead[t]][fd] \in Where
    /\ WillFd(t, fd, Len(log), files[lead[t]][fd])

ReplayInv == KinInv /\ KnownInv /\ MappedInv /\ PendingInv

GroundInv == WatchInv /\ FreshInv /\ TypesInv

LEMMA GroundFacts ==
  ASSUME GroundInv
  PROVE  /\ consumed \in Nat /\ consumed <= Len(log) /\ Len(log) \in Nat
         /\ log \in Seq(Event) /\ \A i \in 1..Len(log) : log[i] \in Event /\ Shape(log[i])
         /\ base \in Seq(Base) /\ Len(base) = Len(log)
         /\ \A i \in 1..Len(log) : base[i] \in Base
<1>1. /\ consumed \in 0..Len(log) /\ Len(log) \in Nat /\ log \in Seq(Event)
      /\ base \in Seq(Base) /\ Len(base) = Len(log)
  BY DEF GroundInv, TypesInv, ProbesInv, TypeOK, BaseOK
<1>2. \A i \in 1..Len(log) : Shape(log[i])
  BY DEF GroundInv, TypesInv, Shaped
<1> QED
  BY <1>1, <1>2

(* A step of the kernel adds at most one event and takes certainty away     *)
(* from creations only.                                                     *)
Weakened(b, c) == b = c \/ b = [c EXCEPT !.sure = FALSE]

Frame ==
  /\ UNCHANGED <<consumed, cwd_cache, fd_map>>
  /\ Len(log') \in {Len(log), Len(log) + 1}
  /\ \A i \in 1..Len(log) :
       /\ log'[i] = log[i]
       /\ base'[i] = base[i] \/ (log[i].etype \in CreationEvent /\ Weakened(base'[i], base[i]))

LEMMA RememberFrame ==
  ASSUME GroundInv, [TNext]_tracerVars, UNCHANGED <<consumed, cwd_cache, fd_map>>,
         NEW o \in Base, NEW users, NEW fds, Remember(o, users, fds)
  PROVE  /\ Frame
         /\ Len(log') = Len(log) + 1 =>
              Logged /\ base'[Len(log) + 1] = o /\ log'[Len(log) + 1] \in Event
         /\ Len(log') = Len(log) => ~Logged
         /\ \A i \in (consumed + 1)..Len(log) :
              NeedsProc(log[i]) /\ base'[i].sure =>
                ~(log[i].pid \in users /\ log[i].dirfd \in fds)
<1> DEFINE b == [i \in DOMAIN base |->
              IF /\ i > consumed /\ log[i].pid \in users
                 /\ log[i].etype \in CreationEvent
                 /\ log[i].path \notin Absolute /\ log[i].dirfd \in fds
              THEN [base[i] EXCEPT !.sure = FALSE] ELSE base[i]]
           n == Len(log)
<1>1. /\ DOMAIN base = 1..n /\ n \in Nat /\ consumed \in Nat
      /\ \A i \in 1..n : base[i] \in Base
  BY GroundFacts
<1>2. b \in [1..n -> Base]
  BY <1>1 DEF Base
<1>3. /\ \A i \in 1..n :
           b[i] = base[i] \/ (log[i].etype \in CreationEvent /\ Weakened(b[i], base[i]))
      /\ \A i \in (consumed + 1)..n :
           NeedsProc(log[i]) /\ b[i].sure => ~(log[i].pid \in users /\ log[i].dirfd \in fds)
  <2>1. \A i \in 1..n :
           b[i] = base[i] \/ (log[i].etype \in CreationEvent /\ Weakened(b[i], base[i]))
    BY <1>1 DEF Weakened
  <2>2. ASSUME NEW i \in (consumed + 1)..n, NeedsProc(log[i]), b[i].sure,
               log[i].pid \in users, log[i].dirfd \in fds
        PROVE  FALSE
    <3>1. i \in 1..n /\ i > consumed
      BY <1>1
    <3>2. b[i] = [base[i] EXCEPT !.sure = FALSE]
      BY <1>1, <2>2, <3>1 DEF NeedsProc, Relative
    <3> QED
      BY <1>1, <2>2, <3>1, <3>2 DEF Base
  <2> QED
    BY <2>1, <2>2
<1>4. base' = IF Logged THEN Append(b, o) ELSE b
  BY DEF Remember
<1> HIDE DEF b
<1>5. b \in Seq(Base) /\ Len(b) = n
  BY <1>1, <1>2
<1>6. /\ Append(b, o)[n + 1] = o
      /\ \A i \in 1..n : Append(b, o)[i] = b[i]
  BY <1>5, AppendFacts
<1>7. \A i \in 1..n : base'[i] = b[i]
  BY <1>4, <1>6
<1>8. \/ LogStays /\ Len(log') = n /\ ~Logged
      \/ /\ Len(log') = n + 1 /\ Logged /\ log'[n + 1] \in Event
         /\ \A i \in 1..n : log'[i] = log[i]
  <2>1. CASE LogStays
    <3>1. Len(log') = n
      BY <2>1 DEF LogStays
    <3> HIDE DEF n
    <3>2. ~(Len(log') > n)
      BY <1>1, <3>1
    <3> QED
      BY <2>1, <3>1, <3>2 DEF Logged, n
  <2>2. CASE LogAdds
    <3>1. PICK e \in Event : Shape(e) /\ log' = Append(log, e)
      BY <2>2 DEF LogAdds
    <3>2. log \in Seq(Event)
      BY GroundFacts
    <3>3. /\ Len(log') = n + 1 /\ log'[n + 1] = e
          /\ \A i \in 1..n : log'[i] = log[i]
      BY <3>1, <3>2, AppendFacts
    <3> HIDE DEF n
    <3>4. Len(log') > n
      BY <1>1, <3>3
    <3> QED
      BY <3>3, <3>4 DEF Logged, n
  <2> QED
    BY <2>1, <2>2, LogStep DEF GroundInv, WatchInv
<1>9. \A i \in 1..n : log'[i] = log[i]
  BY <1>8 DEF LogStays
<1>10. Frame
  BY <1>3, <1>7, <1>8, <1>9 DEF Frame
<1>11. Len(log') = n + 1 => Logged /\ base'[n + 1] = o /\ log'[n + 1] \in Event
  <2>1. n # n + 1
    BY <1>1
  <2> HIDE DEF n
  <2> QED
    BY <1>4, <1>6, <1>8, <2>1
<1>12. Len(log') = n => ~Logged
  <2>1. n # n + 1
    BY <1>1
  <2> HIDE DEF n
  <2> QED
    BY <1>8, <2>1
<1>13. \A i \in (consumed + 1)..n : i \in 1..n
  BY <1>1
<1>14. \A i \in (consumed + 1)..n :
         NeedsProc(log[i]) /\ base'[i].sure => ~(log[i].pid \in users /\ log[i].dirfd \in fds)
  BY <1>3, <1>7, <1>13
<1> QED
  BY <1>10, <1>11, <1>12, <1>14

(* What a cell will hold does not change with it, but for the new event.    *)
LEMMA FrameCwd ==
  ASSUME GroundInv, Frame, NEW t, NEW n \in 0..Len(log), NEW v, WillCwd(t, n, v)
  PROVE  /\ Will(log', base', consumed', CwdWriters(log', t), cwd_cache'[t], n, v)
         /\ n = Len(log) /\ (Len(log') = n + 1 => ~WritesCwd(log'[n + 1], t)) =>
              Will(log', base', consumed', CwdWriters(log', t), cwd_cache'[t], Len(log'), v)
<1> DEFINE W == CwdWriters(log, t)
           W2 == CwdWriters(log', t)
           P == (consumed + 1)..n
<1>1. /\ consumed \in Nat /\ Len(log) \in Nat /\ n \in Nat
      /\ Len(log') \in {Len(log), Len(log) + 1}
      /\ consumed' = consumed /\ cwd_cache' = cwd_cache
  BY GroundFacts DEF Frame
<1>2. \A i \in P : i \in 1..Len(log) /\ i \in 1..Len(log') /\ log'[i] = log[i]
  BY <1>1 DEF Frame
<1>3. W2 \cap P = W \cap P
  BY <1>2 DEF CwdWriters
<1>4. \A i \in W \cap P : log'[i] = log[i] /\ base'[i] = base[i]
  <2> SUFFICES ASSUME NEW i \in W \cap P PROVE log'[i] = log[i] /\ base'[i] = base[i]
    OBVIOUS
  <2>1. log[i].etype \in Moves /\ i \in 1..Len(log)
    BY <1>2 DEF CwdWriters, WritesCwd
  <2>2. log[i].etype \notin CreationEvent
    BY <2>1 DEF Moves, CreationEvent, EV_FORK_TRACKED, EV_EXIT_TRACKED, EV_OPENAT_CREATE
  <2> QED
    BY <2>1, <2>2 DEF Frame
<1>5. Will(log', base', consumed, W2, cwd_cache'[t], n, v)
  <2>1. Will(log, base, consumed, W, cwd_cache'[t], n, v)
    BY <1>1 DEF WillCwd
  <2> HIDE DEF W, W2
  <2> QED
    BY <1>3, <1>4, <2>1, WillSame
<1>6. ASSUME n = Len(log), Len(log') = n + 1 => ~WritesCwd(log'[n + 1], t)
      PROVE  Will(log', base', consumed, W2, cwd_cache'[t], Len(log'), v)
  <2>1. CASE Len(log') = n
    BY <1>5, <2>1
  <2>2. CASE Len(log') = n + 1
    <3>1. n + 1 \notin W2
      BY <1>6, <2>2 DEF CwdWriters
    <3> HIDE DEF W2
    <3> QED
      BY <1>1, <1>5, <2>2, <3>1, WillPass
  <2> QED
    BY <1>1, <1>6, <2>1, <2>2
<1> QED
  BY <1>1, <1>5, <1>6

LEMMA FrameFd ==
  ASSUME GroundInv, Frame, NEW t, NEW fd, NEW n \in 0..Len(log), NEW v, WillFd(t, fd, n, v)
  PROVE  /\ Will(log', base', consumed', FdWriters(log', t, fd), fd_map'[t][fd], n, v)
         /\ n = Len(log) /\ (Len(log') = n + 1 => ~WritesFd(log'[n + 1], t, fd)) =>
              Will(log', base', consumed', FdWriters(log', t, fd), fd_map'[t][fd], Len(log'), v)
<1> DEFINE W == FdWriters(log, t, fd)
           W2 == FdWriters(log', t, fd)
           P == (consumed + 1)..n
<1>1. /\ consumed \in Nat /\ Len(log) \in Nat /\ n \in Nat
      /\ Len(log') \in {Len(log), Len(log) + 1}
      /\ consumed' = consumed /\ fd_map' = fd_map
  BY GroundFacts DEF Frame
<1>2. \A i \in P : i \in 1..Len(log) /\ i \in 1..Len(log') /\ log'[i] = log[i]
  BY <1>1 DEF Frame
<1>3. W2 \cap P = W \cap P
  BY <1>2 DEF FdWriters
<1>4. \A i \in W \cap P : log'[i] = log[i] /\ base'[i] = base[i]
  <2> SUFFICES ASSUME NEW i \in W \cap P PROVE log'[i] = log[i] /\ base'[i] = base[i]
    OBVIOUS
  <2>1. log[i].etype \in {EV_EXIT_TRACKED, EV_OPENAT_DIR} /\ i \in 1..Len(log)
    BY <1>2 DEF FdWriters, WritesFd
  <2>2. log[i].etype \notin CreationEvent
    BY <2>1 DEF CreationEvent, EV_EXIT_TRACKED, EV_OPENAT_DIR, EV_OPENAT_CREATE
  <2> QED
    BY <2>1, <2>2 DEF Frame
<1>5. Will(log', base', consumed, W2, fd_map'[t][fd], n, v)
  <2>1. Will(log, base, consumed, W, fd_map'[t][fd], n, v)
    BY <1>1 DEF WillFd
  <2> HIDE DEF W, W2
  <2> QED
    BY <1>3, <1>4, <2>1, WillSame
<1>6. ASSUME n = Len(log), Len(log') = n + 1 => ~WritesFd(log'[n + 1], t, fd)
      PROVE  Will(log', base', consumed, W2, fd_map'[t][fd], Len(log'), v)
  <2>1. CASE Len(log') = n
    BY <1>5, <2>1
  <2>2. CASE Len(log') = n + 1
    <3>1. n + 1 \notin W2
      BY <1>6, <2>2 DEF FdWriters
    <3> HIDE DEF W2
    <3> QED
      BY <1>1, <1>5, <2>2, <3>1, WillPass
  <2> QED
    BY <1>1, <1>6, <2>1, <2>2
<1> QED
  BY <1>1, <1>5, <1>6

(* A pending event stays ready as long as its descriptor stands.            *)
LEMMA FrameReady ==
  ASSUME GroundInv, Frame, NEW i \in (consumed + 1)..Len(log), Ready(i),
         NeedsProc(log[i]) /\ base'[i].sure =>
           /\ task'[log[i].pid] = "running"
           /\ files'[lead'[log[i].pid]][log[i].dirfd] = files[lead[log[i].pid]][log[i].dirfd]
  PROVE  Ready(i)'
<1>1. i \in 1..Len(log) /\ i - 1 \in 0..Len(log) /\ base[i] \in Base
  BY GroundFacts
<1>2. log'[i] = log[i]
  BY <1>1 DEF Frame
<1>3. base'[i].dir = base[i].dir /\ (base'[i].sure => base[i].sure)
  BY <1>1 DEF Frame, Weakened, Base
<1>4. ASSUME base'[i].sure PROVE CwdReady(i)'
  <2> DEFINE t == Source(log[i])
             v == base[i].dir
  <2>1. NeedsCwd(log[i]) => v \in Where /\ WillCwd(t, i - 1, v)
    BY <1>3, <1>4 DEF Ready, CwdReady
  <2> HIDE DEF t, v
  <2>2. WillCwd(t, i - 1, v) =>
          Will(log', base', consumed', CwdWriters(log', t), cwd_cache'[t], i - 1, v)
    BY <1>1, FrameCwd
  <2> QED
    BY <1>2, <1>3, <2>1, <2>2 DEF CwdReady, WillCwd, t, v
<1>5. ASSUME base'[i].sure PROVE FdReady(i)'
  <2> DEFINE t == log[i].pid
             fd == log[i].dirfd
             v == base[i].dir
  <2>1. NeedsFd(log[i]) => v \in Where /\ WillFd(t, fd, i - 1, v)
    BY <1>3, <1>5 DEF Ready, FdReady
  <2> HIDE DEF t, fd, v
  <2>2. WillFd(t, fd, i - 1, v) =>
          Will(log', base', consumed', FdWriters(log', t, fd), fd_map'[t][fd], i - 1, v)
    BY <1>1, FrameFd
  <2> QED
    BY <1>2, <1>3, <2>1, <2>2 DEF FdReady, WillFd, t, fd, v
<1>6. ASSUME base'[i].sure PROVE ProcReady(i)'
  BY <1>2, <1>3, <1>6 DEF Ready, ProcReady
<1> QED
  BY <1>4, <1>5, <1>6 DEF Ready
-----------------------------------------------------------------------------
(* What a step of the kernel has to show.                                  *)
Adds == Len(log') = Len(log) + 1
New == log'[Len(log) + 1]
NewBase == base'[Len(log) + 1]

KeepsCwd(t) ==
  t \in known /\ cwd'[lead'[t]] = cwd[lead[t]] /\ (Adds => ~WritesCwd(New, t))
GainsCwd(t) ==
  /\ Adds /\ WritesCwd(New, t) /\ Exact(New, NewBase)
  /\ Outcome(New, NewBase) = cwd'[lead'[t]]

KeepsFd(t, fd) ==
  /\ fd \in mapped[t] /\ files'[lead'[t]][fd] = files[lead[t]][fd]
  /\ Adds => ~WritesFd(New, t, fd)
GainsFd(t, fd) ==
  /\ Adds /\ WritesFd(New, t, fd) /\ Exact(New, NewBase)
  /\ Outcome(New, NewBase) = files'[lead'[t]][fd] /\ files'[lead'[t]][fd] \in Where

KnownMoves ==
  \A t \in known' :
    task'[t] = "running" /\ Sharers(t)' = {t} /\ (KeepsCwd(t) \/ GainsCwd(t))
MappedMoves ==
  \A t \in Task : \A fd \in mapped'[t] :
    task'[t] = "running" /\ (KeepsFd(t, fd) \/ GainsFd(t, fd))
PendingStands ==
  \A i \in (consumed + 1)..Len(log) : NeedsProc(log[i]) /\ base[i].sure /\ base'[i].sure =>
    /\ task'[log[i].pid] = "running"
    /\ files'[lead'[log[i].pid]][log[i].dirfd] = files[lead[log[i].pid]][log[i].dirfd]
NewIsReady ==
  Adds /\ NewBase.sure =>
    /\ NeedsCwd(New) =>
         Source(New) \in known /\ NewBase.dir = cwd[lead[Source(New)]]
    /\ NeedsFd(New) =>
         /\ New.pid \in Task /\ New.dirfd \in mapped[New.pid]
         /\ NewBase.dir = files[lead[New.pid]][New.dirfd]
    /\ NeedsProc(New) =>
         /\ NewBase.dir \in Where /\ task'[New.pid] = "running"
         /\ files'[lead'[New.pid]][New.dirfd] = NewBase.dir

KernelStep == Frame /\ KinInv' /\ KnownMoves /\ MappedMoves /\ PendingStands /\ NewIsReady

LEMMA CwdGained ==
  ASSUME GroundInv, Frame, NEW t, GainsCwd(t)
  PROVE  Will(log', base', consumed', CwdWriters(log', t), cwd_cache'[t], Len(log'),
              cwd'[lead'[t]])
<1> DEFINE n == Len(log)
           W == CwdWriters(log', t)
<1>1. consumed \in Nat /\ consumed <= n /\ n \in Nat /\ consumed' = consumed
  BY GroundFacts DEF Frame
<1>2. Len(log') = n + 1 /\ n + 1 \in W
  BY <1>1 DEF GainsCwd, Adds, New, CwdWriters
<1>3. Exact(log'[n + 1], base'[n + 1]) /\ Outcome(log'[n + 1], base'[n + 1]) = cwd'[lead'[t]]
  BY DEF GainsCwd, New, NewBase
<1> HIDE DEF W, n
<1>4. Will(log', base', consumed, W, cwd_cache'[t], n + 1, cwd'[lead'[t]])
  BY <1>1, <1>2, <1>3, WillLast
<1> QED
  BY <1>1, <1>2, <1>4 DEF W

LEMMA FdGained ==
  ASSUME GroundInv, Frame, NEW t, NEW fd, GainsFd(t, fd)
  PROVE  Will(log', base', consumed', FdWriters(log', t, fd), fd_map'[t][fd], Len(log'),
              files'[lead'[t]][fd])
<1> DEFINE n == Len(log)
           W == FdWriters(log', t, fd)
<1>1. consumed \in Nat /\ consumed <= n /\ n \in Nat /\ consumed' = consumed
  BY GroundFacts DEF Frame
<1>2. Len(log') = n + 1 /\ n + 1 \in W
  BY <1>1 DEF GainsFd, Adds, New, FdWriters
<1>3. /\ Exact(log'[n + 1], base'[n + 1])
      /\ Outcome(log'[n + 1], base'[n + 1]) = files'[lead'[t]][fd]
  BY DEF GainsFd, New, NewBase
<1> HIDE DEF W, n
<1>4. Will(log', base', consumed, W, fd_map'[t][fd], n + 1, files'[lead'[t]][fd])
  BY <1>1, <1>2, <1>3, WillLast
<1> QED
  BY <1>1, <1>2, <1>4 DEF W

LEMMA KernelKeeps == GroundInv /\ ReplayInv /\ KernelStep => ReplayInv'
<1> SUFFICES ASSUME GroundInv, ReplayInv, KernelStep PROVE ReplayInv'
  OBVIOUS
<1> DEFINE n == Len(log)
<1>1. /\ consumed \in Nat /\ n \in Nat /\ consumed <= n /\ n \in 0..n
      /\ consumed' = consumed /\ Len(log') \in {n, n + 1} /\ Frame
  BY GroundFacts DEF KernelStep, Frame
<1>2. KnownInv'
  <2> SUFFICES ASSUME NEW t \in known'
               PROVE  /\ task'[t] = "running" /\ Sharers(t)' = {t}
                      /\ Will(log', base', consumed', CwdWriters(log', t), cwd_cache'[t],
                              Len(log'), cwd'[lead'[t]])
    BY DEF KnownInv, Alone, WillCwd
  <2>1. task'[t] = "running" /\ Sharers(t)' = {t}
    BY DEF KernelStep, KnownMoves
  <2>2. CASE KeepsCwd(t)
    <3> DEFINE v == cwd[lead[t]]
    <3>1. WillCwd(t, n, v)
      BY <2>2 DEF KeepsCwd, ReplayInv, KnownInv
    <3>2. Len(log') = n + 1 => ~WritesCwd(log'[n + 1], t)
      BY <2>2 DEF KeepsCwd, Adds, New
    <3> HIDE DEF v
    <3>3. Will(log', base', consumed', CwdWriters(log', t), cwd_cache'[t], Len(log'), v)
      BY <1>1, <3>1, <3>2, FrameCwd
    <3> QED
      BY <2>1, <2>2, <3>3 DEF KeepsCwd, v
  <2>3. CASE GainsCwd(t)
    BY <1>1, <2>1, <2>3, CwdGained
  <2> QED
    BY <2>2, <2>3 DEF KernelStep, KnownMoves
<1>3. MappedInv'
  <2> SUFFICES ASSUME NEW t \in Task, NEW fd \in mapped'[t]
               PROVE  /\ task'[t] = "running" /\ files'[lead'[t]][fd] \in Where
                      /\ Will(log', base', consumed', FdWriters(log', t, fd), fd_map'[t][fd],
                              Len(log'), files'[lead'[t]][fd])
    BY DEF MappedInv, WillFd
  <2>1. task'[t] = "running"
    BY DEF KernelStep, MappedMoves
  <2>2. CASE KeepsFd(t, fd)
    <3> DEFINE v == files[lead[t]][fd]
    <3>1. WillFd(t, fd, n, v) /\ v \in Where
      BY <2>2 DEF KeepsFd, ReplayInv, MappedInv
    <3>2. Len(log') = n + 1 => ~WritesFd(log'[n + 1], t, fd)
      BY <2>2 DEF KeepsFd, Adds, New
    <3> HIDE DEF v
    <3>3. Will(log', base', consumed', FdWriters(log', t, fd), fd_map'[t][fd], Len(log'), v)
      BY <1>1, <3>1, <3>2, FrameFd
    <3> QED
      BY <2>1, <2>2, <3>1, <3>3 DEF KeepsFd, v
  <2>3. CASE GainsFd(t, fd)
    <3>1. files'[lead'[t]][fd] \in Where
      BY <2>3 DEF GainsFd
    <3> QED
      BY <1>1, <2>1, <2>3, <3>1, FdGained
  <2> QED
    BY <2>2, <2>3 DEF KernelStep, MappedMoves
<1>4. ASSUME NEW i \in (consumed + 1)..n PROVE Ready(i)'
  <2>1. Ready(i)
    BY DEF ReplayInv, PendingInv
  <2>2. base'[i].sure => base[i].sure
    <3>1. i \in 1..n /\ base[i] \in Base
      BY <1>1, GroundFacts
    <3> QED
      BY <1>1, <3>1 DEF Frame, Weakened, Base
  <2>3. NeedsProc(log[i]) /\ base'[i].sure =>
          /\ task'[log[i].pid] = "running"
          /\ files'[lead'[log[i].pid]][log[i].dirfd] = files[lead[log[i].pid]][log[i].dirfd]
    BY <2>2 DEF KernelStep, PendingStands
  <2>4. i \in (consumed + 1)..Len(log)
    OBVIOUS
  <2> HIDE DEF n
  <2> QED
    BY <1>1, <2>1, <2>3, <2>4, FrameReady
<1>5. ASSUME NEW k \in Nat, k = n + 1, Len(log') = k, base'[k].sure PROVE Ready(k)'
  <2> DEFINE e == log'[k]
             b == base'[k]
  <2>1. e = New /\ b = NewBase /\ Adds
    BY <1>5 DEF New, NewBase, Adds
  <2>2. k - 1 = n
    BY <1>1, <1>5
  <2>3. NeedsCwd(e) =>
          /\ b.dir \in Where
          /\ Will(log', base', consumed', CwdWriters(log', Source(e)), cwd_cache'[Source(e)],
                  k - 1, b.dir)
    <3> SUFFICES ASSUME NeedsCwd(e) PROVE
          /\ b.dir \in Where
          /\ Will(log', base', consumed', CwdWriters(log', Source(e)), cwd_cache'[Source(e)],
                  n, b.dir)
      BY <2>2
    <3> DEFINE t == Source(e)
               v == b.dir
    <3>1. t \in known /\ v = cwd[lead[t]]
      BY <1>5, <2>1 DEF KernelStep, NewIsReady
    <3>2. v \in Where
      BY <3>1, PathAssumption DEF GroundInv, TypesInv, WorldOK
    <3>3. WillCwd(t, n, v)
      BY <3>1 DEF ReplayInv, KnownInv
    <3> HIDE DEF t, v
    <3>4. Will(log', base', consumed', CwdWriters(log', t), cwd_cache'[t], n, v)
      BY <1>1, <3>3, FrameCwd
    <3> QED
      BY <3>2, <3>4 DEF t, v
  <2>4. NeedsFd(e) =>
          /\ b.dir \in Where
          /\ Will(log', base', consumed', FdWriters(log', e.pid, e.dirfd), fd_map'[e.pid][e.dirfd],
                  k - 1, b.dir)
    <3> SUFFICES ASSUME NeedsFd(e) PROVE
          /\ b.dir \in Where
          /\ Will(log', base', consumed', FdWriters(log', e.pid, e.dirfd), fd_map'[e.pid][e.dirfd],
                  n, b.dir)
      BY <2>2
    <3> DEFINE t == e.pid
               fd == e.dirfd
               v == b.dir
    <3>1. t \in Task /\ fd \in mapped[t] /\ v = files[lead[t]][fd]
      BY <1>5, <2>1 DEF KernelStep, NewIsReady
    <3>2. v \in Where /\ WillFd(t, fd, n, v)
      BY <3>1 DEF ReplayInv, MappedInv
    <3> HIDE DEF t, fd, v
    <3>3. Will(log', base', consumed', FdWriters(log', t, fd), fd_map'[t][fd], n, v)
      BY <1>1, <3>2, FrameFd
    <3> QED
      BY <3>2, <3>3 DEF t, fd, v
  <2>5. NeedsProc(e) =>
          /\ b.dir \in Where /\ task'[e.pid] = "running"
          /\ files'[lead'[e.pid]][e.dirfd] = b.dir
    BY <1>5, <2>1 DEF KernelStep, NewIsReady
  <2> HIDE DEF n
  <2>6. CwdReady(k)' /\ FdReady(k)' /\ ProcReady(k)'
    BY <2>3, <2>4, <2>5 DEF CwdReady, FdReady, ProcReady, WillCwd, WillFd
  <2> QED
    BY <2>6 DEF Ready
<1>6. PendingInv'
  <2> SUFFICES ASSUME NEW i \in (consumed + 1)..Len(log') PROVE Ready(i)'
    BY <1>1 DEF PendingInv
  <2>1. i \in (consumed + 1)..n \/ (i = n + 1 /\ Len(log') = i /\ i \in Nat)
    BY <1>1
  <2>2. CASE ~base'[i].sure
    BY <2>2 DEF Ready
  <2> HIDE DEF n
  <2> QED
    BY <1>4, <1>5, <2>1, <2>2
<1> QED
  BY <1>2, <1>3, <1>6 DEF ReplayInv, KernelStep
-----------------------------------------------------------------------------
(* The steps of the kernel, one by one.                                    *)
LEMMA KinFacts ==
  ASSUME GroundInv, ReplayInv
  PROVE  /\ lead \in [Task -> Task] /\ known \subseteq Task
         /\ cwd \in [Task -> Dir] /\ files \in [Task -> [Fd -> Dir \cup {None}]]
         /\ mapped \in [Task -> SUBSET Fd]
         /\ task \in [Task -> {"free", "running", "zombie"}]
         /\ call \in [Task -> Call \cup {None}]
         /\ \A u \in Task : task[u] # "free" =>
              task[lead[u]] # "free" /\ lead[lead[u]] = lead[u]
         /\ \A u \in Task : task[u] = "free" => lead[u] = u
         /\ \A t \in known : task[t] = "running" /\ Sharers(t) = {t}
         /\ \A t \in Task : \A fd \in mapped[t] :
              task[t] = "running" /\ files[lead[t]][fd] \in Where
         /\ None \notin Where /\ Dir \subseteq Where
<1>1. WorldOK /\ TypeOK
  BY DEF GroundInv, TypesInv, ProbesInv
<1>2. \A t \in known : task[t] = "running" /\ Sharers(t) = {t}
  BY DEF ReplayInv, KnownInv, Alone
<1>3. \A t \in Task : \A fd \in mapped[t] :
        task[t] = "running" /\ files[lead[t]][fd] \in Where
  BY DEF ReplayInv, MappedInv
<1> QED
  BY <1>1, <1>2, <1>3, PathAssumption DEF WorldOK, TypeOK, ReplayInv, KinInv

(* A pending creation by descriptor that is sure stands on its descriptor.  *)
LEMMA PendingFacts ==
  ASSUME GroundInv, ReplayInv, NEW i \in (consumed + 1)..Len(log),
         NeedsProc(log[i]), base[i].sure
  PROVE  /\ log[i].pid \in Task /\ log[i].dirfd \in Fd
         /\ task[log[i].pid] = "running"
         /\ files[lead[log[i].pid]][log[i].dirfd] \in Where
<1>1. i \in 1..Len(log) /\ log[i] \in Event /\ Shape(log[i])
  BY GroundFacts
<1>2. log[i].pid \in Task /\ log[i].dirfd \in Fd
  BY <1>1 DEF Event, Shape, NeedsProc, Relative, Dirfd
<1>3. Ready(i)
  BY DEF ReplayInv, PendingInv
<1> QED
  BY <1>2, <1>3 DEF Ready, ProcReady

LEMMA QuietStep ==
  ASSUME GroundInv, ReplayInv, KinInv',
         UNCHANGED <<cwd, files, replayVars, log, consumed, cwd_cache, fd_map>>,
         \A u \in Task : task[u] = "running" => task'[u] = "running" /\ lead'[u] = lead[u],
         \A u \in Task : task'[u] = "running" =>
           task[u] = "running" \/ (task[u] = "free" /\ lead'[u] = u)
  PROVE  ReplayInv'
<1>1. /\ Len(log) \in Nat /\ Len(log') = Len(log)
      /\ UNCHANGED <<cwd, files, base, known, mapped, consumed, cwd_cache, fd_map>>
  BY GroundFacts DEF replayVars
<1>2. ~Adds /\ Frame
  BY <1>1 DEF Adds, Frame
<1>4. KnownMoves
  <2> SUFFICES ASSUME NEW t \in known
               PROVE  task'[t] = "running" /\ Sharers(t)' = {t} /\ KeepsCwd(t)
    BY <1>1 DEF KnownMoves
  <2>1. t \in Task /\ task[t] = "running" /\ Sharers(t) = {t} /\ task[lead[t]] # "free"
    BY KinFacts
  <2>2. \A u \in Task : task'[u] = "running" /\ lead'[u] = lead'[t]
          <=> task[u] = "running" /\ lead[u] = lead[t]
    BY <2>1, KinFacts
  <2>3. Sharers(t)' = {u \in Task : task'[u] = "running" /\ lead'[u] = lead'[t]}
    BY DEF Sharers
  <2>4. Sharers(t)' = Sharers(t)
    BY <2>2, <2>3 DEF Sharers
  <2> QED
    BY <1>1, <1>2, <2>1, <2>4 DEF KeepsCwd
<1>5. MappedMoves
  BY <1>1, <1>2, KinFacts DEF MappedMoves, KeepsFd
<1>6. PendingStands
  BY <1>1, PendingFacts DEF PendingStands
<1>7. KernelStep
  BY <1>2, <1>4, <1>5, <1>6 DEF KernelStep, NewIsReady
<1> QED
  BY <1>7, KernelKeeps

LEMMA ForkReplay ==
  ASSUME GroundInv, ReplayInv, [TNext]_tracerVars, NEW p \in Task, NEW c \in Task, TFork(p, c)
  PROVE  ReplayInv'
<1> DEFINE o == [dir |-> cwd[lead[p]], sure |-> p \in known]
           n == Len(log)
<1>1. /\ Remember(o, {}, {}) /\ UNCHANGED <<consumed, cwd_cache, fd_map, call>>
      /\ task[p] = "running" /\ task[c] = "free" /\ p # c
      /\ task' = [task EXCEPT ![c] = "running"] /\ handle_fork(p, c)
  BY DEF TFork, Fork, stateVars
<1>2. o \in Base
  BY KinFacts DEF Base
<1>3. /\ Frame
      /\ Adds => Logged /\ NewBase = o /\ New \in Event
      /\ ~Adds => ~Logged
  <2> HIDE DEF o
  <2> QED
    BY <1>1, <1>2, RememberFrame DEF Adds, New, NewBase, Frame
<1>4. Adds => New = LifeEvent(EV_FORK_TRACKED, c, p)
  <2>1. n \in Nat /\ log \in Seq(Event)
    BY GroundFacts
  <2>2. LifeEvent(EV_FORK_TRACKED, c, p) \in Event
    BY LifeEventType
  <2>3. \/ log' = log
        \/ log' = Append(log, LifeEvent(EV_FORK_TRACKED, c, p))
    BY <1>1 DEF handle_fork, Reserve
  <2> QED
    BY <2>1, <2>2, <2>3, AppendFacts DEF Adds, New
<1>5. Adds => New.etype = EV_FORK_TRACKED /\ New.pid = c /\ New.ppid = p
  BY <1>4 DEF LifeEvent
<1>6. \A u \in Task \ {c} : task'[u] = task[u]
  BY <1>1, KinFacts
<1>7. task'[c] = "running" /\ c \notin known /\ lead[c] = c
  BY <1>1, KinFacts
<1>12. o.dir = cwd[lead[p]] /\ (o.sure <=> p \in known)
  BY Zenon
<1>8. NewIsReady
  <2> SUFFICES ASSUME Adds, NewBase.sure PROVE NewIsReady
    BY DEF NewIsReady
  <2>1. p \in known /\ NewBase.dir = cwd[lead[p]] /\ Source(New) = p
    <3> HIDE DEF o
    <3> QED
      BY <1>3, <1>5, <1>12 DEF Source
  <2>2. ~NeedsFd(New) /\ ~NeedsProc(New)
    BY <1>5 DEF NeedsFd, NeedsProc, CreationEvent, EV_FORK_TRACKED, EV_OPENAT_DIR,
                EV_OPENAT_CREATE
  <2> QED
    BY <2>1, <2>2 DEF NewIsReady
<1>9. \A t \in Task \ {c} : \A fd :
         (Adds => ~WritesCwd(New, t)) /\ (Adds => ~WritesFd(New, t, fd))
  BY <1>5 DEF WritesCwd, WritesFd
<1>10. CASE /\ lead' = [lead EXCEPT ![c] = c]
            /\ cwd' = [cwd EXCEPT ![c] = cwd[lead[p]]]
            /\ files' = [files EXCEPT ![c] = files[lead[p]]]
            /\ known' = (known \ {c}) \cup {u \in {c} : p \in known /\ Logged}
            /\ mapped' = [mapped EXCEPT ![c] = {}]
  <2>1. /\ \A t \in Task \ {c} : lead'[t] = lead[t] /\ mapped'[t] = mapped[t]
        /\ \A t \in Task \ {c} : cwd'[t] = cwd[t] /\ files'[t] = files[t]
        /\ lead'[c] = c /\ mapped'[c] = {} /\ cwd'[c] = cwd[lead[p]]
    BY <1>10, KinFacts
  <2>2. KinInv'
    <3>1. \A u \in Task \ {c} : (lead[u] # c /\ lead[u] \in Task) \/ task[u] = "free"
      BY <1>1, KinFacts
    <3>2. \A u \in Task : task'[u] # "free" => task'[lead'[u]] # "free"
      BY <1>1, <1>6, <1>7, <2>1, <3>1, KinFacts
    <3>3. \A u \in Task : task'[u] # "free" => lead'[lead'[u]] = lead'[u]
      BY <1>1, <1>6, <1>7, <2>1, <3>1, KinFacts
    <3>4. \A u \in Task : task'[u] = "free" => lead'[u] = u
      BY <1>6, <1>7, <2>1, KinFacts
    <3>5. \A u \in Task : call'[u] # None => task'[u] = "running"
      BY <1>1, <1>6, <1>7 DEF KinInv, ReplayInv
    <3> QED
      BY <3>2, <3>3, <3>4, <3>5 DEF KinInv
  <2>3. \A t \in Task \ {c} : task[t] = "running" =>
          cwd'[lead'[t]] = cwd[lead[t]] /\ files'[lead'[t]] = files[lead[t]]
    BY <1>1, <2>1, KinFacts
  <2>4. KnownMoves
    <3> SUFFICES ASSUME NEW t \in known'
                 PROVE  /\ task'[t] = "running" /\ Sharers(t)' = {t}
                        /\ KeepsCwd(t) \/ GainsCwd(t)
      BY DEF KnownMoves
    <3>1. CASE t = c
      <4>1. p \in known /\ Adds
        BY <1>3, <1>7, <1>10, <3>1
      <4>2. \A u \in Task : task'[u] = "running" /\ lead'[u] = c => u = c
        BY <1>1, <1>6, <2>1, KinFacts
      <4>3. Sharers(t)' = {t}
        BY <1>7, <2>1, <3>1, <4>2 DEF Sharers
      <4>4. GainsCwd(t)
        <5> HIDE DEF o
        <5>1. NewBase.sure /\ NewBase.dir = cwd'[lead'[c]]
          BY <1>3, <1>12, <2>1, <4>1
        <5> QED
          BY <1>5, <3>1, <4>1, <5>1
          DEF GainsCwd, WritesCwd, Exact, Outcome, Moves, EV_FORK_TRACKED, EV_EXIT_TRACKED,
              EV_OPENAT_DIR
      <4> QED
        BY <1>7, <3>1, <4>3, <4>4
    <3>2. CASE t # c
      <4>1. t \in known /\ t \in Task /\ task[t] = "running" /\ Sharers(t) = {t}
        BY <1>10, <3>2, KinFacts
      <4>2. \A u \in Task : task'[u] = "running" /\ lead'[u] = lead'[t] =>
              task[u] = "running" /\ lead[u] = lead[t]
        BY <1>1, <1>6, <2>1, <3>2, <4>1, KinFacts
      <4>3. Sharers(t)' = {t}
        <5>1. Sharers(t)' \subseteq Sharers(t)
          BY <4>2 DEF Sharers
        <5>2. t \in Sharers(t)'
          BY <1>6, <3>2, <4>1 DEF Sharers
        <5> QED
          BY <4>1, <5>1, <5>2
      <4>4. KeepsCwd(t)
        BY <1>9, <2>3, <3>2, <4>1 DEF KeepsCwd
      <4> QED
        BY <1>6, <3>2, <4>1, <4>3, <4>4
    <3> QED
      BY <3>1, <3>2
  <2>5. MappedMoves
    <3> SUFFICES ASSUME NEW t \in Task, NEW fd \in mapped'[t]
                 PROVE  task'[t] = "running" /\ KeepsFd(t, fd)
      BY DEF MappedMoves
    <3>1. t # c /\ fd \in mapped[t] /\ task[t] = "running"
      BY <2>1, KinFacts
    <3> QED
      BY <1>6, <1>9, <2>3, <3>1 DEF KeepsFd
  <2>6. PendingStands
    <3> SUFFICES ASSUME NEW i \in (consumed + 1)..Len(log), NeedsProc(log[i]), base[i].sure
                 PROVE  /\ task'[log[i].pid] = "running"
                        /\ files'[lead'[log[i].pid]] = files[lead[log[i].pid]]
      BY DEF PendingStands
    <3>1. log[i].pid \in Task \ {c} /\ task[log[i].pid] = "running"
      BY <1>1, PendingFacts
    <3> QED
      BY <1>6, <2>3, <3>1
  <2>7. KernelStep
    BY <1>3, <1>8, <2>2, <2>4, <2>5, <2>6 DEF KernelStep
  <2> QED
    BY <2>7, KernelKeeps
<1>11. CASE /\ lead' = [lead EXCEPT ![c] = lead[p]]
            /\ known' = known \ (Sharers(p) \cup {c})
            /\ mapped' = [u \in Task |-> IF u \in Sharers(p) \cup {c} THEN {} ELSE mapped[u]]
            /\ UNCHANGED <<cwd, files>>
  <2>1. /\ \A t \in Task \ {c} : lead'[t] = lead[t]
        /\ lead'[c] = lead[p] /\ mapped'[c] = {}
        /\ \A t \in Task : \A fd \in mapped'[t] : t # c /\ fd \in mapped[t]
        /\ UNCHANGED <<cwd, files>>
    BY <1>11, KinFacts
  <2>2. KinInv'
    <3>1. lead[p] # c /\ lead[p] \in Task
      BY <1>1, KinFacts
    <3>2. \A u \in Task \ {c} : (lead[u] # c /\ lead[u] \in Task) \/ task[u] = "free"
      BY <1>1, KinFacts
    <3>3. \A u \in Task : task'[u] # "free" => task'[lead'[u]] # "free"
      BY <1>1, <1>6, <1>7, <2>1, <3>1, <3>2, KinFacts
    <3>4. \A u \in Task : task'[u] # "free" => lead'[lead'[u]] = lead'[u]
      BY <1>1, <1>6, <1>7, <2>1, <3>1, <3>2, KinFacts
    <3>5. \A u \in Task : task'[u] = "free" => lead'[u] = u
      BY <1>6, <1>7, <2>1, KinFacts
    <3>6. \A u \in Task : call'[u] # None => task'[u] = "running"
      BY <1>1, <1>6, <1>7 DEF KinInv, ReplayInv
    <3> QED
      BY <3>3, <3>4, <3>5, <3>6 DEF KinInv
  <2>3. \A t \in Task \ {c} : task[t] = "running" =>
          cwd'[lead'[t]] = cwd[lead[t]] /\ files'[lead'[t]] = files[lead[t]]
    BY <2>1
  <2>4. KnownMoves
    <3> SUFFICES ASSUME NEW t \in known'
                 PROVE  task'[t] = "running" /\ Sharers(t)' = {t} /\ KeepsCwd(t)
      BY DEF KnownMoves
    <3>1. /\ t # c /\ t \in known /\ t \in Task /\ task[t] = "running" /\ Sharers(t) = {t}
          /\ t \notin Sharers(p)
      BY <1>11, KinFacts
    <3>2. lead[t] # lead[p]
      BY <3>1 DEF Sharers
    <3>3. Sharers(t)' = {u \in Task : task'[u] = "running" /\ lead'[u] = lead[t]}
      BY <2>1, <3>1 DEF Sharers
    <3>4. \A u \in Task : task'[u] = "running" /\ lead'[u] = lead[t] =>
            u # c /\ task[u] = "running" /\ lead[u] = lead[t]
      BY <1>6, <2>1, <3>2
    <3>5. Sharers(t)' = {t}
      <4>1. Sharers(t)' \subseteq Sharers(t)
        BY <3>3, <3>4 DEF Sharers
      <4>2. t \in Sharers(t)'
        BY <1>6, <3>1 DEF Sharers
      <4> QED
        BY <3>1, <4>1, <4>2
    <3> QED
      BY <1>6, <1>9, <2>3, <3>1, <3>5 DEF KeepsCwd
  <2>5. MappedMoves
    <3> SUFFICES ASSUME NEW t \in Task, NEW fd \in mapped'[t]
                 PROVE  task'[t] = "running" /\ KeepsFd(t, fd)
      BY DEF MappedMoves
    <3>1. t # c /\ fd \in mapped[t] /\ task[t] = "running"
      BY <2>1, KinFacts
    <3> QED
      BY <1>6, <1>9, <2>3, <3>1 DEF KeepsFd
  <2>6. PendingStands
    <3> SUFFICES ASSUME NEW i \in (consumed + 1)..Len(log), NeedsProc(log[i]), base[i].sure
                 PROVE  /\ task'[log[i].pid] = "running"
                        /\ files'[lead'[log[i].pid]] = files[lead[log[i].pid]]
      BY DEF PendingStands
    <3>1. log[i].pid \in Task \ {c} /\ task[log[i].pid] = "running"
      BY <1>1, PendingFacts
    <3> QED
      BY <1>6, <2>3, <3>1
  <2>7. KernelStep
    BY <1>3, <1>8, <2>2, <2>4, <2>5, <2>6 DEF KernelStep
  <2> QED
    BY <2>7, KernelKeeps
<1> QED
  BY <1>10, <1>11 DEF TFork

LEMMA ExitReplay ==
  ASSUME GroundInv, ReplayInv, [TNext]_tracerVars, NEW t \in Task, TTaskExit(t)
  PROVE  ReplayInv'
<1>1. /\ Remember(NoOrigin, {t}, Fd)
      /\ UNCHANGED <<consumed, cwd_cache, fd_map, call, lead, cwd, files>>
      /\ task[t] = "running" /\ call[t] = None /\ handle_exit(t) /\ known' = known \ {t}
      /\ mapped' = [mapped EXCEPT ![t] = {}]
  BY DEF TTaskExit, TaskExit, stateVars, worldVars
<1>2. NoOrigin \in Base /\ ~NoOrigin.sure
  BY DEF NoOrigin, Base
<1>3. /\ Frame
      /\ Adds => NewBase = NoOrigin
      /\ \A i \in (consumed + 1)..Len(log) :
           NeedsProc(log[i]) /\ base'[i].sure => ~(log[i].pid \in {t} /\ log[i].dirfd \in Fd)
  BY <1>1, <1>2, RememberFrame DEF Adds, NewBase
<1>4. Adds => New.pid = t
  <2>1. log \in Seq(Event) /\ Len(log) \in Nat
    BY GroundFacts
  <2>2. LifeEvent(EV_EXIT_TRACKED, t, None) \in Event /\ LifeEvent(EV_EXIT_TRACKED, t, None).pid = t
    BY LifeEventType DEF LifeEvent
  <2>3. log' = log \/ log' = Append(log, LifeEvent(EV_EXIT_TRACKED, t, None))
    BY <1>1 DEF handle_exit, Reserve
  <2> QED
    BY <2>1, <2>2, <2>3, AppendFacts DEF Adds, New
<1>5. /\ task'[t] = "zombie" /\ \A u \in Task \ {t} : task'[u] = task[u]
      /\ lead' = lead
      /\ mapped'[t] = {} /\ \A u \in Task \ {t} : mapped'[u] = mapped[u]
  <2>1. task' = [task EXCEPT ![t] = "zombie"]
    BY DEF TTaskExit, TaskExit
  <2> QED
    BY <1>1, <2>1, KinFacts
<1>7. KinInv'
  <2>1. \A u \in Task : task'[u] # "free" =>
          task'[lead'[u]] # "free" /\ lead'[lead'[u]] = lead'[u]
    BY <1>5, KinFacts
  <2>2. \A u \in Task : task'[u] = "free" => lead'[u] = u
    BY <1>5, KinFacts
  <2>3. \A u \in Task : call'[u] # None => task'[u] = "running"
    BY <1>1, <1>5 DEF ReplayInv, KinInv
  <2> QED
    BY <2>1, <2>2, <2>3 DEF KinInv
<1>8. KnownMoves
  <2> SUFFICES ASSUME NEW u \in known'
               PROVE  task'[u] = "running" /\ Sharers(u)' = {u} /\ KeepsCwd(u)
    BY DEF KnownMoves
  <2>1. u \in known /\ u \in Task \ {t} /\ task[u] = "running" /\ Sharers(u) = {u}
    BY <1>1, KinFacts
  <2>2. \A x \in Task : task'[x] = "running" /\ lead'[x] = lead'[u] => x \in Sharers(u)
    BY <1>5, <2>1 DEF Sharers
  <2>3. Sharers(u)' = {u}
    <3>1. Sharers(u)' \subseteq {u}
      BY <2>1, <2>2 DEF Sharers
    <3>2. u \in Sharers(u)'
      BY <1>5, <2>1 DEF Sharers
    <3> QED
      BY <3>1, <3>2
  <2> QED
    BY <1>1, <1>4, <1>5, <2>1, <2>3 DEF KeepsCwd, WritesCwd
<1>9. MappedMoves
  <2> SUFFICES ASSUME NEW u \in Task, NEW fd \in mapped'[u]
               PROVE  task'[u] = "running" /\ KeepsFd(u, fd)
    BY DEF MappedMoves
  <2>1. u # t /\ fd \in mapped[u] /\ task[u] = "running"
    BY <1>5, KinFacts
  <2> QED
    BY <1>1, <1>4, <1>5, <2>1 DEF KeepsFd, WritesFd
<1>10. PendingStands
  <2> SUFFICES ASSUME NEW i \in (consumed + 1)..Len(log), NeedsProc(log[i]), base[i].sure,
                      base'[i].sure
               PROVE  /\ task'[log[i].pid] = "running"
                      /\ files'[lead'[log[i].pid]] = files[lead[log[i].pid]]
    BY DEF PendingStands
  <2>1. log[i].pid \in Task \ {t} /\ task[log[i].pid] = "running"
    BY <1>3, PendingFacts
  <2> QED
    BY <1>1, <1>5, <2>1
<1>11. KernelStep
  BY <1>2, <1>3, <1>7, <1>8, <1>9, <1>10 DEF KernelStep, NewIsReady
<1> QED
  BY <1>11, KernelKeeps

LEMMA CloseReplay ==
  ASSUME GroundInv, ReplayInv, [TNext]_tracerVars, NEW t \in Task, NEW fd \in Fd, Close(t, fd)
  PROVE  ReplayInv'
<1>1. /\ Remember(NoOrigin, Sharers(t), {fd})
      /\ UNCHANGED <<consumed, cwd_cache, fd_map, call, task, cwd, lead, known, log>>
      /\ files' = [files EXCEPT ![lead[t]][fd] = None]
      /\ mapped' = [u \in Task |-> IF u \in Sharers(t) THEN mapped[u] \ {fd} ELSE mapped[u]]
  BY DEF Close, stateVars, mapVars
<1>2. NoOrigin \in Base
  BY DEF NoOrigin, Base
<1>3. /\ Frame
      /\ \A i \in (consumed + 1)..Len(log) :
           NeedsProc(log[i]) /\ base'[i].sure => ~(log[i].pid \in Sharers(t) /\ log[i].dirfd \in {fd})
  BY <1>1, <1>2, RememberFrame
<1>4. ~Adds
  <2>1. Len(log) \in Nat /\ Len(log') = Len(log)
    BY <1>1, GroundFacts
  <2> QED
    BY <2>1 DEF Adds
<1>5. \A u \in Task : \A f \in Fd :
        files'[lead[u]][f] = files[lead[u]][f] \/ (lead[u] = lead[t] /\ f = fd)
  BY <1>1, KinFacts
<1>6. KinInv'
  BY <1>1 DEF ReplayInv, KinInv
<1>7. KnownMoves
  <2>1. \A u : Sharers(u)' = Sharers(u)
    BY <1>1 DEF Sharers
  <2> QED
    BY <1>1, <1>4, <2>1, KinFacts DEF KnownMoves, KeepsCwd
<1>8. MappedMoves
  <2> SUFFICES ASSUME NEW u \in Task, NEW f \in mapped'[u]
               PROVE  task'[u] = "running" /\ KeepsFd(u, f)
    BY DEF MappedMoves
  <2>1. f \in mapped[u] /\ f \in Fd /\ task[u] = "running" /\ (u \in Sharers(t) => f # fd)
    BY <1>1, KinFacts
  <2>2. lead[u] = lead[t] => u \in Sharers(t)
    BY <2>1 DEF Sharers
  <2> QED
    BY <1>1, <1>4, <1>5, <2>1, <2>2 DEF KeepsFd
<1>9. PendingStands
  <2> SUFFICES ASSUME NEW i \in (consumed + 1)..Len(log), NeedsProc(log[i]), base[i].sure,
                      base'[i].sure
               PROVE  /\ task'[log[i].pid] = "running"
                      /\ files'[lead'[log[i].pid]][log[i].dirfd]
                           = files[lead[log[i].pid]][log[i].dirfd]
    BY DEF PendingStands
  <2>1. log[i].pid \in Task /\ log[i].dirfd \in Fd /\ task[log[i].pid] = "running"
    BY PendingFacts
  <2>2. lead[log[i].pid] = lead[t] => log[i].dirfd # fd
    BY <1>3, <2>1 DEF Sharers
  <2> QED
    BY <1>1, <1>5, <2>1, <2>2
<1>10. KernelStep
  BY <1>3, <1>4, <1>6, <1>7, <1>8, <1>9 DEF KernelStep, NewIsReady
<1> QED
  BY <1>10, KernelKeeps

-----------------------------------------------------------------------------
(* What the event of a call tells of it.                                   *)
Emitted(t, c, ret) == SyscallEvent(t, Etype(c.sys, Stash(c).flags), Stash(c), ret)

LEMMA EmittedFields ==
  ASSUME NEW c \in Call, Relevant(c), NEW t, NEW ret, NEW e, e = Emitted(t, c, ret)
  PROVE  /\ e.pid = t /\ e.dirfd = c.dirfd /\ e.etype \notin LifeEtype
         /\ e.etype \in CreationEvent <=> Creates(c)
         /\ e.etype = EV_OPENAT_DIR <=> OpensDir(c)
         /\ e.etype = "CHDIR" <=> c.sys = "chdir"
         /\ e.etype = "FCHDIR" <=> c.sys = "fchdir"
         /\ e.etype = EV_OPENAT_DIR => e.result_fd = ret
         /\ c.path # None => (e.path \in Absolute <=> c.path \in Absolute)
         /\ Fits(c.path) => e.path = c.path
<1> DEFINE f == Stash(c).flags
           k == Etype(c.sys, f)
<1>1. c \in Args /\ c.sys \in Syscall /\ (c.path = None <=> c.sys = "fchdir")
      /\ (c.sys \notin DirfdCalls => c.dirfd = AT_FDCWD)
      /\ c.path \in Path \cup {None}
  BY CallAssumption DEF Args
<1>2. /\ e.pid = t /\ e.etype = k /\ e.dirfd = Stash(c).dirfd /\ e.path = Stash(c).path
      /\ k = EV_OPENAT_DIR => e.result_fd = ret
  BY DEF Emitted, SyscallEvent
<1>3. Stash(c).dirfd = c.dirfd
  BY <1>1 DEF Stash
<1>4. Stash(c).path = IF c.path = None \/ Fits(c.path) THEN c.path ELSE Cut[c.path]
  BY DEF Stash
<1>5. /\ c.path # None => (e.path \in Absolute <=> c.path \in Absolute)
      /\ Fits(c.path) => e.path = c.path
  <2>1. c.path # None => (Cut[c.path] \in Absolute <=> c.path \in Absolute)
    BY <1>1, PathAssumption
  <2> QED
    BY <1>2, <1>4, <2>1
<1>6. /\ k \in CreationEvent <=> Creates(c)
      /\ k \notin LifeEtype
      /\ k = EV_OPENAT_DIR <=> OpensDir(c)
      /\ k = "CHDIR" <=> c.sys = "chdir"
      /\ k = "FCHDIR" <=> c.sys = "fchdir"
  <2>1. CASE c.sys \in OpenatFamily
    <3>1. f = c.flags
      BY <2>1 DEF Stash, StashFlags, OpenatFamily
    <3>2. k = IF O_CREAT \in c.flags THEN EV_OPENAT_CREATE ELSE EV_OPENAT_DIR
      BY <2>1, <3>1 DEF Etype
    <3>3. Creates(c) <=> O_CREAT \in c.flags
      BY <2>1 DEF Creates, OpenatFamily
    <3>4. OpensDir(c) <=> O_CREAT \notin c.flags
      BY <2>1 DEF OpensDir, Openers, OpenatFamily
    <3>5. c.sys \notin {"chdir", "fchdir"}
      BY <2>1 DEF OpenatFamily
    <3> HIDE DEF k, f
    <3> QED
      BY <3>2, <3>3, <3>4, <3>5 DEF CreationEvent, LifeEtype, EV_OPENAT_CREATE, EV_OPENAT_DIR,
         EV_FORK_TRACKED, EV_EXIT_TRACKED
  <2>2. CASE c.sys \notin OpenatFamily
    <3>1. k = FixedEtype[c.sys] /\ c.sys \in DOMAIN FixedEtype
      BY <1>1, <2>2 DEF Etype, Syscall
    <3>2. c.sys = "open" => O_CREAT \in c.flags
      BY <2>2 DEF Relevant, Creates, OpenatFamily
    <3>3. Creates(c) <=> c.sys \notin {"chdir", "fchdir"}
      BY <1>1, <2>2, <3>2 DEF Creates, OpenatFamily
    <3>4. ~OpensDir(c)
      BY <2>2, <3>2 DEF OpensDir, Openers
    <3> HIDE DEF k, f
    <3> QED
      BY <3>1, <3>3, <3>4 DEF FixedEtype, CreationEvent, LifeEtype, EV_OPENAT_CREATE,
         EV_OPENAT_DIR, EV_FORK_TRACKED, EV_EXIT_TRACKED
  <2> QED
    BY <2>1, <2>2
<1> HIDE DEF k, f
<1> QED
  BY <1>2, <1>3, <1>5, <1>6

(* The event that the end of a call adds, and the call it stands for.       *)
LEMMA EmittedEvent ==
  ASSUME GroundInv, NEW t \in Task, NEW ret \in Fd \cup {-1, 0}, TSysExit(t, ret), Adds
  PROVE  /\ call[t] \in Call /\ Relevant(call[t]) /\ ret >= 0
         /\ Feasible(t, call[t], ret)
         /\ New = Emitted(t, call[t], ret)
         /\ Len(done') = Len(done) + 1 /\ done'[Len(done')].call = call[t]
         /\ done'[Len(done')].member = (t \in tree) /\ enter_ctx[t] # None
         /\ origin'[Len(log) + 1] = Len(done')
<1> DEFINE c == call[t]
           n == Len(log)
           e == SyscallEvent(t, Etype(c.sys, enter_ctx[t].flags), enter_ctx[t], ret)
           d == [task |-> t, call |-> c, ret |-> ret, member |-> t \in tree]
<1>1. /\ c # None /\ ret \in Result(c)
      /\ done' = IF Relevant(c) /\ ret >= 0 THEN Append(done, d) ELSE done
      /\ emit_exit(t, c.sys, ret, Len(done'))
      /\ (ret >= 0 => Feasible(t, c, ret))
  BY DEF TSysExit, SysExit
<1>2. ProbesInv /\ TypeOK /\ log \in Seq(Event) /\ n \in Nat /\ origin \in Seq(Nat)
      /\ Len(origin) = n /\ Plain(done)
  BY DEF GroundInv, TypesInv, ProbesInv, TypeOK, GenuineInv, Plain
<1>3. c \in Call
  BY <1>1, <1>2 DEF TypeOK
<1>4. n + 1 # n
  BY <1>2
<1>5. enter_ctx[t] # None /\ Succeeded(c.sys, ret) /\ Reserve(e, Len(done'), {})
      /\ log' = Append(log, e) /\ origin' = Append(origin, Len(done'))
  <2> HIDE DEF e, c
  <2>1. log' # log
    BY <1>4 DEF Adds
  <2> QED
    BY <1>1, <2>1 DEF emit_exit, Reserve, e
<1>6. Relevant(c) /\ enter_ctx[t] = Stash(c)
  BY <1>2, <1>5 DEF ProbesInv, StashIsCurrent
<1>7. ret >= 0
  BY <1>5, TaskAssumption DEF Succeeded
<1>8. Feasible(t, c, ret) /\ done' = Append(done, d)
  BY <1>1, <1>6, <1>7
<1>9. e \in Event
  BY <1>1, <1>2, <1>5, EmittedShape
<1>10. e = Emitted(t, c, ret)
  BY <1>6 DEF Emitted
<1>11. d.call = c /\ d.member = (t \in tree)
  OBVIOUS
<1> HIDE DEF e, d, c
<1>12. New = e
  BY <1>2, <1>5, <1>9, AppendFacts DEF New
<1>13. Len(done') = Len(done) + 1 /\ done'[Len(done')] = d
  BY <1>2, <1>8, AppendPlain
<1>14. Len(done') \in Nat
  BY <1>2, <1>13 DEF Plain
<1>15. origin'[n + 1] = Len(done')
  BY <1>2, <1>5, <1>14, AppendFacts
<1> QED
  BY <1>3, <1>5, <1>6, <1>7, <1>8, <1>10, <1>11, <1>12, <1>13, <1>15 DEF c

(* The event of a call is ready when it is sure.                            *)
LEMMA ExitIsReady ==
  ASSUME GroundInv, ReplayInv, NEW t \in Task, NEW c \in Call, NEW ret, Adds,
         task'[t] = "running", UNCHANGED lead, Relevant(c), Feasible(t, c, ret),
         New = Emitted(t, c, ret), NewBase = Origin(t, c),
         Creates(c) => UNCHANGED files
  PROVE  NewIsReady
<1> SUFFICES ASSUME NewBase.sure
             PROVE  /\ NeedsCwd(New) => t \in known /\ NewBase.dir = cwd[lead[t]]
                    /\ NeedsFd(New) => /\ c.dirfd \in mapped[t]
                                      /\ NewBase.dir = files[lead[t]][c.dirfd]
                    /\ NeedsProc(New) => /\ NewBase.dir \in Where
                                        /\ files'[lead'[t]][c.dirfd] = NewBase.dir
                    /\ New.pid = t /\ New.dirfd = c.dirfd /\ Source(New) = t
  BY DEF NewIsReady
<1> DEFINE e == New
<1>1. /\ e.pid = t /\ e.dirfd = c.dirfd /\ e.etype \notin LifeEtype
      /\ e.etype \in CreationEvent <=> Creates(c)
      /\ e.etype = EV_OPENAT_DIR <=> OpensDir(c)
      /\ e.etype = "CHDIR" <=> c.sys = "chdir"
      /\ e.etype = "FCHDIR" <=> c.sys = "fchdir"
      /\ c.path # None => (e.path \in Absolute <=> c.path \in Absolute)
  <2> HIDE DEF e
  <2> QED
    BY EmittedFields DEF e
<1>2. Source(e) = t
  BY <1>1 DEF Source, LifeEtype
<1>3. /\ c.path = None <=> c.sys = "fchdir"
      /\ c.sys = "chdir" => c.dirfd = AT_FDCWD
      /\ c.dirfd \in Dirfd /\ c.path \in Path \cup {None} /\ None \notin Absolute
  BY CallAssumption, PathAssumption DEF Args, DirfdCalls, OpenatFamily
<1>4. NewBase.dir = BaseDir(t, c)
  BY DEF Origin
<1>5. \/ Replayable(t, c)
      \/ Creates(c) /\ c.path \notin Absolute /\ c.dirfd # AT_FDCWD
  <2>1. Origin(t, c).sure
    OBVIOUS
  <2> QED
    BY <2>1 DEF Origin
<1> HIDE DEF e
<1>6. ASSUME NeedsCwd(e) PROVE t \in known /\ NewBase.dir = cwd[lead[t]]
  <2>1. e.etype # EV_FORK_TRACKED /\ Relative(e)
    BY <1>1, <1>6 DEF NeedsCwd, LifeEtype
  <2>2. c.sys # "fchdir" /\ e.path \notin Absolute
    BY <1>1, <2>1 DEF Relative
  <2>3. c.path \notin Absolute /\ c.dirfd = AT_FDCWD
    BY <1>1, <1>3, <1>6, <2>1, <2>2 DEF NeedsCwd
  <2> QED
    BY <1>4, <1>5, <2>3 DEF Replayable, BaseDir
<1>7. ASSUME NeedsFd(e) PROVE c.dirfd \in mapped[t] /\ NewBase.dir = files[lead[t]][c.dirfd]
  <2>1. ~Creates(c)
    BY <1>1, <1>7 DEF NeedsFd, CreationEvent, EV_OPENAT_DIR, EV_OPENAT_CREATE
  <2>2. c.path \notin Absolute /\ c.dirfd # AT_FDCWD
    <3>1. CASE e.etype = "FCHDIR"
      <4>1. c.dirfd \in Fd
        BY <1>1, <3>1, PathAssumption
      <4>2. AT_FDCWD \notin Fd
        BY TaskAssumption DEF AT_FDCWD
      <4> QED
        BY <1>1, <1>3, <3>1, <4>1, <4>2
    <3>2. CASE e.etype = EV_OPENAT_DIR /\ Relative(e) /\ e.dirfd # AT_FDCWD
      <4>1. c.path # None
        BY <1>1, <1>3, <3>2 DEF EV_OPENAT_DIR
      <4> QED
        BY <1>1, <3>2, <4>1 DEF Relative
    <3> QED
      BY <1>7, <3>1, <3>2 DEF NeedsFd
  <2> QED
    BY <1>4, <1>5, <2>1, <2>2 DEF Replayable, BaseDir
<1>8. ASSUME NeedsProc(e)
      PROVE  NewBase.dir \in Where /\ files'[lead'[t]][c.dirfd] = NewBase.dir
  <2>1. Creates(c) /\ e.dirfd # AT_FDCWD /\ Relative(e)
    BY <1>1, <1>8 DEF NeedsProc
  <2>2. c.path # None /\ c.path \notin Absolute
    BY <1>1, <1>3, <2>1 DEF Relative
  <2>3. BaseDir(t, c) # None
    BY <2>2 DEF Feasible, Target, ResolveFrom
  <2>4. BaseDir(t, c) \in Where \cup {None}
    BY BaseDirType DEF GroundInv, TypesInv
  <2> QED
    BY <1>1, <1>4, <2>1, <2>3, <2>4 DEF BaseDir
<1> QED
  BY <1>1, <1>2, <1>6, <1>7, <1>8 DEF e

LEMMA SysExitReplay ==
  ASSUME GroundInv, ReplayInv, [TNext]_tracerVars,
         NEW t \in Task, NEW ret \in Fd \cup {-1, 0}, TSysExit(t, ret)
  PROVE  ReplayInv'
<1> DEFINE c == call[t]
<1>1. /\ Remember(Origin(t, c), {}, {}) /\ UNCHANGED <<consumed, cwd_cache, fd_map, lead, task>>
      /\ c # None /\ call' = [call EXCEPT ![t] = None] /\ (ret >= 0 => Feasible(t, c, ret))
      /\ \/ ret >= 0 /\ OpensDir(c) /\ InstallDir(t, c, ret)
         \/ ret >= 0 /\ MovesCwd(c) /\ ChangeCwd(t, c)
         \/ /\ ret >= 0 => ~OpensDir(c) /\ ~MovesCwd(c)
            /\ UNCHANGED <<cwd, files, known, mapped>>
  BY DEF TSysExit, SysExit, stateVars
<1>2. c \in Call /\ task[t] = "running" /\ lead[t] \in Task /\ t \in Sharers(t)
  BY <1>1, KinFacts DEF ReplayInv, KinInv, Sharers
<1>3. Origin(t, c) \in Base
  BY <1>2, OriginType DEF GroundInv, TypesInv
<1>4. /\ Frame /\ Len(log) \in Nat
      /\ Adds => NewBase = Origin(t, c)
      /\ Logged => Adds
  <2> HIDE DEF c
  <2>1. Frame
    BY <1>1, <1>3, RememberFrame
  <2>2. Adds => NewBase = Origin(t, c)
    BY <1>1, <1>3, RememberFrame DEF Adds, NewBase
  <2>3. Logged => Adds
    BY <1>1, <1>3, <2>1, RememberFrame DEF Adds, Frame
  <2> QED
    BY <2>1, <2>2, <2>3, GroundFacts
<1>5. Adds => /\ Relevant(c) /\ ret >= 0 /\ Feasible(t, c, ret) /\ New = Emitted(t, c, ret)
              /\ New.pid = t /\ New.etype \notin LifeEtype
              /\ New.etype \in CreationEvent <=> Creates(c)
              /\ New.etype = EV_OPENAT_DIR <=> OpensDir(c)
              /\ New.etype = "CHDIR" <=> c.sys = "chdir"
              /\ New.etype = "FCHDIR" <=> c.sys = "fchdir"
              /\ New.etype = EV_OPENAT_DIR => New.result_fd = ret
              /\ Fits(c.path) => New.path = c.path
  <2> SUFFICES ASSUME Adds
               PROVE  /\ Relevant(c) /\ ret >= 0 /\ Feasible(t, c, ret)
                      /\ New = Emitted(t, c, ret)
                      /\ New.pid = t /\ New.etype \notin LifeEtype
                      /\ New.etype \in CreationEvent <=> Creates(c)
                      /\ New.etype = EV_OPENAT_DIR <=> OpensDir(c)
                      /\ New.etype = "CHDIR" <=> c.sys = "chdir"
                      /\ New.etype = "FCHDIR" <=> c.sys = "fchdir"
                      /\ New.etype = EV_OPENAT_DIR => New.result_fd = ret
                      /\ Fits(c.path) => New.path = c.path
    OBVIOUS
  <2>1. Relevant(c) /\ ret >= 0 /\ Feasible(t, c, ret) /\ New = Emitted(t, c, ret)
    BY EmittedEvent
  <2> DEFINE e == New
  <2>2. e = Emitted(t, c, ret)
    BY <2>1
  <2> HIDE DEF c, e
  <2> QED
    BY <1>2, <2>1, <2>2, EmittedFields DEF e
<1>6. \A u : Sharers(u)' = Sharers(u)
  BY <1>1 DEF Sharers
<1>7. KinInv'
  BY <1>1, <1>2, KinFacts DEF ReplayInv, KinInv
<1>8. OpensDir(c) \/ MovesCwd(c) => ~Creates(c)
  BY DEF OpensDir, MovesCwd, Creates, Openers, OpenatFamily
<1>9. OpensDir(c) => ~MovesCwd(c)
  BY DEF OpensDir, MovesCwd, Openers, OpenatFamily
<1>10. NewIsReady
  <2>1. Creates(c) => UNCHANGED files
    BY <1>1, <1>8 DEF InstallDir
  <2>2. CASE ~Adds
    BY <2>2 DEF NewIsReady
  <2>3. CASE Adds
    <3> HIDE DEF c
    <3> QED
      BY <1>1, <1>2, <1>4, <1>5, <2>1, <2>3, ExitIsReady
  <2> QED
    BY <2>2, <2>3
<1>11. \A u \in Task : \A fd : u # t => (Adds => ~WritesCwd(New, u)) /\ (Adds => ~WritesFd(New, u, fd))
  BY <1>5 DEF WritesCwd, WritesFd
<1>12. Replayable(t, c) => Origin(t, c).sure
  BY DEF Origin
<1>13. \A i \in (consumed + 1)..Len(log) : NeedsProc(log[i]) /\ base[i].sure =>
         log[i].pid \in Task /\ log[i].dirfd \in Fd /\ task[log[i].pid] = "running"
         /\ files[lead[log[i].pid]][log[i].dirfd] # None
  BY PendingFacts, KinFacts
<1> HIDE DEF c
<1>14. CASE ret >= 0 /\ OpensDir(c) /\ InstallDir(t, c, ret)
  <2>1. /\ files' = [files EXCEPT ![lead[t]][ret] = Target(t, c)]
        /\ mapped' = [u \in Task |->
             IF u = t /\ Alone(t) /\ Logged /\ Replayable(t, c) THEN mapped[u] \cup {ret}
             ELSE IF u \in Sharers(t) THEN mapped[u] \ {ret} ELSE mapped[u]]
        /\ UNCHANGED <<cwd, known>>
    BY <1>14 DEF InstallDir
  <2>2. ret \in Fd /\ files[lead[t]][ret] = None /\ Target(t, c) \in Dir
    BY <1>1, <1>14 DEF Feasible, FreeFd, OpensDir
  <2>3. /\ \A u \in Task : \A f \in Fd :
             files'[lead[u]][f] = files[lead[u]][f] \/ (lead[u] = lead[t] /\ f = ret)
        /\ files'[lead[t]][ret] = Target(t, c)
    BY <1>2, <2>1, <2>2, KinFacts
  <2>4. Adds => New.etype = EV_OPENAT_DIR /\ New.result_fd = ret
    BY <1>5, <1>14
  <2>5. KnownMoves
    <3>1. \A u \in known : Adds => ~WritesCwd(New, u)
      BY <2>4 DEF WritesCwd, Moves, EV_OPENAT_DIR, EV_FORK_TRACKED, EV_EXIT_TRACKED
    <3> QED
      BY <1>1, <1>6, <2>1, <3>1, KinFacts DEF KnownMoves, KeepsCwd
  <2>6. MappedMoves
    <3> SUFFICES ASSUME NEW u \in Task, NEW f \in mapped'[u]
                 PROVE  task'[u] = "running" /\ (KeepsFd(u, f) \/ GainsFd(u, f))
      BY DEF MappedMoves
    <3>1. CASE u = t /\ f = ret
      <4>1. Logged /\ Replayable(t, c)
        BY <1>2, <2>1, <3>1
      <4>2. Adds /\ NewBase = Origin(t, c)
        BY <1>4, <4>1
      <4>3. NewBase.sure /\ NewBase.dir = BaseDir(t, c)
        BY <1>12, <4>1, <4>2 DEF Origin
      <4>4. c.path # None /\ Fits(c.path)
        <5>1. c.sys # "fchdir"
          BY <1>14 DEF OpensDir, Openers, OpenatFamily
        <5> QED
          BY <1>2, <4>1, <5>1, CallAssumption DEF Replayable
      <4>5. New.path = c.path
        BY <1>5, <4>2, <4>4
      <4>6. Outcome(New, NewBase) = Target(t, c)
        BY <2>4, <4>2, <4>3, <4>4, <4>5 DEF Outcome, Target
      <4>7. WritesFd(New, t, ret) /\ Exact(New, NewBase)
        BY <1>5, <2>4, <4>2, <4>3 DEF WritesFd, Exact, EV_OPENAT_DIR, EV_EXIT_TRACKED
      <4>8. GainsFd(u, f)
        BY <1>1, <2>2, <2>3, <3>1, <4>2, <4>6, <4>7, KinFacts DEF GainsFd
      <4> QED
        BY <1>1, <1>2, <3>1, <4>8
    <3>2. CASE ~(u = t /\ f = ret)
      <4>1. f \in mapped[u] /\ (u \in Sharers(t) => f # ret)
        BY <1>2, <2>1, <3>2
      <4>2. f \in Fd /\ task[u] = "running"
        BY <4>1, KinFacts
      <4>3. lead[u] = lead[t] => f # ret
        BY <4>1, <4>2 DEF Sharers
      <4>4. Adds => ~WritesFd(New, u, f)
        BY <1>2, <1>5, <2>4, <4>1 DEF WritesFd, LifeEtype
      <4> QED
        BY <1>1, <2>3, <4>1, <4>2, <4>3, <4>4 DEF KeepsFd
    <3> QED
      BY <3>1, <3>2
  <2>7. PendingStands
    <3> SUFFICES ASSUME NEW i \in (consumed + 1)..Len(log), NeedsProc(log[i]), base[i].sure
                 PROVE  /\ task'[log[i].pid] = "running"
                        /\ files'[lead'[log[i].pid]][log[i].dirfd]
                             = files[lead[log[i].pid]][log[i].dirfd]
      BY DEF PendingStands
    <3> QED
      BY <1>1, <1>13, <2>2, <2>3
  <2>8. KernelStep
    BY <1>4, <1>7, <1>10, <2>5, <2>6, <2>7 DEF KernelStep
  <2> QED
    BY <2>8, KernelKeeps
<1>15. CASE ret >= 0 /\ MovesCwd(c) /\ ChangeCwd(t, c)
  <2>1. /\ cwd' = [cwd EXCEPT ![lead[t]] = Target(t, c)]
        /\ known' = (known \ Sharers(t))
                    \cup {u \in {t} : Alone(t) /\ Logged /\ Replayable(t, c)}
        /\ UNCHANGED <<files, mapped>>
    BY <1>15 DEF ChangeCwd
  <2>2. cwd'[lead[t]] = Target(t, c)
    BY <1>2, <2>1, KinFacts
  <2>3. Adds => ~OpensDir(c) /\ New.etype \in {"CHDIR", "FCHDIR"}
    BY <1>5, <1>9, <1>15 DEF MovesCwd
  <2>4. KnownMoves
    <3> SUFFICES ASSUME NEW u \in known'
                 PROVE  task'[u] = "running" /\ Sharers(u)' = {u} /\ (KeepsCwd(u) \/ GainsCwd(u))
      BY DEF KnownMoves
    <3>1. CASE u \in known \ Sharers(t)
      <4>1. u \in Task /\ task[u] = "running" /\ Sharers(u) = {u} /\ u # t
        BY <1>2, <3>1, KinFacts
      <4>2. lead[u] # lead[t]
        BY <3>1, <4>1 DEF Sharers
      <4>3. cwd'[lead'[u]] = cwd[lead[u]]
        BY <1>1, <2>1, <4>1, <4>2, KinFacts
      <4> QED
        BY <1>1, <1>6, <1>11, <3>1, <4>1, <4>3 DEF KeepsCwd
    <3>2. CASE u = t /\ Alone(t) /\ Logged /\ Replayable(t, c)
      <4>1. Adds /\ NewBase = Origin(t, c)
        BY <1>4, <3>2
      <4>2. NewBase.sure /\ NewBase.dir = BaseDir(t, c)
        BY <1>12, <3>2, <4>1 DEF Origin
      <4>3. WritesCwd(New, t) /\ Exact(New, NewBase)
        BY <1>5, <2>3, <4>1, <4>2 DEF WritesCwd, Exact, Moves, EV_EXIT_TRACKED
      <4>4. Outcome(New, NewBase) = Target(t, c)
        <5>1. CASE c.path = None
          <6>1. New.etype = "FCHDIR"
            BY <1>2, <1>5, <4>1, <5>1, CallAssumption
          <6> QED
            BY <4>2, <5>1, <6>1 DEF Outcome, Target, EV_OPENAT_DIR
        <5>2. CASE c.path # None
          <6>1. New.etype = "CHDIR"
            BY <1>2, <1>5, <2>3, <4>1, <5>2, CallAssumption
          <6>2. New.path = c.path
            BY <1>5, <3>2, <4>1, <5>2 DEF Replayable
          <6> QED
            BY <4>2, <5>2, <6>1, <6>2 DEF Outcome, Target
        <5> QED
          BY <5>1, <5>2
      <4>5. GainsCwd(u)
        BY <1>1, <2>2, <3>2, <4>1, <4>3, <4>4 DEF GainsCwd
      <4> QED
        BY <1>1, <1>2, <1>6, <3>2, <4>5 DEF Alone
    <3> QED
      BY <2>1, <3>1, <3>2
  <2>5. MappedMoves
    <3>1. \A u \in Task : \A fd : Adds => ~WritesFd(New, u, fd)
      BY <2>3 DEF WritesFd, EV_OPENAT_DIR, EV_EXIT_TRACKED
    <3> QED
      BY <1>1, <2>1, <3>1, KinFacts DEF MappedMoves, KeepsFd
  <2>6. PendingStands
    BY <1>1, <1>13, <2>1 DEF PendingStands
  <2>7. KernelStep
    BY <1>4, <1>7, <1>10, <2>4, <2>5, <2>6 DEF KernelStep
  <2> QED
    BY <2>7, KernelKeeps
<1>16. CASE /\ ret >= 0 => ~OpensDir(c) /\ ~MovesCwd(c)
            /\ UNCHANGED <<cwd, files, known, mapped>>
  <2>1. Adds => Creates(c)
    BY <1>5, <1>16 DEF Relevant, OpensDir, MovesCwd, Openers, OpenatFamily, Creates
  <2>2. Adds => New.etype \in CreationEvent
    BY <1>5, <2>1
  <2>3. \A u \in Task : \A fd : Adds => ~WritesCwd(New, u) /\ ~WritesFd(New, u, fd)
    BY <2>2 DEF WritesCwd, WritesFd, Moves, CreationEvent, EV_OPENAT_CREATE, EV_OPENAT_DIR,
                EV_FORK_TRACKED, EV_EXIT_TRACKED
  <2>4. KnownMoves
    BY <1>1, <1>6, <1>16, <2>3, KinFacts DEF KnownMoves, KeepsCwd
  <2>5. MappedMoves
    BY <1>1, <1>16, <2>3, KinFacts DEF MappedMoves, KeepsFd
  <2>6. PendingStands
    BY <1>1, <1>13, <1>16 DEF PendingStands
  <2>7. KernelStep
    BY <1>4, <1>7, <1>10, <2>4, <2>5, <2>6 DEF KernelStep
  <2> QED
    BY <2>7, KernelKeeps
<1> QED
  BY <1>1, <1>14, <1>15, <1>16

-----------------------------------------------------------------------------
(* The steps of user space.  Before the seed the log is empty, so that the  *)
(* cwd read from /proc is that of the moment.                              *)
LEMMA SeedCwdReplay ==
  ASSUME GroundInv, ReplayInv, SeedCwd
  PROVE  ReplayInv'
<1>1. /\ ~probed /\ cwd_cache' = Put(cwd_cache, Root, proc_cwd(Root))
      /\ known' = known \cup {u \in {Root} : proc_cwd(Root) # None /\ Alone(Root)}
      /\ UNCHANGED <<task, call, log, consumed, lead, cwd, files, fd_map, base, mapped>>
  BY DEF SeedCwd, vars, worldVars
<1>2. Len(log) = 0 /\ consumed = 0
  <2>1. ~seeded
    BY <1>1 DEF GroundInv, FreshInv
  <2>2. Len(log) = 0
    BY <2>1 DEF GroundInv, WatchInv, GoneInv
  <2> QED
    BY <2>2, GroundFacts
<1>3. KinInv' /\ PendingInv'
  <2>1. (0 + 1)..0 = {}
    OBVIOUS
  <2> QED
    BY <1>1, <1>2, <2>1 DEF ReplayInv, KinInv, PendingInv
<1>4. MappedInv'
  BY <1>1 DEF ReplayInv, MappedInv, WillFd
<1>5. KnownInv'
  <2> SUFFICES ASSUME NEW t \in known'
               PROVE  /\ task[t] = "running" /\ Sharers(t) = {t}
                      /\ Will(log, base, 0, CwdWriters(log, t), cwd_cache'[t], 0, cwd[lead[t]])
    BY <1>1, <1>2 DEF KnownInv, Alone, Sharers, WillCwd
  <2>1. t \in Task /\ Root \in Task
    BY <1>1, KinFacts, TaskAssumption
  <2>2. task[t] = "running" /\ Sharers(t) = {t}
    BY <1>1, KinFacts DEF Alone, proc_cwd
  <2>3. ASSUME t = Root PROVE cwd_cache'[t] = cwd[lead[t]]
    <3>1. proc_cwd(Root) = cwd[lead[Root]]
      BY <2>2, <2>3 DEF proc_cwd
    <3>2. cwd[lead[Root]] # None
      BY <2>1, KinFacts
    <3>3. cwd_cache \in [Task -> Where \cup {None}]
      BY DEF GroundInv, TypesInv, StateOK
    <3> QED
      BY <1>1, <2>1, <2>3, <3>1, <3>2, <3>3 DEF Put
  <2>4. ASSUME t # Root PROVE cwd_cache'[t] = cwd[lead[t]]
    <3>1. t \in known
      BY <1>1, <2>4
    <3>2. WillCwd(t, 0, cwd[lead[t]])
      BY <1>2, <3>1 DEF ReplayInv, KnownInv
    <3> DEFINE W == CwdWriters(log, t)
               v == cwd[lead[t]]
               cell == cwd_cache[t]
    <3>3. Will(log, base, 0, W, cell, 0, v)
      BY <1>2, <3>2 DEF WillCwd
    <3> HIDE DEF W, v, cell
    <3>4. cell = v
      BY <3>3, WillNow
    <3>5. cwd_cache'[t] = cwd_cache[t]
      BY <1>1, <2>1, <2>4 DEF Put, GroundInv, FreshInv
    <3> QED
      BY <3>4, <3>5 DEF cell, v
  <2>5. cwd_cache'[t] = cwd[lead[t]]
    BY <2>3, <2>4
  <2> QED
    BY <2>2, <2>5, WillNow
<1> QED
  BY <1>3, <1>4, <1>5 DEF ReplayInv

LEMMA QuietReplay ==
  ASSUME GroundInv, ReplayInv,
         \/ TSpawn \/ TSeed \/ TReap \/ UNCHANGED tracerVars
         \/ \E t \in Task : TRelease(t)
         \/ \E t \in Task, c \in Call : TSysEnter(t, c)
  PROVE  ReplayInv'
<1>1. task \in [Task -> {"free", "running", "zombie"}] /\ lead \in [Task -> Task] /\ Root \in Task
  BY KinFacts, TaskAssumption
<1>2. /\ call \in [Task -> Call \cup {None}] /\ \A u \in Task : call[u] # None => task[u] = "running"
      /\ \A u \in Task : task[u] # "free" => task[lead[u]] # "free" /\ lead[lead[u]] = lead[u]
      /\ \A u \in Task : task[u] = "free" => lead[u] = u
  BY KinFacts DEF ReplayInv, KinInv
<1> DEFINE Q == /\ UNCHANGED <<cwd, files, replayVars, log, consumed, cwd_cache, fd_map>>
                /\ \A u \in Task : task[u] = "running" => task'[u] = "running" /\ lead'[u] = lead[u]
                /\ \A u \in Task : task'[u] = "running" =>
                     task[u] = "running" \/ (task[u] = "free" /\ lead'[u] = u)
<1>3. CASE TSpawn
  <2>1. UNCHANGED <<lead, call>> /\ task[Root] = "free" /\ task' = [task EXCEPT ![Root] = "running"]
    BY <1>3 DEF TSpawn, Spawn, worldVars
  <2>2. Q
    BY <1>1, <1>2, <1>3, <2>1 DEF TSpawn, Spawn, stateVars, mapVars, worldVars
  <2>3. KinInv'
    BY <1>1, <1>2, <2>1 DEF KinInv
  <2> QED
    BY <2>2, <2>3, QuietStep
<1>4. ASSUME NEW t \in Task, task[t] = "zombie", NoThreads(t), UNCHANGED call,
             task' = [task EXCEPT ![t] = "free"], lead' = [lead EXCEPT ![t] = t],
             UNCHANGED <<cwd, files, replayVars, log, consumed, cwd_cache, fd_map>>
      PROVE  ReplayInv'
  <2>1. Q
    BY <1>1, <1>2, <1>4
  <2>2. \A u \in Task \ {t} : lead[u] # t /\ lead'[u] = lead[u] /\ task'[u] = task[u]
    BY <1>1, <1>4 DEF NoThreads
  <2>3. KinInv'
    BY <1>1, <1>2, <1>4, <2>2 DEF KinInv
  <2> QED
    BY <2>1, <2>3, QuietStep
<1>5. CASE TReap \/ \E t \in Task : TRelease(t)
  <2>1. CASE TReap
    BY <1>1, <1>4, <2>1 DEF TReap, Reap, stateVars, mapVars
  <2>2. ASSUME NEW t \in Task, TRelease(t) PROVE ReplayInv'
    BY <1>4, <2>2 DEF TRelease, Release, stateVars, mapVars
  <2> QED
    BY <1>5, <2>1, <2>2
<1>6. ASSUME UNCHANGED <<task, lead, cwd, files, replayVars, log, consumed, cwd_cache, fd_map>>,
             \A u \in Task : call'[u] # None => task[u] = "running"
      PROVE  ReplayInv'
  <2>1. Q
    BY <1>6
  <2>2. KinInv'
    BY <1>2, <1>6 DEF KinInv
  <2> QED
    BY <2>1, <2>2, QuietStep
<1>7. CASE TSeed
  BY <1>2, <1>6, <1>7 DEF TSeed, Seed, stateVars, kernelVars, worldVars
<1>8. CASE UNCHANGED tracerVars
  BY <1>2, <1>6, <1>8 DEF tracerVars, vars, stateVars, worldVars
<1>9. CASE \E t \in Task, c \in Call : TSysEnter(t, c)
  BY <1>2, <1>6, <1>9 DEF TSysEnter, SysEnter, stateVars, worldVars
<1> QED
  BY <1>3, <1>5, <1>7, <1>8, <1>9

(* The event at the head of the ring, if it is sure, finds its base.        *)
LEMMA HeadFacts ==
  ASSUME GroundInv, ReplayInv, consumed < Len(log),
         NEW e, e = log[consumed + 1], NEW b, b = base[consumed + 1]
  PROVE  /\ e \in Event /\ Shape(e) /\ b \in Base /\ e.pid \in Task /\ Source(e) \in Task
         /\ b.sure /\ NeedsCwd(e) => b.dir \in Where /\ cwd_cache[Source(e)] = b.dir
         /\ b.sure /\ NeedsFd(e) => b.dir \in Where /\ fd_map[e.pid][e.dirfd] = b.dir
         /\ b.sure /\ NeedsProc(e) => /\ b.dir \in Where /\ task[e.pid] = "running"
                                      /\ files[lead[e.pid]][e.dirfd] = b.dir
<1> DEFINE m == consumed
<1>1. m \in Nat /\ m + 1 \in (m + 1)..Len(log) /\ m + 1 \in 1..Len(log) /\ m + 1 - 1 = m
  BY GroundFacts
<1>2. e \in Event /\ Shape(e) /\ b \in Base
  BY <1>1, GroundFacts
<1>3. e.pid \in Task /\ Source(e) \in Task
  BY <1>2 DEF Event, Source, Shape
<1>4. Ready(m + 1)
  BY <1>1 DEF ReplayInv, PendingInv
<1>5. ASSUME b.sure, NeedsCwd(e) PROVE b.dir \in Where /\ cwd_cache[Source(e)] = b.dir
  <2> DEFINE t == Source(e)
             v == b.dir
             W == CwdWriters(log, t)
             cell == cwd_cache[t]
  <2>1. v \in Where /\ Will(log, base, m, W, cell, m, v)
    BY <1>1, <1>4, <1>5 DEF Ready, CwdReady, WillCwd
  <2> HIDE DEF t, v, W, cell, m
  <2>2. cell = v
    BY <1>1, <2>1, WillNow
  <2> QED
    BY <2>1, <2>2 DEF t, v, cell
<1>6. ASSUME b.sure, NeedsFd(e) PROVE b.dir \in Where /\ fd_map[e.pid][e.dirfd] = b.dir
  <2> DEFINE v == b.dir
             W == FdWriters(log, e.pid, e.dirfd)
             cell == fd_map[e.pid][e.dirfd]
  <2>1. v \in Where /\ Will(log, base, m, W, cell, m, v)
    BY <1>1, <1>4, <1>6 DEF Ready, FdReady, WillFd
  <2> HIDE DEF v, W, cell, m
  <2>2. cell = v
    BY <1>1, <2>1, WillNow
  <2> QED
    BY <2>1, <2>2 DEF v, cell
<1>7. b.sure /\ NeedsProc(e) => /\ b.dir \in Where /\ task[e.pid] = "running"
                                /\ files[lead[e.pid]][e.dirfd] = b.dir
  BY <1>4 DEF Ready, ProcReady
<1> QED
  BY <1>2, <1>3, <1>5, <1>6, <1>7

(* What a sure event resolves its path from.                                *)
LEMMA HeadResolves ==
  ASSUME GroundInv, ReplayInv, consumed < Len(log),
         NEW e, e = log[consumed + 1], NEW b, b = base[consumed + 1], b.sure
  PROVE  /\ NeedsCwd(e) /\ e.etype # EV_FORK_TRACKED => Cwd(e.pid) = b.dir
         /\ NeedsFd(e) => OrElse(fd_map[e.pid][e.dirfd], proc_fd(e.pid, e.dirfd)) = b.dir
<1>1. None \notin Where
  BY PathAssumption
<1> QED
  BY <1>1, HeadFacts DEF Source, Cwd, OrElse

(* Its handler writes the outcome to the cells it writes, and leaves what   *)
(* is in the others.                                                        *)
LEMMA HandledCwd ==
  ASSUME GroundInv, ReplayInv, consumed < Len(log),
         NEW e, e = log[consumed + 1], NEW b, b = base[consumed + 1], handle_event(e),
         NEW t \in Task
  PROVE  /\ WritesCwd(e, t) /\ Exact(e, b) => cwd_cache'[t] = Outcome(e, b)
         /\ \A v \in Where : ~WritesCwd(e, t) /\ cwd_cache[t] = v => cwd_cache'[t] = v
<1>1. /\ e \in Event /\ Shape(e) /\ b \in Base /\ e.pid \in Task
      /\ b.sure /\ NeedsCwd(e) => b.dir \in Where /\ cwd_cache[Source(e)] = b.dir
  BY HeadFacts
<1>2. None \notin Where /\ cwd_cache \in [Task -> Where \cup {None}]
  BY PathAssumption DEF GroundInv, TypesInv, StateOK
<1>3. /\ b.sure /\ NeedsCwd(e) /\ e.etype # EV_FORK_TRACKED => Cwd(e.pid) = b.dir
      /\ b.sure /\ NeedsFd(e) => OrElse(fd_map[e.pid][e.dirfd], proc_fd(e.pid, e.dirfd)) = b.dir
  BY HeadResolves
<1>4. \A v : v # None => Put(cwd_cache, e.pid, v)[e.pid] = v
  BY <1>1, <1>2 DEF Put
<1>5. \A u \in Task \ {e.pid} : cwd_cache'[u] = cwd_cache[u]
  BY <1>1, HandlerIsLocal DEF GroundInv
<1>6. CASE t # e.pid
  BY <1>5, <1>6 DEF WritesCwd
<1>7. CASE t = e.pid
  <2>1. CASE e.etype = EV_FORK_TRACKED /\ HandleFork(e)
    <3>1. WritesCwd(e, t)
      BY <1>7, <2>1 DEF WritesCwd, Moves
    <3>2. ASSUME b.sure PROVE cwd_cache'[t] = b.dir
      <4>1. b.dir \in Where /\ cwd_cache[e.ppid] = b.dir
        BY <1>1, <2>1, <3>2 DEF NeedsCwd, Source
      <4> QED
        BY <1>2, <1>4, <1>7, <2>1, <4>1 DEF HandleFork, OrElse
    <3> QED
      BY <2>1, <3>1, <3>2 DEF Exact, Outcome, EV_FORK_TRACKED, EV_OPENAT_DIR
  <2>2. CASE e.etype = EV_EXIT_TRACKED /\ HandleExit(e)
    BY <1>7, <2>2 DEF WritesCwd, Moves, Exact
  <2>3. CASE e.etype = "CHDIR" /\ HandleChdir(e)
    <3>1. WritesCwd(e, t)
      BY <1>7, <2>3 DEF WritesCwd, Moves
    <3>2. ASSUME b.sure PROVE cwd_cache'[t] = ResolveFrom(b.dir, e.path)
      <4>1. e.path \in Path
        BY <1>1, <2>3 DEF Shape, LifeEtype, EV_FORK_TRACKED, EV_EXIT_TRACKED
      <4>2. CASE e.path \in Absolute
        <5>1. ResolveFrom(Cwd(e.pid), e.path) = Clean[e.path]
              /\ ResolveFrom(b.dir, e.path) = Clean[e.path]
          BY <4>2 DEF ResolveFrom
        <5>2. Clean[e.path] # None
          BY <1>2, <4>2, PathAssumption
        <5> QED
          BY <1>4, <1>7, <2>3, <5>1, <5>2 DEF HandleChdir
      <4>3. CASE e.path \notin Absolute
        <5>1. Relative(e) /\ e.etype # EV_FORK_TRACKED
          BY <2>3, <4>3 DEF Relative, LifeEtype, EV_FORK_TRACKED, EV_EXIT_TRACKED
        <5>2. b.dir \in Where /\ Cwd(e.pid) = b.dir
          BY <1>1, <1>3, <2>3, <3>2, <5>1 DEF NeedsCwd
        <5>3. ResolveFrom(b.dir, e.path) # None
          <6>1. Join[b.dir] \in [Path \ Absolute -> Where]
            BY <5>2, PathAssumption
          <6> QED
            BY <1>2, <4>1, <4>3, <5>2, <6>1 DEF ResolveFrom
        <5> QED
          BY <1>4, <1>7, <2>3, <5>2, <5>3 DEF HandleChdir
      <4> QED
        BY <4>2, <4>3
    <3> QED
      BY <2>3, <3>1, <3>2 DEF Exact, Outcome
  <2>4. CASE e.etype = "FCHDIR" /\ HandleFchdir(e)
    <3>1. WritesCwd(e, t)
      BY <1>7, <2>4 DEF WritesCwd, Moves
    <3>2. ASSUME b.sure PROVE cwd_cache'[t] = b.dir
      <4>1. NeedsFd(e)
        BY <2>4 DEF NeedsFd
      <4>2. b.dir # None
        BY <1>2, <3>2, <4>1, HeadFacts
      <4> QED
        BY <1>3, <1>4, <1>7, <2>4, <3>2, <4>1, <4>2 DEF HandleFchdir
    <3> QED
      BY <2>4, <3>1, <3>2 DEF Exact, Outcome, EV_OPENAT_DIR
  <2>5. CASE e.etype = EV_OPENAT_DIR /\ HandleOpenatDir(e)
    BY <2>5 DEF WritesCwd, Moves, HandleOpenatDir, EV_OPENAT_DIR, EV_FORK_TRACKED,
                EV_EXIT_TRACKED
  <2>6. CASE e.etype \in CreationEvent /\ HandleCreation(e)
    <3>1. ~WritesCwd(e, t)
      BY <2>6 DEF WritesCwd, Moves, CreationEvent, EV_OPENAT_CREATE, EV_FORK_TRACKED,
                  EV_EXIT_TRACKED
    <3>2. ASSUME NEW v \in Where, cwd_cache[t] = v PROVE cwd_cache'[t] = v
      <4>1. v # None /\ Cwd(e.pid) = v
        BY <1>2, <1>7, <3>2 DEF Cwd, OrElse
      <4>2. Put(cwd_cache, e.pid, v)[t] = v
        BY <1>4, <1>7, <4>1
      <4> QED
        BY <2>6, <3>2, <4>1, <4>2 DEF HandleCreation
    <3> QED
      BY <3>1, <3>2
  <2> QED
    BY <2>1, <2>2, <2>3, <2>4, <2>5, <2>6 DEF handle_event
<1> QED
  BY <1>6, <1>7

LEMMA HandledFd ==
  ASSUME GroundInv, ReplayInv, consumed < Len(log),
         NEW e, e = log[consumed + 1], NEW b, b = base[consumed + 1], handle_event(e),
         NEW t \in Task, NEW fd \in Fd
  PROVE  /\ WritesFd(e, t, fd) /\ Exact(e, b) => fd_map'[t][fd] = Outcome(e, b)
         /\ \A v \in Where : ~WritesFd(e, t, fd) /\ fd_map[t][fd] = v => fd_map'[t][fd] = v
<1>1. e \in Event /\ Shape(e) /\ b \in Base /\ e.pid \in Task
  BY HeadFacts
<1>2. None \notin Where /\ fd_map \in [Task -> [Fd -> Where \cup {None}]]
  BY PathAssumption DEF GroundInv, TypesInv, StateOK
<1>3. \A u \in Task \ {e.pid} : fd_map'[u] = fd_map[u]
  BY <1>1, HandlerIsLocal DEF GroundInv
<1>4. CASE t # e.pid
  BY <1>3, <1>4 DEF WritesFd
<1>5. CASE t = e.pid
  <2>1. CASE e.etype = EV_EXIT_TRACKED /\ HandleExit(e)
    BY <1>5, <2>1 DEF WritesFd, Exact
  <2>2. CASE e.etype = EV_OPENAT_DIR /\ HandleOpenatDir(e)
    <3> DEFINE from == IF e.dirfd = AT_FDCWD THEN Cwd(e.pid)
                       ELSE OrElse(fd_map[e.pid][e.dirfd], proc_fd(e.pid, e.dirfd))
               w == ResolveFrom(from, e.path)
    <3>1. fd_map' = [fd_map EXCEPT ![e.pid] = Put(@, e.result_fd, w)]
      BY <2>2 DEF HandleOpenatDir
    <3>2. e.result_fd \in Fd /\ e.path \in Path
      BY <1>1, <2>2 DEF Shape, LifeEtype, EV_OPENAT_DIR, EV_FORK_TRACKED, EV_EXIT_TRACKED
    <3>3. e.etype # EV_EXIT_TRACKED
      BY <2>2 DEF EV_OPENAT_DIR, EV_EXIT_TRACKED
    <3>4. ASSUME b.sure PROVE w = ResolveFrom(b.dir, e.path) /\ w # None
      <4>1. CASE e.path \in Absolute
        <5>1. Clean[e.path] # None
          BY <1>2, <4>1, PathAssumption
        <5> QED
          BY <4>1, <5>1 DEF ResolveFrom
      <4>2. CASE e.path \notin Absolute
        <5>1. Relative(e) /\ e.etype # EV_FORK_TRACKED
          BY <2>2, <4>2 DEF Relative, LifeEtype, EV_FORK_TRACKED, EV_EXIT_TRACKED,
                            EV_OPENAT_DIR
        <5>2. b.dir \in Where /\ from = b.dir
          <6>1. CASE e.dirfd = AT_FDCWD
            <7>1. NeedsCwd(e)
              BY <5>1, <6>1 DEF NeedsCwd
            <7> QED
              BY <3>4, <5>1, <6>1, <7>1, HeadFacts, HeadResolves
          <6>2. CASE e.dirfd # AT_FDCWD
            <7>1. NeedsFd(e)
              BY <2>2, <5>1, <6>2 DEF NeedsFd
            <7> QED
              BY <3>4, <6>2, <7>1, HeadFacts, HeadResolves
          <6> QED
            BY <6>1, <6>2
        <5>3. Join[b.dir] \in [Path \ Absolute -> Where]
          BY <5>2, PathAssumption
        <5> QED
          BY <1>2, <3>2, <4>2, <5>2, <5>3 DEF ResolveFrom
      <4> QED
        BY <4>1, <4>2
    <3> HIDE DEF w
    <3>5. /\ fd_map'[t] = Put(fd_map[t], e.result_fd, w)
          /\ fd_map[t] \in [Fd -> Where \cup {None}]
      BY <1>2, <1>5, <3>1
    <3>6. CASE fd = e.result_fd
      <4>1. WritesFd(e, t, fd)
        BY <1>5, <2>2, <3>6 DEF WritesFd
      <4>2. ASSUME b.sure PROVE fd_map'[t][fd] = ResolveFrom(b.dir, e.path)
        BY <3>2, <3>4, <3>5, <3>6, <4>2 DEF Put
      <4> QED
        BY <2>2, <4>1, <4>2 DEF Exact, Outcome
    <3>7. CASE fd # e.result_fd
      <4>1. ~WritesFd(e, t, fd)
        BY <3>3, <3>7 DEF WritesFd
      <4>2. fd_map'[t][fd] = fd_map[t][fd]
        BY <3>2, <3>5, <3>7 DEF Put
      <4> QED
        BY <4>1, <4>2
    <3> QED
      BY <3>6, <3>7
  <2>3. CASE \/ e.etype = EV_FORK_TRACKED /\ HandleFork(e)
             \/ e.etype = "CHDIR" /\ HandleChdir(e)
             \/ e.etype = "FCHDIR" /\ HandleFchdir(e)
             \/ e.etype \in CreationEvent /\ HandleCreation(e)
    <3>1. e.etype \notin {EV_EXIT_TRACKED, EV_OPENAT_DIR}
      BY <2>3 DEF CreationEvent, EV_OPENAT_CREATE, EV_FORK_TRACKED, EV_EXIT_TRACKED,
                  EV_OPENAT_DIR
    <3>2. UNCHANGED fd_map
      BY <2>3 DEF HandleFork, HandleChdir, HandleFchdir, HandleCreation
    <3> QED
      BY <3>1, <3>2 DEF WritesFd
  <2> QED
    BY <2>1, <2>2, <2>3 DEF handle_event
<1> QED
  BY <1>4, <1>5

(* Handling the head brings every pending event one step closer.            *)
LEMMA TakeCwd ==
  ASSUME GroundInv, ReplayInv, TConsume, NEW t \in Task, NEW v \in Where,
         NEW n \in Nat, consumed < n, WillCwd(t, n, v)
  PROVE  Will(log', base', consumed', CwdWriters(log', t), cwd_cache'[t], n, v)
<1> DEFINE W == CwdWriters(log, t)
           e == log[consumed + 1]
           b == base[consumed + 1]
<1>1. /\ consumed < Len(log) /\ consumed' = consumed + 1 /\ UNCHANGED <<log, base>>
      /\ handle_event(e)
  BY DEF TConsume, Consume, mapVars, replayVars
<1>2. consumed \in Nat /\ (consumed + 1 \in W <=> WritesCwd(e, t))
  BY <1>1, GroundFacts DEF CwdWriters
<1>3. /\ consumed + 1 \in W /\ Exact(e, b) => cwd_cache'[t] = Outcome(e, b)
      /\ consumed + 1 \notin W /\ cwd_cache[t] = v => cwd_cache'[t] = v
  BY <1>1, <1>2, HandledCwd
<1>4. Will(log, base, consumed, W, cwd_cache[t], n, v)
  BY DEF WillCwd
<1> HIDE DEF W
<1>5. Will(log, base, consumed + 1, W, cwd_cache'[t], n, v)
  BY <1>2, <1>3, <1>4, WillTake
<1> QED
  BY <1>1, <1>5 DEF W

LEMMA TakeFd ==
  ASSUME GroundInv, ReplayInv, TConsume, NEW t \in Task, NEW fd \in Fd, NEW v \in Where,
         NEW n \in Nat, consumed < n, WillFd(t, fd, n, v)
  PROVE  Will(log', base', consumed', FdWriters(log', t, fd), fd_map'[t][fd], n, v)
<1> DEFINE W == FdWriters(log, t, fd)
           e == log[consumed + 1]
           b == base[consumed + 1]
<1>1. /\ consumed < Len(log) /\ consumed' = consumed + 1 /\ UNCHANGED <<log, base>>
      /\ handle_event(e)
  BY DEF TConsume, Consume, mapVars, replayVars
<1>2. consumed \in Nat /\ (consumed + 1 \in W <=> WritesFd(e, t, fd))
  BY <1>1, GroundFacts DEF FdWriters
<1>3. /\ consumed + 1 \in W /\ Exact(e, b) => fd_map'[t][fd] = Outcome(e, b)
      /\ consumed + 1 \notin W /\ fd_map[t][fd] = v => fd_map'[t][fd] = v
  BY <1>1, <1>2, HandledFd
<1>4. Will(log, base, consumed, W, fd_map[t][fd], n, v)
  BY DEF WillFd
<1> HIDE DEF W
<1>5. Will(log, base, consumed + 1, W, fd_map'[t][fd], n, v)
  BY <1>2, <1>3, <1>4, WillTake
<1> QED
  BY <1>1, <1>5 DEF W

LEMMA ConsumeReplay ==
  ASSUME GroundInv, ReplayInv, TConsume
  PROVE  ReplayInv'
<1>1. /\ consumed < Len(log) /\ consumed' = consumed + 1 /\ consumed \in Nat /\ Len(log) \in Nat
      /\ UNCHANGED <<task, call, log, base, lead, cwd, files, known, mapped>>
  BY GroundFacts DEF TConsume, Consume, kernelVars, mapVars, worldVars, replayVars
<1>2. KinInv'
  BY <1>1 DEF ReplayInv, KinInv
<1>3. KnownInv'
  <2> SUFFICES ASSUME NEW t \in known
               PROVE  /\ task[t] = "running" /\ Alone(t)
                      /\ Will(log', base', consumed', CwdWriters(log', t), cwd_cache'[t],
                              Len(log), cwd[lead[t]])
    BY <1>1 DEF KnownInv, Alone, Sharers, WillCwd
  <2>1. task[t] = "running" /\ Alone(t) /\ WillCwd(t, Len(log), cwd[lead[t]])
    BY DEF ReplayInv, KnownInv
  <2>2. t \in Task /\ cwd[lead[t]] \in Where
    BY KinFacts
  <2> DEFINE v == cwd[lead[t]]
             n == Len(log)
  <2>3. WillCwd(t, n, v) /\ v \in Where /\ n \in Nat /\ consumed < n
    BY <1>1, <2>1, <2>2
  <2> HIDE DEF v, n
  <2>4. Will(log', base', consumed', CwdWriters(log', t), cwd_cache'[t], n, v)
    BY <2>2, <2>3, TakeCwd
  <2> QED
    BY <2>1, <2>4 DEF v, n
<1>4. MappedInv'
  <2> SUFFICES ASSUME NEW t \in Task, NEW fd \in mapped[t]
               PROVE  /\ task[t] = "running" /\ files[lead[t]][fd] \in Where
                      /\ Will(log', base', consumed', FdWriters(log', t, fd), fd_map'[t][fd],
                              Len(log), files[lead[t]][fd])
    BY <1>1 DEF MappedInv, WillFd
  <2>1. /\ task[t] = "running" /\ files[lead[t]][fd] \in Where
        /\ WillFd(t, fd, Len(log), files[lead[t]][fd])
    BY DEF ReplayInv, MappedInv
  <2>2. fd \in Fd
    BY KinFacts
  <2> DEFINE v == files[lead[t]][fd]
             n == Len(log)
  <2>3. WillFd(t, fd, n, v) /\ v \in Where /\ n \in Nat /\ consumed < n
    BY <1>1, <2>1
  <2> HIDE DEF v, n
  <2>4. Will(log', base', consumed', FdWriters(log', t, fd), fd_map'[t][fd], n, v)
    BY <2>2, <2>3, TakeFd
  <2> QED
    BY <2>1, <2>4 DEF v, n
<1>5. PendingInv'
  <2> SUFFICES ASSUME NEW i \in (consumed + 2)..Len(log), base[i].sure
               PROVE  CwdReady(i)' /\ FdReady(i)' /\ ProcReady(i)'
    BY <1>1 DEF PendingInv, Ready
  <2>1. i \in (consumed + 1)..Len(log) /\ i \in 1..Len(log) /\ i - 1 \in Nat /\ consumed < i - 1
    BY <1>1
  <2>2. CwdReady(i) /\ FdReady(i) /\ ProcReady(i)
    BY <2>1 DEF ReplayInv, PendingInv, Ready
  <2> DEFINE e == log[i]
             v == base[i].dir
             n == i - 1
  <2>3. e \in Event /\ Shape(e)
    BY <2>1, GroundFacts
  <2>4. e.pid \in Task /\ Source(e) \in Task
    BY <2>3 DEF Event, Shape, Source
  <2>5. CwdReady(i)'
    <3> SUFFICES ASSUME NeedsCwd(e) PROVE
          /\ v \in Where
          /\ Will(log', base', consumed', CwdWriters(log', Source(e)), cwd_cache'[Source(e)], n, v)
      BY <1>1 DEF CwdReady, WillCwd
    <3>1. v \in Where /\ WillCwd(Source(e), n, v)
      BY <2>2 DEF CwdReady
    <3> DEFINE t == Source(e)
    <3>2. t \in Task /\ n \in Nat /\ consumed < n
      BY <2>1, <2>4
    <3> HIDE DEF t, n, v
    <3>3. Will(log', base', consumed', CwdWriters(log', t), cwd_cache'[t], n, v)
      BY <3>1, <3>2, TakeCwd DEF t
    <3> QED
      BY <3>1, <3>3 DEF t
  <2>6. FdReady(i)'
    <3> SUFFICES ASSUME NeedsFd(e) PROVE
          /\ v \in Where
          /\ Will(log', base', consumed', FdWriters(log', e.pid, e.dirfd),
                  fd_map'[e.pid][e.dirfd], n, v)
      BY <1>1 DEF FdReady, WillFd
    <3>1. v \in Where /\ WillFd(e.pid, e.dirfd, n, v)
      BY <2>2 DEF FdReady
    <3> DEFINE t == e.pid
               fd == e.dirfd
    <3>2. t \in Task /\ n \in Nat /\ consumed < n
      BY <2>1, <2>4
    <3>3. fd \in Fd
      BY <2>3 DEF Shape, NeedsFd, Dirfd, EV_OPENAT_DIR, LifeEtype, EV_FORK_TRACKED,
                  EV_EXIT_TRACKED
    <3> HIDE DEF t, n, v, fd
    <3>4. Will(log', base', consumed', FdWriters(log', t, fd), fd_map'[t][fd], n, v)
      BY <3>1, <3>2, <3>3, TakeFd DEF t, fd
    <3> QED
      BY <3>1, <3>4 DEF t, fd
  <2>7. ProcReady(i)'
    BY <1>1, <2>2 DEF ProcReady
  <2> QED
    BY <2>5, <2>6, <2>7
<1> QED
  BY <1>2, <1>3, <1>4, <1>5 DEF ReplayInv

LEMMA ReplayInit == TInit => ReplayInv
<1> SUFFICES ASSUME TInit PROVE ReplayInv
  OBVIOUS
<1>1. /\ lead = [t \in Task |-> t] /\ call = [t \in Task |-> None] /\ known = {}
      /\ mapped = [t \in Task |-> {}] /\ Len(log) = 0 /\ consumed = 0
  BY DEF TInit, Init
<1>2. (0 + 1)..0 = {}
  OBVIOUS
<1> QED
  BY <1>1, <1>2 DEF ReplayInv, KinInv, KnownInv, MappedInv, PendingInv

LEMMA ReplayStep == GroundInv /\ ReplayInv /\ [TNext]_tracerVars => ReplayInv'
<1> SUFFICES ASSUME GroundInv, ReplayInv, [TNext]_tracerVars PROVE ReplayInv'
  OBVIOUS
<1>1. CASE TSpawn \/ TSeed \/ TReap \/ (\E t \in Task : TRelease(t)) \/ UNCHANGED tracerVars
  BY <1>1, QuietReplay
<1>2. CASE SeedCwd
  BY <1>2, SeedCwdReplay
<1>3. CASE TConsume
  BY <1>3, ConsumeReplay
<1>4. CASE \E p, c \in Task : TFork(p, c)
  BY <1>4, ForkReplay
<1>5. CASE \E t \in Task : TTaskExit(t)
  BY <1>5, ExitReplay
<1>6. CASE \E t \in Task, fd \in Fd : Close(t, fd)
  BY <1>6, CloseReplay
<1>7. CASE \E t \in Task, c \in Call : TSysEnter(t, c)
  BY <1>7, QuietReplay
<1>8. CASE \E t \in Task, ret \in Fd \cup {-1, 0} : TSysExit(t, ret)
  BY <1>8, SysExitReplay
<1> QED
  BY <1>1, <1>2, <1>3, <1>4, <1>5, <1>6, <1>7, <1>8 DEF TNext

LEMMA GroundInit == TInit => GroundInv
  BY WatchInit, FreshInit, TypesInit DEF GroundInv

LEMMA GroundStep == GroundInv /\ [TNext]_tracerVars => GroundInv'
  BY WatchStep, FreshStep, TypesStep DEF GroundInv

(* CaughtUp is what is left of KnownInv and MappedInv when nothing is       *)
(* pending.                                                                *)
LEMMA ReplayImplies == GroundInv /\ ReplayInv => CaughtUp
<1> SUFFICES ASSUME GroundInv, ReplayInv, consumed = Len(log), NEW t \in known
             PROVE  /\ cwd_cache[t] = cwd[lead[t]]
                    /\ \A fd \in mapped[t] : fd_map[t][fd] = files[lead[t]][fd]
  BY DEF CaughtUp
<1>1. consumed \in Nat /\ t \in Task
  BY GroundFacts, KinFacts
<1>2. cwd_cache[t] = cwd[lead[t]]
  <2> DEFINE W == CwdWriters(log, t)
             v == cwd[lead[t]]
             cell == cwd_cache[t]
  <2>1. Will(log, base, consumed, W, cell, consumed, v)
    BY DEF ReplayInv, KnownInv, WillCwd
  <2> HIDE DEF W, v, cell
  <2>2. cell = v
    BY <1>1, <2>1, WillNow
  <2> QED
    BY <2>2 DEF cell, v
<1>3. ASSUME NEW fd \in mapped[t] PROVE fd_map[t][fd] = files[lead[t]][fd]
  <2> DEFINE W == FdWriters(log, t, fd)
             v == files[lead[t]][fd]
             cell == fd_map[t][fd]
  <2>1. Will(log, base, consumed, W, cell, consumed, v)
    BY <1>1 DEF ReplayInv, MappedInv, WillFd
  <2> HIDE DEF W, v, cell
  <2>2. cell = v
    BY <1>1, <2>1, WillNow
  <2> QED
    BY <2>2 DEF cell, v
<1> QED
  BY <1>2, <1>3

(* Once the ring is drained, the replayed cwd of every task the log         *)
(* accounts for is its cwd, and its replayed descriptors are its            *)
(* descriptors, whatever was lost, reused or shared in between (the         *)
(* branches of handle_event, main.rs:192-302).                              *)
THEOREM ReplayCatchesUp == TSpec => []CaughtUp
  BY GroundInit, GroundStep, ReplayInit, ReplayStep, ReplayImplies, PTL DEF TSpec
-----------------------------------------------------------------------------
(* The origin of a pending event never moves and is never more certain than *)
(* it was.                                                                 *)
Steady ==
  \A i \in 1..Len(log) : base'[i].dir = base[i].dir /\ (base'[i].sure => base[i].sure)

LEMMA BaseSteady == GroundInv /\ [TNext]_tracerVars => Steady
<1> SUFFICES ASSUME GroundInv, [TNext]_tracerVars PROVE Steady
  OBVIOUS
<1>1. CASE UNCHANGED base
  BY <1>1 DEF Steady
<1>2. ASSUME NEW o \in Base, NEW users, NEW fds, Remember(o, users, fds),
             UNCHANGED <<consumed, cwd_cache, fd_map>>
      PROVE  Steady
  <2>1. Frame
    BY <1>2, RememberFrame
  <2> QED
    BY <2>1, GroundFacts DEF Frame, Weakened, Base, Steady
<1>3. NoOrigin \in Base
  BY DEF NoOrigin, Base
<1>4. CASE TSpawn \/ SeedCwd \/ TSeed \/ TReap \/ TConsume \/ UNCHANGED tracerVars
           \/ (\E t \in Task : TRelease(t)) \/ \E t \in Task, c \in Call : TSysEnter(t, c)
  BY <1>1, <1>4
  DEF TSpawn, SeedCwd, TSeed, TReap, TRelease, TConsume, TSysEnter, replayVars, tracerVars
<1>5. ASSUME NEW p \in Task, NEW c \in Task, TFork(p, c) PROVE Steady
  <2> DEFINE o == [dir |-> cwd[lead[p]], sure |-> p \in known]
  <2>1. o \in Base
    BY PathAssumption DEF Base, GroundInv, TypesInv, WorldOK
  <2>2. Remember(o, {}, {}) /\ UNCHANGED <<consumed, cwd_cache, fd_map>>
    BY <1>5 DEF TFork, Fork, stateVars
  <2> HIDE DEF o
  <2> QED
    BY <1>2, <2>1, <2>2
<1>6. ASSUME NEW t \in Task, TTaskExit(t) PROVE Steady
  <2>1. Remember(NoOrigin, {t}, Fd) /\ UNCHANGED <<consumed, cwd_cache, fd_map>>
    BY <1>6 DEF TTaskExit, TaskExit, stateVars
  <2> QED
    BY <1>2, <1>3, <2>1
<1>7. ASSUME NEW t \in Task, NEW fd \in Fd, Close(t, fd) PROVE Steady
  <2>1. Remember(NoOrigin, Sharers(t), {fd}) /\ UNCHANGED <<consumed, cwd_cache, fd_map>>
    BY <1>7 DEF Close, stateVars
  <2> QED
    BY <1>2, <1>3, <2>1
<1>8. ASSUME NEW t \in Task, NEW ret \in Fd \cup {-1, 0}, TSysExit(t, ret) PROVE Steady
  <2> DEFINE o == Origin(t, call[t])
  <2>1. call[t] \in Call
    BY <1>8 DEF TSysExit, SysExit, GroundInv, TypesInv, ProbesInv, TypeOK
  <2>2. o \in Base
    BY <2>1, OriginType DEF GroundInv, TypesInv
  <2>3. Remember(o, {}, {}) /\ UNCHANGED <<consumed, cwd_cache, fd_map>>
    BY <1>8 DEF TSysExit, SysExit, stateVars
  <2> HIDE DEF o
  <2> QED
    BY <1>2, <2>2, <2>3
<1> QED
  BY <1>4, <1>5, <1>6, <1>7, <1>8 DEF TNext

(* A creation that is sure carries the path of its call.                    *)
PathInv ==
  \A i \in 1..Len(log) : log[i].etype \in CreationEvent /\ base[i].sure =>
    origin[i] \in 1..Len(done) /\ log[i].path = done[origin[i]].call.path

LEMMA LifeIsNoCreation ==
  ASSUME GroundInv, Adds, NEW t \in Task, NEW p \in Task,
         handle_fork(p, t) \/ handle_exit(t)
  PROVE  New.etype \notin CreationEvent
<1> DEFINE e == LifeEvent(EV_FORK_TRACKED, t, p)
           f == LifeEvent(EV_EXIT_TRACKED, t, None)
<1>1. log \in Seq(Event) /\ Len(log) \in Nat
  BY GroundFacts
<1>2. log' = log \/ log' = Append(log, e) \/ log' = Append(log, f)
  BY DEF handle_fork, handle_exit, Reserve
<1>3. e \in Event /\ f \in Event
  BY LifeEventType
<1>4. e.etype \notin CreationEvent /\ f.etype \notin CreationEvent
  BY DEF LifeEvent, CreationEvent, EV_FORK_TRACKED, EV_EXIT_TRACKED, EV_OPENAT_CREATE
<1> HIDE DEF e, f
<1>5. log' # log
  BY <1>1 DEF Adds
<1>6. New = e \/ New = f
  BY <1>1, <1>2, <1>3, <1>5, AppendFacts DEF New
<1> QED
  BY <1>4, <1>6

(* Only the end of a call adds a creation.                                  *)
LEMMA CreationIsExit ==
  ASSUME GroundInv, [TNext]_tracerVars, Adds, New.etype \in CreationEvent
  PROVE  \E t \in Task, ret \in Fd \cup {-1, 0} : TSysExit(t, ret)
<1>1. Len(log) \in Nat /\ log' # log
  BY GroundFacts DEF Adds
<1>2. \A p, c \in Task : ~TFork(p, c)
  BY LifeIsNoCreation DEF TFork, Fork
<1>3. \A u \in Task : ~TTaskExit(u)
  BY LifeIsNoCreation DEF TTaskExit, TaskExit
<1>4. ~(\/ UNCHANGED tracerVars \/ TSpawn \/ SeedCwd \/ TSeed \/ TReap \/ TConsume
        \/ \E t \in Task : TRelease(t))
  BY <1>1 DEF TSpawn, SeedCwd, TSeed, TReap, TRelease, TConsume, Spawn, Seed, Reap, Release,
     Consume, vars, tracerVars, mapVars
<1>5. \A u \in Task, c \in Call : ~TSysEnter(u, c)
  BY <1>1 DEF TSysEnter, SysEnter
<1>6. \A u \in Task, fd \in Fd : ~Close(u, fd)
  BY <1>1 DEF Close, mapVars
<1> QED
  BY <1>2, <1>3, <1>4, <1>5, <1>6 DEF TNext

LEMMA NewPath ==
  ASSUME GroundInv, [TNext]_tracerVars, Adds, New.etype \in CreationEvent, NewBase.sure
  PROVE  /\ origin'[Len(log) + 1] \in 1..Len(done')
         /\ New.path = done'[origin'[Len(log) + 1]].call.path
<1>2. PICK t \in Task, ret \in Fd \cup {-1, 0} : TSysExit(t, ret)
  BY CreationIsExit
<1> DEFINE c == call[t]
           o == Origin(t, c)
           k == Len(log) + 1
<1>3. /\ c \in Call /\ Relevant(c) /\ New = Emitted(t, c, ret)
      /\ Len(done') = Len(done) + 1 /\ done'[Len(done')].call = c
      /\ origin'[k] = Len(done')
  BY <1>2, EmittedEvent
<1>4. NewBase = o
  <2>1. o \in Base
    BY <1>3, OriginType DEF GroundInv, TypesInv
  <2>2. Remember(o, {}, {}) /\ UNCHANGED <<consumed, cwd_cache, fd_map>>
    BY <1>2 DEF TSysExit, SysExit, stateVars
  <2> HIDE DEF o
  <2> QED
    BY <2>1, <2>2, RememberFrame DEF Adds, NewBase
<1>5. o.sure
  BY <1>4
<1> HIDE DEF c
<1>6. Fits(c.path)
  <2>1. Creates(c)
    <3> DEFINE e == New
    <3>1. e = Emitted(t, c, ret)
      BY <1>3
    <3> HIDE DEF e
    <3>2. e.etype \in CreationEvent <=> Creates(c)
      BY <1>3, <3>1, EmittedFields
    <3> QED
      BY <3>2 DEF e
  <2>2. c.path # None
    BY <1>3, <2>1, CallAssumption DEF Creates, OpenatFamily
  <2> QED
    BY <1>5, <2>2 DEF Origin, Replayable
<1>7. New.path = c.path
  <2> DEFINE e == New
  <2>1. e = Emitted(t, c, ret)
    BY <1>3
  <2> HIDE DEF e
  <2>2. e.path = c.path
    BY <1>3, <1>6, <2>1, EmittedFields
  <2> QED
    BY <2>2 DEF e
<1>8. Len(done) \in Nat
  BY DEF GroundInv, TypesInv, ProbesInv, TypeOK
<1> QED
  BY <1>3, <1>7, <1>8

(* Of the log nothing changes but its end.                                  *)
LEMMA OldPath ==
  ASSUME GroundInv, PathInv, [TNext]_tracerVars, NEW i \in 1..Len(log),
         log[i].etype \in CreationEvent, base'[i].sure
  PROVE  /\ base[i].sure /\ base'[i].dir = base[i].dir
         /\ log'[i] = log[i] /\ origin'[i] = origin[i] /\ origin'[i] \in 1..Len(done')
         /\ done'[origin'[i]] = done[origin[i]]
         /\ log[i].path = done[origin[i]].call.path
<1>1. base[i].sure /\ base'[i].dir = base[i].dir
  BY BaseSteady DEF Steady
<1>2. Grown
  BY LogGrows DEF GroundInv, WatchInv
<1>3. origin[i] \in 1..Len(done) /\ log[i].path = done[origin[i]].call.path
  BY <1>1 DEF PathInv
<1>4. Plain(done) /\ Len(done) \in Nat
  BY DEF GroundInv, TypesInv, ProbesInv, TypeOK, Plain
<1>5. Len(done') \in {Len(done), Len(done) + 1} /\ \A d \in 1..Len(done) : done'[d] = done[d]
  BY <1>2, <1>4, AppendPlain DEF Grown
<1>6. log'[i] = log[i] /\ origin'[i] = origin[i]
  BY <1>2 DEF Grown
<1>7. origin[i] \in 1..Len(done') /\ done'[origin[i]] = done[origin[i]]
  BY <1>3, <1>4, <1>5
<1> QED
  BY <1>1, <1>3, <1>6, <1>7

LEMMA LogByOne ==
  ASSUME GroundInv, [TNext]_tracerVars
  PROVE  Len(log') = Len(log) \/ Adds
<1>1. LogStays \/ LogAdds
  BY LogStep DEF GroundInv, WatchInv
<1>2. log \in Seq(Event)
  BY GroundFacts
<1> QED
  BY <1>1, <1>2, AppendFacts DEF LogStays, LogAdds, Adds

LEMMA PathStep == GroundInv /\ PathInv /\ [TNext]_tracerVars => PathInv'
<1> SUFFICES ASSUME GroundInv, PathInv, [TNext]_tracerVars, NEW i \in 1..Len(log'),
                    log'[i].etype \in CreationEvent, base'[i].sure
             PROVE  origin'[i] \in 1..Len(done') /\ log'[i].path = done'[origin'[i]].call.path
  BY DEF PathInv, CreationEvent, EV_OPENAT_CREATE
<1>1. Len(log) \in Nat
  BY GroundFacts
<1>2. Len(log') = Len(log) \/ Adds
  BY LogByOne
<1>3. CASE i \in 1..Len(log)
  <2>1. log'[i] = log[i]
    BY <1>3, LogGrows DEF Grown, GroundInv, WatchInv
  <2> QED
    BY <1>3, <2>1, OldPath
<1>4. CASE i = Len(log) + 1 /\ Adds
  BY <1>4, NewPath DEF New, NewBase
<1> QED
  BY <1>1, <1>2, <1>3, <1>4 DEF Adds

(* A creation is captured with the directory it started from.               *)
LEMMA CapturedWhereMade ==
  ASSUME GroundInv, ReplayInv, PathInv, consumed < Len(log), base[consumed + 1].sure,
         NEW e, e = log[consumed + 1], e.etype \in CreationEvent
  PROVE  ResolveFrom(ResolvedBase(e), e.path) = RealPath(consumed + 1)
<1> DEFINE b == base[consumed + 1]
           k == consumed + 1
<1>1. k \in 1..Len(log)
  BY GroundFacts
<1>2. e.path = done[origin[k]].call.path
  BY <1>1 DEF PathInv
<1>3. RealPath(k) = ResolveFrom(b.dir, e.path)
  BY <1>2 DEF RealPath
<1>4. CASE e.path \in Absolute
  BY <1>3, <1>4 DEF ResolveFrom
<1>5. CASE e.path \notin Absolute
  <2>1. Relative(e) /\ e.etype # EV_FORK_TRACKED
    BY <1>5 DEF Relative, LifeEtype, CreationEvent, EV_FORK_TRACKED, EV_EXIT_TRACKED,
                EV_OPENAT_CREATE
  <2>2. CASE e.dirfd = AT_FDCWD
    <3>1. NeedsCwd(e)
      BY <2>1, <2>2 DEF NeedsCwd
    <3>2. Cwd(e.pid) = b.dir
      BY <2>1, <3>1, HeadResolves
    <3> QED
      BY <1>3, <1>5, <2>2, <3>2 DEF ResolvedBase
  <2>3. CASE e.dirfd # AT_FDCWD
    <3>1. NeedsProc(e)
      BY <2>1, <2>3 DEF NeedsProc
    <3>2. task[e.pid] = "running" /\ files[lead[e.pid]][e.dirfd] = b.dir
      BY <3>1, HeadFacts
    <3> QED
      BY <1>3, <1>5, <2>3, <3>2 DEF ResolvedBase, proc_fd
  <2> QED
    BY <2>2, <2>3
<1> QED
  BY <1>4, <1>5

ReportInv == CaptureInv /\ PathInv /\ ReportedWhereMade

LEMMA ReportInit == TInit => ReportInv
<1> SUFFICES ASSUME TInit PROVE ReportInv
  OBVIOUS
<1>1. Len(log) = 0 /\ Len(events) = 0
  BY DEF TInit, Init
<1> QED
  BY <1>1, CaptureInit DEF ReportInv, PathInv, ReportedWhereMade

LEMMA ReportStep ==
  GroundInv /\ ReplayInv /\ ReportInv /\ [TNext]_tracerVars => ReportInv'
<1> SUFFICES ASSUME GroundInv, ReplayInv, ReportInv, [TNext]_tracerVars PROVE ReportInv'
  OBVIOUS
<1>1. CaptureInv' /\ PathInv'
  BY CaptureStep, PathStep DEF ReportInv, GroundInv, WatchInv
<1>2. consumed \in Nat /\ consumed <= Len(log) /\ Len(log) \in Nat /\ Len(events) \in Nat
  BY GroundFacts DEF ReportInv, CaptureInv, Plain
<1> DEFINE Real(k) == ResolveFrom(base'[k].dir, done'[origin'[k]].call.path)
<1>3. ASSUME NEW i \in 1..Len(events), base'[events[i].seq].sure
      PROVE  resolve(events[i]) = Real(events[i].seq)
  <2> DEFINE k == events[i].seq
  <2>1. k \in Made
    BY DEF ReportInv, CaptureInv
  <2>2. k \in 1..Len(log) /\ log[k].etype \in CreationEvent
    BY <1>2, <2>1 DEF Made
  <2>3. base[k].sure /\ base'[k].dir = base[k].dir /\ done'[origin'[k]] = done[origin[k]]
    <3> HIDE DEF k
    <3>1. base'[k].sure
      BY <1>3 DEF k
    <3> QED
      BY <2>2, <3>1, OldPath DEF ReportInv
  <2>4. resolve(events[i]) = RealPath(k)
    BY <2>3 DEF ReportInv, ReportedWhereMade
  <2> QED
    BY <2>3, <2>4 DEF RealPath
<1>4. ReportedWhereMade' <=>
        \A i \in 1..Len(events') :
          base'[events'[i].seq].sure => resolve(events'[i]) = Real(events'[i].seq)
  BY DEF ReportedWhereMade, RealPath, resolve, ResolveFrom
<1> HIDE DEF Real
<1>5. CASE UNCHANGED events
  <2>1. ReportedWhereMade'
    BY <1>3, <1>4, <1>5
  <2> QED
    BY <1>1, <2>1 DEF ReportInv
<1>6. CASE Captures /\ ~(UNCHANGED events)
  <2> DEFINE e == log[consumed + 1]
             v == Captured(e)
             k == consumed + 1
  <2>1. /\ events' = Append(events, v) /\ UNCHANGED <<log, origin, done>>
        /\ consumed < Len(log) /\ e.etype \in CreationEvent
    BY <1>6 DEF Captures, Takes, push_event
  <2>2. v.seq = k /\ resolve(v) = ResolveFrom(ResolvedBase(e), e.path)
    BY DEF Captured, resolve
  <2>3. ASSUME base'[k].sure PROVE resolve(v) = Real(k)
    <3>1. k \in 1..Len(log)
      BY <1>2, <2>1
    <3>2. base[k].sure /\ base'[k].dir = base[k].dir
      <4> HIDE DEF k
      <4> QED
        BY <2>3, <3>1, BaseSteady DEF Steady
    <3>3. resolve(v) = RealPath(k)
      BY <2>1, <2>2, <3>2, CapturedWhereMade DEF ReportInv
    <3> QED
      BY <2>1, <3>2, <3>3 DEF RealPath, Real
  <2> HIDE DEF v, k
  <2>4. \A i \in 1..Len(events') :
          \/ i \in 1..Len(events) /\ events'[i] = events[i]
          \/ events'[i] = v
    BY <1>2, <2>1, AppendPlain DEF ReportInv, CaptureInv
  <2>5. ReportedWhereMade'
    BY <1>3, <1>4, <2>2, <2>3, <2>4
  <2> QED
    BY <1>1, <2>5 DEF ReportInv
<1> QED
  BY <1>5, <1>6, CaptureSteps DEF Aside, Skips, Untouched

(* Every creation whose base is sure is reported under the path it was made *)
(* at, for every delay of its handling and every move of its task and of    *)
(* the others in between (the branch of the creations in handle_event,      *)
(* main.rs:303).                                                            *)
THEOREM FilesAreReportedWhereMade == TSpec => []ReportedWhereMade
<1>1. ReportInv => ReportedWhereMade
  BY DEF ReportInv
<1> QED
  BY <1>1, GroundInit, GroundStep, ReplayInit, ReplayStep, ReportInit, ReportStep, PTL
     DEF TSpec
=============================================================================
