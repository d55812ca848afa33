---------------------------- MODULE CleanupProofs ----------------------------
(***************************************************************************)
(* For every filesystem, command line and number of changes by others:     *)
(* nocruft removes only what it listed and was told to remove, and spares  *)
(* the older files the program only opened.                                *)
(***************************************************************************)
EXTENDS Cleanup, TLAPS

(* The command line asked for a deletion, in a mode that deletes.          *)
Asked ==
  /\ ~On("--nc-json") /\ ~On("--nc-no-dedupe")
  /\ On("--nc-delete-dangerous") \/ On("--nc-delete-interactive")

(* What it rests on: at each label of the deletion the grant stands, and   *)
(* nothing has gone before the worker starts, while the list and the       *)
(* selection may still change.                                             *)
GrantInv ==
  /\ \A r \in removed : r.path \in Granted
  /\ removed # {} => Asked
  /\ pc \in {"select", "confirm"} => Asked /\ ~On("--nc-delete-dangerous")
  /\ pc \in {"delete", "remove"} => Asked /\ targets \subseteq Granted
  /\ pc = "remove" => current.path \in Granted
  /\ pc \notin {"delete", "remove", "done"} => removed = {}

(* Before the worker starts the invariant says little.                     *)
LEMMA EarlyStep ==
  ASSUME removed = {}, removed' = {},
         pc' \notin {"select", "confirm", "delete", "remove"}
  PROVE  GrantInv'
  BY DEF GrantInv

(* Whatever leaves the list, the selection and the worker alone keeps it.  *)
LEMMA AsideStep ==
  ASSUME GrantInv, UNCHANGED <<pc, config, seen, deleteVars>>
  PROVE  GrantInv'
  BY DEF GrantInv, Asked, Granted, On, deleteVars

LEMMA GrantInit == CInit => GrantInv
  BY DEF CInit, SInit, GrantInv

LEMMA GrantStep == GrantInv /\ [CNext]_cleanupVars => GrantInv'
<1> SUFFICES ASSUME GrantInv, [CNext]_cleanupVars PROVE GrantInv'
  OBVIOUS
<1> USE DEF GrantInv
<1>1. CASE UNCHANGED cleanupVars
  BY <1>1, AsideStep DEF cleanupVars, summaryVars, optionVars, reportVars
<1>2. CASE SummaryStep /\ UNCHANGED deleteVars
  <2>1. CASE Outsiders
    BY <1>2, <2>1, AsideStep DEF Outsiders, optionVars, reportVars
  <2>2. CASE Parse \/ Program \/ RootExits \/ Filter \/ AskBirth \/ Report
    <3>1. removed = {} /\ removed' = {}
      BY <1>2, <2>2
      DEF Parse, Program, RootExits, Filter, AskBirth, Report, deleteVars
    <3>2. pc' \notin {"select", "confirm", "delete", "remove"}
      BY <2>2 DEF Parse, Program, RootExits, Filter, AskBirth, Advance, Report
    <3> QED
      BY <3>1, <3>2, EarlyStep
  <2> QED
    BY <1>2, <2>1, <2>2 DEF SummaryStep
<1>3. CASE Emit
  <2>1. removed = {} /\ removed' = {} /\ UNCHANGED <<config, seen>>
    BY <1>3 DEF Emit, Goto, optionVars, reportVars
  <2>2. CASE pc' = "done"
    BY <2>1, <2>2, EarlyStep
  <2>3. CASE pc' = "delete"
    BY <1>3, <2>1, <2>3 DEF Emit, Goto, Asked, Granted, On
  <2>4. CASE pc' = "select"
    BY <1>3, <2>1, <2>4 DEF Emit, Goto, Asked, On
  <2> QED
    BY <1>3, <2>2, <2>3, <2>4 DEF Emit, Goto
<1>4. CASE Select
  <2>1. removed = {} /\ removed' = {} /\ UNCHANGED config /\ pc' \in {"done", "confirm"}
    BY <1>4 DEF Select, Goto, optionVars
  <2> QED
    BY <1>4, <2>1 DEF Select, Asked, On
<1>5. CASE Confirm
  <2>1. removed = {} /\ removed' = {} /\ UNCHANGED <<config, seen>>
    BY <1>5 DEF Confirm, Goto, optionVars, reportVars
  <2>2. CASE pc' = "done"
    BY <2>1, <2>2, EarlyStep
  <2>3. CASE pc' = "delete"
    BY <1>5, <2>1, <2>3 DEF Confirm, Goto, Asked, Granted, On
  <2> QED
    BY <1>5, <2>2, <2>3 DEF Confirm, Goto
<1>6. CASE Look
  <2>1. UNCHANGED <<config, seen, chosen, removed>> /\ pc' \in {"delete", "remove"}
    BY <1>6 DEF Look, Goto, optionVars, reportVars
  <2>2. Granted' = Granted /\ Asked' = Asked
    BY <2>1 DEF Granted, Asked, On
  <2>3. targets' \subseteq Granted
    BY <1>6 DEF Look
  <2>4. pc' = "remove" => current'.path \in Granted
    BY <1>6 DEF Look, Goto, First
  <2> QED
    BY <1>6, <2>1, <2>2, <2>3, <2>4 DEF Look
<1>7. CASE Remove
  <2>1. UNCHANGED <<config, seen, chosen, targets>> /\ pc = "remove" /\ pc' = "delete"
    BY <1>7 DEF Remove, optionVars, reportVars
  <2>2. Granted' = Granted /\ Asked' = Asked
    BY <2>1 DEF Granted, Asked, On
  <2>3. \A r \in removed' : r \in removed \/ r.path = current.path
    BY <1>7 DEF Remove
  <2> QED
    BY <2>1, <2>2, <2>3
<1>8. CASE Refused
  BY <1>8 DEF Refused, optionVars, reportVars, Granted, Asked, On
<1>9. CASE Deleted
  BY <1>9 DEF Deleted, Goto, optionVars, reportVars, deleteVars, Granted, Asked, On
<1> QED
  BY <1>1, <1>2, <1>3, <1>4, <1>5, <1>6, <1>7, <1>8, <1>9 DEF CNext

(* The grant stands in every reachable state.                              *)
THEOREM GrantStands == CSpec => []GrantInv
<1>1. CInit => GrantInv
  BY GrantInit
<1>2. GrantInv /\ [CNext]_cleanupVars => GrantInv'
  BY GrantStep
<1> QED
  BY <1>1, <1>2, PTL DEF CSpec

-----------------------------------------------------------------------------
(* Where names lead.                                                       *)

LEMMA LeadPlace ==
  ASSUME node \in [Place -> Node], NEW x \in Place
  PROVE  Hop(x) \in Place /\ Lead(x) \in Place
<1>1. ASSUME NEW y \in Place PROVE Hop(y) \in Place
  BY DEF Hop, Node, Absent
<1> QED
  BY <1>1 DEF Lead

(* A name leads to a place that its directory can hold, or nowhere.        *)
LEMMA AtPlace ==
  ASSUME node \in [Place -> Node], NEW p \in Path
  PROVE  /\ At(p) \in Place \cup {None}
         /\ At(p) # None => CanHold(At(p))
         /\ At(p) # None => Parent[At(p)] = IF Via[p] = None THEN None ELSE Lead(Via[p])
<1>1. CASE Via[p] = None
  BY <1>1, WayAssumption DEF At, CanHold, WayAssumption
<1>2. CASE Via[p] # None /\ At(p) # None
  <2>1. Via[p] \in Place
    BY <1>2, PlaceAssumption DEF PlaceAssumption
  <2>2. Lead(Via[p]) \in Place /\ node[Lead(Via[p])].kind = "dir" /\ At(p) = Inside[p][Lead(Via[p])]
    BY <1>2, <2>1, LeadPlace DEF At
  <2>3. At(p) \in Place
    BY <1>2, <2>2, PlaceAssumption DEF PlaceAssumption
  <2>4. Parent[At(p)] = Lead(Via[p])
    BY <1>2, <2>2, WayAssumption DEF WayAssumption
  <2> QED
    BY <1>2, <2>2, <2>3, <2>4 DEF CanHold
<1> QED
  BY <1>1, <1>2

(* What does not touch the files turns no name.                            *)
LEMMA SameWay ==
  ASSUME UNCHANGED node
  PROVE  \A p : At(p)' = At(p) /\ (exists_now(p)' <=> exists_now(p))
  BY DEF At, Lead, Hop, exists_now, Present

(* Taking places away may cut a name off; it turns none elsewhere.         *)
LEMMA ClearedWay ==
  ASSUME node \in [Place -> Node], NEW xs, Clear(xs), NEW p \in Path
  PROVE  At(p)' \in {At(p), None}
<1>1. CASE Via[p] = None
  BY <1>1 DEF At
<1>2. CASE Via[p] # None
  <2> DEFINE v == Via[p]
             a == Hop(v)
             b == Hop(a)
  <2>1. v \in Place
    BY <1>2, PlaceAssumption DEF PlaceAssumption
  <2>2. a \in Place /\ b \in Place
    BY <2>1, LeadPlace
  <2>3. ASSUME NEW y \in Place
        PROVE  IF y \in xs THEN node'[y] = Absent ELSE node'[y] = node[y]
    BY DEF Clear
  <2>4. Absent.kind \notin {"dir", "link"}
    BY DEF Absent
  <2>5. ASSUME NEW y \in Place, y \in xs PROVE Hop(y)' = y /\ node'[y].kind # "dir"
    BY <2>3, <2>4, <2>5 DEF Hop
  <2>6. ASSUME NEW y \in Place, y \notin xs PROVE Hop(y)' = Hop(y)
    BY <2>3, <2>6 DEF Hop
  <2>7. At(p)' = IF node'[Lead(v)'].kind = "dir" THEN Inside[p][Lead(v)'] ELSE None
    BY <1>2 DEF At
  <2>8. CASE v \in xs
    <3>1. Lead(v)' = v
      BY <2>1, <2>5, <2>8 DEF Lead
    <3> QED
      BY <2>1, <2>5, <2>7, <2>8, <3>1
  <2>9. CASE v \notin xs /\ a \in xs
    <3>1. Lead(v)' = a
      BY <2>1, <2>2, <2>5, <2>6, <2>9 DEF Lead
    <3> QED
      BY <2>2, <2>5, <2>7, <2>9, <3>1
  <2>10. CASE v \notin xs /\ a \notin xs
    <3>1. Lead(v)' = b /\ Lead(v) = b
      BY <2>1, <2>2, <2>6, <2>10 DEF Lead
    <3>2. CASE b \in xs
      BY <2>2, <2>5, <2>7, <3>1, <3>2
    <3>3. CASE b \notin xs
      BY <1>2, <2>2, <2>3, <2>7, <3>1, <3>3 DEF At
    <3> QED
      BY <3>2, <3>3
  <2> QED
    BY <2>8, <2>9, <2>10
<1> QED
  BY <1>1, <1>2

-----------------------------------------------------------------------------
(* The filesystem stays a tree: what is there lies in a directory.          *)
TreeInv ==
  /\ node \in [Place -> Node]
  /\ \A y \in Place : Present(y) /\ Parent[y] # None => node[Parent[y]].kind = "dir"

LEMMA Childless ==
  ASSUME TreeInv, NEW x \in Place, node[x].kind # "dir"
  PROVE  ~HasChildren(x)
  BY PlaceAssumption DEF PlaceAssumption, TreeInv, HasChildren

LEMMA FillNode ==
  ASSUME node \in [Place -> Node], NEW x \in Place, NEW kinds, NEW births,
         births \subseteq {"before", "after"}, Fill(x, kinds, births)
  PROVE  /\ node' \in [Place -> Node]
         /\ \A y \in Place \ {x} : node'[y] = IF y \in Contents(x) THEN Absent ELSE node[y]
<1>1. PICK k \in kinds \cap Kind[x], b \in births :
        \E t \in IF k = "link" THEN Target[x] ELSE {None} :
          node' = [y \in Place |-> IF y = x THEN [kind |-> k, birth |-> b, to |-> t]
                                  ELSE IF y \in Contents(x) THEN Absent ELSE node[y]]
  BY DEF Fill
<1>2. PICK t \in IF k = "link" THEN Target[x] ELSE {None} :
        node' = [y \in Place |-> IF y = x THEN [kind |-> k, birth |-> b, to |-> t]
                                ELSE IF y \in Contents(x) THEN Absent ELSE node[y]]
  BY <1>1
<1>3. k \in {"file", "dir", "link"} /\ b \in {"before", "after"} /\ (k = "link" => t \in Place)
      /\ (k # "link" => t = None)
  BY <1>1, <1>2, PlaceAssumption DEF PlaceAssumption
<1>4. [kind |-> k, birth |-> b, to |-> t] \in Node /\ Absent \in Node
  BY <1>3 DEF Node
<1> QED
  BY <1>2, <1>4

(* A place that holds nothing is filled alone.                             *)
LEMMA FillAlone ==
  ASSUME node \in [Place -> Node], NEW x \in Place, NEW kinds, NEW births,
         births \subseteq {"before", "after"}, Fill(x, kinds, births), ~HasChildren(x)
  PROVE  \A y \in Place \ {x} : node'[y] = node[y]
  BY FillNode DEF HasChildren, Contents, Present

(* A place may change, with all it held gone, where its directory is, or   *)
(* when it is emptied.                                                     *)
LEMMA TreeKept ==
  ASSUME TreeInv, node' \in [Place -> Node], NEW x \in Place,
         \A y \in Place \ {x} : node'[y] = IF y \in Contents(x) THEN Absent ELSE node[y],
         CanHold(x) \/ node'[x] = Absent
  PROVE  TreeInv'
<1> SUFFICES ASSUME NEW y \in Place, Present(y)', Parent[y] # None
             PROVE  node'[Parent[y]].kind = "dir"
  BY DEF TreeInv
<1> DEFINE e == Parent[y]
<1>1. e \in Place /\ Parent[e] = None
  BY PlaceAssumption, WayAssumption DEF PlaceAssumption, WayAssumption
<1>2. e # y /\ e \notin Contents(x)
  BY <1>1, PlaceAssumption DEF PlaceAssumption, Contents
<1>3. CASE y = x
  BY <1>1, <1>2, <1>3 DEF Present, CanHold
<1>4. CASE y # x
  <2>1. y \notin Contents(x) /\ node'[y] = node[y]
    BY <1>4 DEF Present
  <2>2. Present(y) /\ e # x
    BY <2>1 DEF Present, Contents
  <2> QED
    BY <1>1, <1>2, <2>2 DEF TreeInv
<1> QED
  BY <1>3, <1>4

LEMMA TreeFill ==
  ASSUME TreeInv, NEW x \in Place, CanHold(x), NEW kinds, NEW births,
         births \subseteq {"before", "after"}, Fill(x, kinds, births)
  PROVE  TreeInv'
  BY FillNode, TreeKept DEF TreeInv

LEMMA TreeClear ==
  ASSUME TreeInv, NEW x \in Place, Clear({x} \cup Contents(x))
  PROVE  TreeInv'
<1>1. node' \in [Place -> Node]
  BY DEF Clear, TreeInv, Node
<1>2. node'[x] = Absent /\ \A y \in Place \ {x} : node'[y] = IF y \in Contents(x) THEN Absent ELSE node[y]
  BY DEF Clear
<1> QED
  BY <1>1, <1>2, TreeKept

(* What the filesystem holds in the beginning.                             *)
LEMMA FirstNode ==
  ASSUME CInit
  PROVE  /\ node \in [Place -> Node] /\ kept \subseteq Place
         /\ \E old \in Old :
              /\ kept = DOMAIN old
              /\ \A x \in kept : node[x].kind = old[x] /\ node[x].birth = "before"
              /\ \A y \in Place \ kept : node[y] = Absent
<1>1. PICK old \in Old :
        /\ kept = DOMAIN old
        /\ \E aim \in [{x \in kept : old[x] = "link"} -> Place] :
             /\ \A x \in DOMAIN aim : aim[x] \in Target[x]
             /\ node = [x \in Place |->
                  IF x \in kept THEN [kind |-> old[x], birth |-> "before",
                                     to |-> IF x \in DOMAIN aim THEN aim[x] ELSE None]
                  ELSE Absent]
  BY DEF CInit, SInit
<1>2. PICK aim \in [{x \in kept : old[x] = "link"} -> Place] :
        node = [x \in Place |->
          IF x \in kept THEN [kind |-> old[x], birth |-> "before",
                             to |-> IF x \in DOMAIN aim THEN aim[x] ELSE None]
          ELSE Absent]
  BY <1>1
<1>3. kept \subseteq Place /\ \A x \in kept : old[x] \in {"file", "dir", "link"}
  BY <1>1, PlaceAssumption DEF PlaceAssumption
<1>4. ASSUME NEW x \in Place PROVE node[x] \in Node
  <2>1. CASE x \notin kept
    BY <1>2, <2>1 DEF Node
  <2>2. CASE x \in kept /\ old[x] = "link"
    <3>1. node[x] = [kind |-> "link", birth |-> "before", to |-> aim[x]] /\ aim[x] \in Place
      BY <1>2, <2>2
    <3> QED
      BY <3>1 DEF Node
  <2>3. CASE x \in kept /\ old[x] # "link"
    <3>1. node[x] = [kind |-> old[x], birth |-> "before", to |-> None] /\ old[x] \in {"file", "dir"}
      BY <1>2, <1>3, <2>3
    <3> QED
      BY <3>1 DEF Node
  <2> QED
    BY <2>1, <2>2, <2>3
<1>5. node \in [Place -> Node]
  BY <1>2, <1>4
<1>6. /\ \A x \in kept : node[x].kind = old[x] /\ node[x].birth = "before"
      /\ \A y \in Place \ kept : node[y] = Absent
  BY <1>2, <1>3
<1> QED
  BY <1>1, <1>3, <1>5, <1>6

LEMMA TreeInit == CInit => TreeInv
<1> SUFFICES ASSUME CInit PROVE TreeInv
  OBVIOUS
<1>1. node \in [Place -> Node]
  BY FirstNode
<1>2. PICK old \in Old :
        /\ kept = DOMAIN old
        /\ \A x \in kept : node[x].kind = old[x] /\ node[x].birth = "before"
        /\ \A y \in Place \ kept : node[y] = Absent
  BY FirstNode
<1>3. \A x \in kept : Parent[x] # None => Parent[x] \in kept /\ old[Parent[x]] = "dir"
  BY <1>2, OldAssumption DEF OldAssumption
<1> QED
  BY <1>1, <1>2, <1>3 DEF TreeInv, Present

-----------------------------------------------------------------------------
(* What the list rests on.                                                 *)

(* What has been there all the time is older than nocruft, until nocruft   *)
(* itself removes it.                                                      *)
Gone == {r.place : r \in removed}
KeptInv ==
  /\ kept \subseteq Place
  /\ \A x \in kept \ Gone : node[x].birth = "before"

(* A listed path that others have not turned elsewhere leads to where it   *)
(* was listed, or nowhere, and nothing else has gone by it.                *)
WayInv ==
  /\ led \in [Path -> Place \cup {None}] /\ redirected \subseteq seen
  /\ undisturbed => redirected = {}
  /\ \A p \in seen \ redirected : At(p) \in {led[p], None}
  /\ removed \subseteq [path : Path, place : Place]
  /\ \A r \in removed : r.path \in seen \ redirected => r.place = led[r.path]

(* A listed path has its licence, or led to no older file, or was turned.  *)
Excused(p) == Licensed(p) \/ led[p] \notin kept \/ p \in redirected

ListInv ==
  /\ events \in Seq(Event) /\ next \in Nat \ {0}
  /\ seen \subseteq Path /\ chosen \subseteq seen
  /\ pc = "birth" => next <= Len(events) /\ events[next].path # None
  /\ pc \in {"parse", "run", "failed"} => seen = {}
  /\ pc \in {"parse", "run", "filter", "birth", "listed"} => chosen = {}
  /\ \A p \in seen : Excused(p)

SparedInv == GrantInv /\ TreeInv /\ KeptInv /\ WayInv /\ ListInv /\ OlderFilesSpared

LEMMA CaptureEvents ==
  ASSUME events \in Seq(Event), NEW p \in Path, NEW syscall, NEW flags \in Flags,
         syscall \in {EV_OPENAT_CREATE, EV_MKDIRAT, EV_RENAMEAT2},
         Capture(p, syscall, flags)
  PROVE  events' \in Seq(Event)
<1>1. PICK told \in Told[p], cut \in IF p \in LongPath THEN BOOLEAN ELSE {FALSE} :
        events' = Append(events, [syscall |-> syscall, flags |-> flags, path |-> told,
                                  truncated |-> cut])
  BY DEF Capture
<1>2. told \in Path \cup {None} /\ cut \in BOOLEAN
  BY PlaceAssumption DEF PlaceAssumption
<1>3. [syscall |-> syscall, flags |-> flags, path |-> told, truncated |-> cut] \in Event
  BY <1>2 DEF Event
<1> QED
  BY <1>1, <1>3

LEMMA SparedInit == CInit => SparedInv
<1> SUFFICES ASSUME CInit PROVE SparedInv
  OBVIOUS
<1>1. GrantInv /\ TreeInv
  BY GrantInit, TreeInit
<1>2. KeptInv
  BY FirstNode DEF KeptInv
<1>3. led = [p \in Path |-> None] /\ redirected = {} /\ seen = {} /\ removed = {}
  BY DEF CInit, SInit
<1>4. WayInv
  BY <1>3 DEF WayInv
<1>5. ListInv /\ OlderFilesSpared
  BY DEF CInit, SInit, ListInv, OlderFilesSpared
<1> QED
  BY <1>1, <1>2, <1>4, <1>5 DEF SparedInv

(* Steps of the tracked program: nothing is listed yet, and a place that   *)
(* changes hands is not kept.                                              *)
LEMMA ProgramStep == SparedInv /\ Program /\ UNCHANGED deleteVars => SparedInv'
<1> SUFFICES ASSUME SparedInv, Program, UNCHANGED deleteVars PROVE SparedInv'
  OBVIOUS
<1> USE DEF SparedInv
<1>1. PICK p \in Path :
        /\ At(p) # None
        /\ OpenCreate(p) \/ MakeNew(p) \/ MoveHere(p) \/ Exchange(p)
  BY DEF Program
<1>2. /\ UNCHANGED <<pc, config, next, seen, undisturbed, led, redirected>>
      /\ UNCHANGED <<chosen, targets, current, removed>>
      /\ pc = "run" /\ seen = {} /\ removed = {} /\ chosen = {}
  BY DEF Program, ListInv, GrantInv, optionVars, ledVars, deleteVars
<1> DEFINE x == At(p)
<1>3. x \in Place /\ CanHold(x)
  BY <1>1, AtPlace DEF TreeInv
<1>4. Absent.birth # "before" /\ Absent.kind # "dir"
  BY DEF Absent
<1>5. ~Present(x) => x \notin kept /\ ~HasChildren(x)
  BY <1>2, <1>3, <1>4, Childless DEF KeptInv, Gone, Present
<1>6. \/ UNCHANGED node /\ UNCHANGED kept
      \/ /\ \E kinds : \E births \in SUBSET {"before", "after"} : Fill(x, kinds, births)
         /\ ~HasChildren(x) /\ kept' \subseteq kept \ {x}
  <2>1. CASE OpenCreate(p)
    BY <1>5, <2>1 DEF OpenCreate
  <2>2. CASE MakeNew(p)
    BY <1>5, <2>2 DEF MakeNew
  <2>3. CASE MoveHere(p)
    BY <2>3 DEF MoveHere
  <2>4. CASE Exchange(p)
    BY <1>3, <2>4, Childless DEF Exchange
  <2> QED
    BY <1>1, <2>1, <2>2, <2>3, <2>4
<1>7. TreeInv' /\ KeptInv'
  <2>1. CASE UNCHANGED node /\ UNCHANGED kept
    BY <1>2, <2>1 DEF TreeInv, KeptInv, Gone, Present
  <2>2. CASE /\ \E kinds : \E births \in SUBSET {"before", "after"} : Fill(x, kinds, births)
             /\ ~HasChildren(x) /\ kept' \subseteq kept \ {x}
    <3>0. PICK kinds : \E births \in SUBSET {"before", "after"} : Fill(x, kinds, births)
      BY <2>2
    <3>1. PICK births \in SUBSET {"before", "after"} : Fill(x, kinds, births)
      BY <3>0
    <3>2. node \in [Place -> Node] /\ births \subseteq {"before", "after"}
      BY <3>1 DEF TreeInv
    <3>3. TreeInv'
      BY <1>3, <3>1, <3>2, TreeFill
    <3>4. \A y \in Place \ {x} : node'[y] = node[y]
      BY <1>3, <2>2, <3>1, <3>2, FillAlone
    <3> QED
      BY <1>2, <2>2, <3>3, <3>4 DEF KeptInv, Gone
  <2> QED
    BY <1>6, <2>1, <2>2
<1>8. events' \in Seq(Event)
  BY <1>1, CaptureEvents DEF OpenCreate, MakeNew, MoveHere, Exchange, ListInv, Flags
<1>9. ListInv' /\ WayInv' /\ OlderFilesSpared'
  BY <1>2, <1>8 DEF ListInv, WayInv, OlderFilesSpared
<1>10. GrantInv'
  BY <1>2, AsideStep DEF deleteVars
<1> QED
  BY <1>7, <1>9, <1>10

(* Steps of anyone else: they keep no file, and a name they turn is no     *)
(* longer one that leads where it did.                                     *)
LEMMA OutsidersStep == SparedInv /\ Outsiders /\ UNCHANGED deleteVars => SparedInv'
<1> SUFFICES ASSUME SparedInv, Outsiders, UNCHANGED deleteVars PROVE SparedInv'
  OBVIOUS
<1> USE DEF SparedInv
<1>1. PICK x \in Place : (Put(x) \/ TakeAway(x)) /\ kept' = kept \ ({x} \cup Contents(x))
  BY DEF Outsiders
<1>2. /\ UNCHANGED <<pc, config, events, next, seen, led>>
      /\ UNCHANGED <<chosen, targets, current, removed>>
      /\ undisturbed' => pc = "run" /\ undisturbed
      /\ redirected' = redirected \cup {p \in seen : At(p)' \notin {led[p], None}}
  BY DEF Outsiders, Meddle, optionVars, reportVars, deleteVars
<1>3. /\ TreeInv'
      /\ \A y \in Place \ ({x} \cup Contents(x)) : node'[y] = node[y]
  <2>1. CASE Put(x)
    BY <2>1, FillNode, TreeFill DEF Put, TreeInv
  <2>2. CASE TakeAway(x)
    BY <2>2, TreeClear DEF TakeAway, Clear
  <2> QED
    BY <1>1, <2>1, <2>2
<1>4. KeptInv'
  BY <1>1, <1>2, <1>3 DEF KeptInv, Gone
<1>5. WayInv'
  <2>1. redirected' \subseteq seen
    BY <1>2 DEF WayInv
  <2>2. undisturbed' => redirected' = {}
    BY <1>2, <2>1, <1>2 DEF ListInv, WayInv
  <2>3. \A p \in seen' \ redirected' : At(p)' \in {led'[p], None}
    BY <1>2
  <2>4. \A r \in removed' : r.path \in seen' \ redirected' => r.place = led'[r.path]
    BY <1>2 DEF WayInv
  <2> QED
    BY <1>2, <2>1, <2>2, <2>3, <2>4 DEF WayInv
<1>6. \A p : Licensed(p)' <=> Licensed(p)
  BY <1>2 DEF Licensed, On, Forced, Text
<1>7. kept' \subseteq kept /\ redirected \subseteq redirected'
  BY <1>1, <1>2
<1>8. ListInv'
  BY <1>2, <1>6, <1>7 DEF ListInv, Excused
<1>9. OlderFilesSpared'
  BY <1>2, <1>6, <1>7 DEF OlderFilesSpared
<1>10. GrantInv'
  BY <1>2, AsideStep DEF deleteVars
<1> QED
  BY <1>3, <1>4, <1>5, <1>8, <1>9, <1>10

(* Listing a path that is excused: it leads where it leads now.            *)
LEMMA AdvanceStep ==
  ASSUME SparedInv, pc \in {"filter", "birth"}, next <= Len(events), NEW keep \in BOOLEAN, Advance(keep),
         UNCHANGED <<events, optionVars, worldVars, deleteVars>>,
         NEW q, q = events[next].path,
         keep => q # None /\ (Licensed(q)' \/ At(q) \notin kept)
  PROVE  SparedInv'
<1> USE DEF SparedInv
<1>1. /\ UNCHANGED <<config, events, node, undisturbed, kept>>
      /\ UNCHANGED <<chosen, targets, current, removed>>
      /\ next' = next + 1 /\ pc' = "filter"
      /\ removed = {} /\ chosen = {} /\ next \in 1..Len(events)
  BY DEF Advance, optionVars, worldVars, deleteVars, ListInv, GrantInv
<1>2. \/ UNCHANGED <<seen, led, redirected>>
      \/ /\ keep /\ seen' \in {seen, seen \cup {q}}
         /\ led' = [led EXCEPT ![q] = At(q)] /\ redirected' = redirected \ {q}
  <2>1. CASE keep
    BY <2>1 DEF Advance, Keep
  <2>2. CASE ~keep
    BY <2>2 DEF Advance, ledVars
  <2> QED
    BY <2>1, <2>2
<1>3. keep => q \in Path
  <2>1. events[next] \in Event
    BY <1>1 DEF ListInv
  <2> QED
    BY <2>1 DEF Event
<1>4. TreeInv' /\ KeptInv' /\ \A p : At(p)' = At(p)
  BY <1>1, SameWay DEF TreeInv, KeptInv, Gone, Present
<1>5. CASE UNCHANGED <<seen, led, redirected>>
  <2>1. \A p : Excused(p)' <=> Excused(p)
    BY <1>1, <1>5 DEF Excused, Licensed, On, Forced, Text
  <2>2. ListInv' /\ WayInv' /\ OlderFilesSpared'
    BY <1>1, <1>4, <1>5, <2>1 DEF ListInv, WayInv, OlderFilesSpared
  <2> QED
    BY <1>1, <1>4, <2>2, EarlyStep
<1>6. CASE /\ keep /\ seen' \in {seen, seen \cup {q}}
           /\ led' = [led EXCEPT ![q] = At(q)] /\ redirected' = redirected \ {q}
  <2>1. q \in Path /\ At(q) \in Place \cup {None}
    BY <1>3, <1>6, AtPlace DEF TreeInv
  <2>2. led'[q] = At(q) /\ \A p \in Path \ {q} : led'[p] = led[p]
    BY <1>6, <2>1 DEF WayInv
  <2>3. seen' \subseteq Path
    BY <1>6, <2>1 DEF ListInv
  <2>4. WayInv'
    <3>1. led' \in [Path -> Place \cup {None}]
      BY <1>6, <2>1 DEF WayInv
    <3>2. \A p \in seen' \ redirected' : At(p)' \in {led'[p], None}
      BY <1>4, <1>6, <2>2, <2>3 DEF WayInv
    <3> QED
      BY <1>1, <1>6, <3>1, <3>2 DEF WayInv
  <2>5. ASSUME NEW p \in seen' PROVE Excused(p)'
    <3>1. CASE p = q
      BY <1>1, <1>6, <2>2, <3>1 DEF Excused
    <3>2. CASE p # q
      <4>1. p \in seen /\ p \in Path /\ led'[p] = led[p]
        BY <1>6, <2>2, <2>3, <3>2
      <4>2. Licensed(p)' <=> Licensed(p)
        BY <1>1, <4>1 DEF Licensed, On, Forced, Text
      <4> QED
        BY <1>1, <1>6, <3>2, <4>1, <4>2 DEF ListInv, Excused
    <3> QED
      BY <3>1, <3>2
  <2>6. ListInv' /\ OlderFilesSpared'
    BY <1>1, <2>3, <2>5 DEF ListInv, OlderFilesSpared
  <2> QED
    BY <1>1, <1>4, <2>4, <2>6, EarlyStep
<1> QED
  BY <1>2, <1>5, <1>6

(* The first look: a path that passes without its birth time is licensed.  *)
LEMMA FilterStep == SparedInv /\ Filter /\ UNCHANGED deleteVars => SparedInv'
<1> SUFFICES ASSUME SparedInv, Filter, UNCHANGED deleteVars PROVE SparedInv'
  OBVIOUS
<1> DEFINE ev == events[next]
<1>1. pc = "filter" /\ next <= Len(events) /\ UNCHANGED <<events, optionVars, worldVars, deleteVars>>
  BY DEF Filter
<1>2. CASE Verdict(ev) = "ask"
  <2>1. /\ UNCHANGED <<next, seen, led, redirected, config, node, undisturbed, kept>>
        /\ UNCHANGED <<chosen, removed>> /\ pc' = "birth"
    BY <1>1, <1>2 DEF Filter, optionVars, worldVars, ledVars, deleteVars
  <2>2. ev.path # None
    BY <1>2 DEF Verdict, Missing
  <2>3. \A p : (Excused(p)' <=> Excused(p)) /\ At(p)' = At(p)
    BY <1>1, <2>1, SameWay DEF Excused, Licensed, On, Forced, Text
  <2>4. ListInv' /\ KeptInv' /\ TreeInv' /\ WayInv'
    BY <1>1, <2>1, <2>2, <2>3 DEF SparedInv, ListInv, KeptInv, Gone, TreeInv, Present, WayInv
  <2>5. removed = {} /\ removed' = {}
    BY <1>1, <2>1 DEF SparedInv, GrantInv
  <2> QED
    BY <2>1, <2>4, <2>5, EarlyStep DEF SparedInv, OlderFilesSpared
<1>3. CASE Verdict(ev) # "ask"
  <2>1. Advance(Verdict(ev) = "keep")
    BY <1>1, <1>3 DEF Filter
  <2>2. PICK p : p = ev.path
    OBVIOUS
  <2>3. ASSUME Verdict(ev) = "keep" PROVE p # None /\ Licensed(p)'
    <3>1. p # None /\ (Forced(p) \/ ~AsksBirth(ev))
      BY <2>2, <2>3 DEF Verdict, Missing
    <3>2. next \in 1..Len(events) /\ UNCHANGED <<config, events>>
      BY <1>1 DEF SparedInv, ListInv, optionVars
    <3> QED
      BY <2>2, <3>1, <3>2 DEF Licensed, AsksBirth, Forced, On, Text
  <2> QED
    BY <1>1, <2>1, <2>2, <2>3, AdvanceStep
<1> QED
  BY <1>2, <1>3

(* The second look: without a birth time the path leads to nothing that    *)
(* was kept.                                                               *)
LEMMA AskBirthStep == SparedInv /\ AskBirth /\ UNCHANGED deleteVars => SparedInv'
<1> SUFFICES ASSUME SparedInv, AskBirth, UNCHANGED deleteVars PROVE SparedInv'
  OBVIOUS
<1>0. PICK p : p = events[next].path
  OBVIOUS
<1> DEFINE keep == is_genuine_creation(p) /\ ~Noise(p)
<1>1. pc = "birth" /\ UNCHANGED <<events, optionVars, worldVars, deleteVars>> /\ Advance(keep)
  BY <1>0 DEF AskBirth
<1>2. next <= Len(events) /\ p # None /\ removed = {} /\ next \in 1..Len(events)
  BY <1>0, <1>1 DEF SparedInv, ListInv, GrantInv
<1>3. p \in Path /\ led \in [Path -> Place \cup {None}]
  <2>1. events[next] \in Event
    BY <1>2 DEF SparedInv, ListInv
  <2> QED
    BY <1>0, <1>2, <2>1 DEF SparedInv, WayInv, Event
<1>4. ASSUME keep PROVE Licensed(p)' \/ At(p) \notin kept
  <2>1. None # "before" /\ None \notin kept
    BY PlaceAssumption DEF PlaceAssumption, SparedInv, KeptInv
  <2>2. CASE At(p) \in NoBtime
    <3>1. led' = [led EXCEPT ![p] = At(p)]
      BY <1>0, <1>1, <1>4 DEF Advance
    <3> QED
      BY <1>3, <2>2, <3>1 DEF Licensed
  <2>3. CASE ~exists_now(p)
    BY <1>2, <2>1, <2>3 DEF SparedInv, KeptInv, Gone, exists_now, Present, Absent
  <2>4. CASE exists_now(p) /\ At(p) \notin NoBtime
    <3>1. node[At(p)].birth # "before"
      BY <1>4, <2>1, <2>4 DEF is_genuine_creation, file_btime
    <3> QED
      BY <1>2, <3>1 DEF SparedInv, KeptInv, Gone
  <2> QED
    BY <2>2, <2>3, <2>4
<1>5. keep \in BOOLEAN
  OBVIOUS
<1> HIDE DEF keep
<1> QED
  BY <1>0, <1>1, <1>2, <1>4, <1>5, AdvanceStep

(* Steps of nocruft that leave the list and the files alone.               *)
LEMMA QuietStep ==
  ASSUME SparedInv, GrantInv',
         UNCHANGED <<optionVars, reportVars, worldVars, ledVars, removed>>,
         chosen' \subseteq seen, chosen' = {} \/ pc' \in {"confirm", "delete", "remove", "done"},
         pc' # "birth", pc' \in {"parse", "run", "failed"} => seen = {}
  PROVE  SparedInv'
<1>1. /\ UNCHANGED <<config, events, next, seen, node, undisturbed, kept, removed>>
      /\ UNCHANGED <<led, redirected>>
  BY DEF optionVars, reportVars, worldVars, ledVars
<1>2. \A p : /\ Excused(p)' <=> Excused(p)
             /\ Licensed(p)' <=> Licensed(p)
             /\ At(p)' = At(p)
  BY <1>1, SameWay DEF Excused, Licensed, On, Forced, Text
<1>3. ListInv'
  BY <1>1, <1>2 DEF SparedInv, ListInv
<1>4. TreeInv' /\ KeptInv' /\ WayInv' /\ OlderFilesSpared'
  BY <1>1, <1>2 DEF SparedInv, TreeInv, Present, KeptInv, Gone, WayInv, OlderFilesSpared
<1> QED
  BY <1>3, <1>4 DEF SparedInv

(* The worker's call takes what a granted name leads to, if that holds     *)
(* nothing, or takes nothing at all.                                       *)
LEMMA RemoveTakesOne ==
  ASSUME SparedInv, Remove
  PROVE  /\ current.path \in Granted /\ current.path \in Path
         /\ \/ UNCHANGED <<node, removed>>
            \/ \E x \in Place :
                 /\ x = At(current.path) /\ Present(x) /\ ~HasChildren(x)
                 /\ Clear({x}) /\ removed' = removed \cup {[path |-> current.path, place |-> x]}
<1> DEFINE p == current.path
           x == At(p)
           taken == Takes(p, current.rmdir)
<1>1. /\ pc = "remove" /\ Clear(taken)
      /\ removed' = removed \cup {[path |-> p, place |-> y] : y \in taken}
  BY DEF Remove
<1>2. node \in [Place -> Node]
  BY DEF SparedInv, TreeInv
<1>3. p \in Granted
  BY <1>1 DEF SparedInv, GrantInv
<1>4. p \in Path
  BY <1>3, ShownAssumption DEF ShownAssumption, Granted, SparedInv, ListInv
<1>5. CASE taken = {}
  <2>1. node' = node
    BY <1>1, <1>2, <1>5 DEF Clear
  <2> QED
    BY <1>1, <1>3, <1>4, <1>5, <2>1
<1>6. CASE taken # {}
  <2>1. /\ taken = {x} /\ exists_now(p) /\ current.rmdir = (node[x].kind = "dir")
        /\ ~(current.rmdir /\ HasChildren(x))
    BY <1>6 DEF Takes
  <2>2. x \in Place /\ Present(x)
    BY <1>2, <1>4, <2>1, AtPlace DEF exists_now
  <2>3. ~HasChildren(x)
    BY <2>1, <2>2, Childless DEF SparedInv
  <2>4. {[path |-> p, place |-> y] : y \in taken} = {[path |-> p, place |-> x]}
    BY <2>1
  <2> HIDE DEF taken, x
  <2>5. Clear({x}) /\ removed' = removed \cup {[path |-> p, place |-> x]}
    BY <1>1, <2>1, <2>4
  <2> USE DEF x
  <2> QED
    BY <1>3, <1>4, <2>2, <2>3, <2>5
<1> QED
  BY <1>5, <1>6

(* The removal: what it takes is what the name led to when it was listed,  *)
(* unless others have turned it; a kept file had a path with its licence,  *)
(* or the prompt's line named another.                                     *)
LEMMA RemoveStep == SparedInv /\ Remove /\ GrantInv' => SparedInv'
<1> SUFFICES ASSUME SparedInv, Remove, GrantInv' PROVE SparedInv'
  OBVIOUS
<1> USE DEF SparedInv
<1>1. /\ UNCHANGED <<config, events, next, seen, undisturbed, kept, chosen, led, redirected>>
      /\ pc = "remove" /\ pc' = "delete"
  BY DEF Remove, optionVars, reportVars, ledVars
<1>2. \A p : Licensed(p)' <=> Licensed(p)
  BY <1>1 DEF Licensed, On, Forced, Text
<1>3. ListInv'
  BY <1>1, <1>2 DEF ListInv, Excused
<1>4. CASE UNCHANGED <<node, removed>>
  BY <1>1, <1>2, <1>3, <1>4, SameWay
  DEF TreeInv, Present, KeptInv, Gone, WayInv, OlderFilesSpared
<1> DEFINE q == current.path
<1>5. ASSUME NEW x \in Place,
             x = At(q), Present(x), ~HasChildren(x), q \in Granted, q \in Path,
             Clear({x}), removed' = removed \cup {[path |-> q, place |-> x]}
      PROVE  SparedInv'
  <2>1. node'[x] = Absent /\ \A y \in Place \ {x} : node'[y] = node[y]
    BY <1>5 DEF Clear
  <2>2. TreeInv'
    <3>1. \A y \in Contents(x) : node[y] = Absent
      BY <1>5 DEF HasChildren, Contents, Present
    <3>2. node' \in [Place -> Node]
      BY <1>5 DEF Clear, TreeInv, Node
    <3>3. \A y \in Place \ {x} : node'[y] = IF y \in Contents(x) THEN Absent ELSE node[y]
      BY <2>1, <3>1
    <3> QED
      BY <2>1, <3>2, <3>3, TreeKept
  <2>3. x \in Gone' /\ \A y \in Gone : y \in Gone'
    <3>1. PICK e : e = [path |-> q, place |-> x]
      OBVIOUS
    <3>2. e.place = x /\ removed' = removed \cup {e}
      BY <1>5, <3>1
    <3> QED
      BY <3>2 DEF Gone
  <2>4. KeptInv'
    BY <1>1, <2>1, <2>3 DEF KeptInv
  <2>5. x # None
    BY PlaceAssumption DEF PlaceAssumption
  <2>6. q \in seen \ redirected => x = led[q]
    BY <1>5, <2>5 DEF WayInv
  <2>7. WayInv'
    <3>1. \A p \in seen \ redirected : At(p)' \in {led[p], None}
      <4> SUFFICES ASSUME NEW p \in seen \ redirected PROVE At(p)' \in {led[p], None}
        OBVIOUS
      <4>1. p \in Path /\ At(p) \in {led[p], None}
        BY DEF ListInv, WayInv
      <4>2. At(p)' \in {At(p), None}
        BY <1>5, <4>1, ClearedWay DEF TreeInv
      <4> QED
        BY <4>1, <4>2
    <3>2. removed' \subseteq [path : Path, place : Place]
      BY <1>5 DEF WayInv
    <3>3. \A r \in removed' : r.path \in seen \ redirected => r.place = led[r.path]
      BY <1>5, <2>6 DEF WayInv
    <3> QED
      BY <1>1, <3>1, <3>2, <3>3 DEF WayInv
  <2>8. ASSUME x \in kept
        PROVE  \/ q \in seen /\ (Licensed(q) \/ q \in redirected)
               \/ \E p \in seen : Shown[p] = q /\ Shown[p] # p
    <3>1. CASE q \in seen
      BY <2>6, <2>8, <3>1 DEF ListInv, Excused
    <3>2. CASE q \notin seen
      <4>1. PICK p \in chosen : q = Shown[p]
        BY <1>5, <3>2 DEF Granted
      <4> QED
        BY <3>2, <4>1 DEF ListInv
    <3> QED
      BY <3>1, <3>2
  <2>9. OlderFilesSpared'
    <3> SUFFICES ASSUME NEW r \in removed', r.place \in kept
                 PROVE  \/ r.path \in seen /\ (Licensed(r.path)' \/ r.path \in redirected)
                        \/ \E p \in seen : Shown[p] = r.path /\ Shown[p] # p
      BY <1>1, <1>2 DEF OlderFilesSpared
    <3>1. CASE r \in removed
      BY <1>2, <3>1 DEF OlderFilesSpared
    <3>2. CASE r = [path |-> q, place |-> x]
      BY <1>2, <2>8, <3>2
    <3> QED
      BY <1>5, <3>1, <3>2
  <2> QED
    BY <1>3, <2>2, <2>4, <2>7, <2>9
<1> QED
  BY <1>4, <1>5, RemoveTakesOne

LEMMA SparedStep == SparedInv /\ [CNext]_cleanupVars => SparedInv'
<1> SUFFICES ASSUME SparedInv, [CNext]_cleanupVars PROVE SparedInv'
  OBVIOUS
<1>1. GrantInv'
  BY GrantStep DEF SparedInv
<1>2. SparedInv => chosen \subseteq seen
  BY DEF SparedInv, ListInv
<1>3. CASE UNCHANGED cleanupVars
  <2>1. /\ UNCHANGED <<pc, config, events, next, seen, node, undisturbed, kept, chosen, removed>>
        /\ UNCHANGED <<led, redirected>>
    BY <1>3 DEF cleanupVars, summaryVars, optionVars, reportVars, worldVars, ledVars, deleteVars
  <2>2. \A p : /\ Excused(p)' <=> Excused(p)
               /\ Licensed(p)' <=> Licensed(p)
               /\ At(p)' = At(p)
    BY <2>1, SameWay DEF Excused, Licensed, On, Forced, Text
  <2>3. TreeInv' /\ KeptInv' /\ WayInv'
    BY <2>1, <2>2 DEF SparedInv, TreeInv, Present, KeptInv, Gone, WayInv
  <2> QED
    BY <1>1, <2>1, <2>2, <2>3 DEF SparedInv, ListInv, OlderFilesSpared
<1>4. CASE SummaryStep /\ UNCHANGED deleteVars
  <2>1. CASE Parse
    <3>1. /\ UNCHANGED <<events, next, seen, node, kept, undisturbed, led, redirected>>
          /\ UNCHANGED <<chosen, removed>>
          /\ seen = {} /\ removed = {} /\ chosen = {} /\ pc' \in {"run", "failed"}
      BY <1>4, <2>1
      DEF Parse, reportVars, worldVars, ledVars, deleteVars, SparedInv, ListInv, GrantInv
    <3>2. TreeInv' /\ KeptInv'
      BY <3>1 DEF SparedInv, TreeInv, Present, KeptInv, Gone
    <3>3. WayInv' /\ ListInv' /\ OlderFilesSpared'
      BY <3>1 DEF SparedInv, WayInv, ListInv, OlderFilesSpared
    <3> QED
      BY <1>1, <3>2, <3>3 DEF SparedInv
  <2>2. CASE Program
    BY <1>4, <2>2, ProgramStep
  <2>3. CASE RootExits
    BY <1>1, <1>2, <1>4, <2>3, QuietStep DEF RootExits, deleteVars, SparedInv, ListInv
  <2>4. CASE Filter
    BY <1>4, <2>4, FilterStep
  <2>5. CASE AskBirth
    BY <1>4, <2>5, AskBirthStep
  <2>6. CASE Report
    BY <1>1, <1>2, <1>4, <2>6, QuietStep DEF Report, deleteVars, SparedInv, ListInv
  <2>7. CASE Outsiders
    BY <1>4, <2>7, OutsidersStep
  <2> QED
    BY <1>4, <2>1, <2>2, <2>3, <2>4, <2>5, <2>6, <2>7 DEF SummaryStep
<1>5. CASE Emit
  <2>1. chosen = {}
    BY <1>5 DEF Emit, SparedInv, ListInv
  <2> QED
    BY <1>1, <1>5, <2>1, QuietStep DEF Emit, Goto
<1>6. CASE Select
  BY <1>1, <1>6, QuietStep DEF Select, Goto
<1>7. CASE Confirm
  BY <1>1, <1>2, <1>7, QuietStep DEF Confirm, Goto
<1>8. CASE Look
  BY <1>1, <1>2, <1>8, QuietStep DEF Look, Goto
<1>9. CASE Remove
  BY <1>1, <1>9, RemoveStep
<1>10. CASE Refused
  BY <1>1, <1>2, <1>10, QuietStep DEF Refused
<1>11. CASE Deleted
  BY <1>1, <1>2, <1>11, QuietStep DEF Deleted, Goto, deleteVars
<1> QED
  BY <1>3, <1>4, <1>5, <1>6, <1>7, <1>8, <1>9, <1>10, <1>11 DEF CNext

LEMMA SparedAlways == CSpec => []SparedInv
  BY SparedInit, SparedStep, PTL DEF CSpec

(* nocruft removes only what a flag asked for, by a name that was listed   *)
(* or, at the prompt, selected and confirmed, and only what that name led  *)
(* to when it was listed, unless somebody else has turned it elsewhere     *)
(* between the list, the look and the call, each of which finds out anew   *)
(* where it leads (output.rs:376-395).                                     *)
THEOREM OnlyListedEverGoes == CSpec => []OnlyListedGoes
<1>1. SparedInv => OnlyListedGoes
  BY DEF SparedInv, GrantInv, WayInv, OnlyListedGoes, Asked
<1> QED
  BY <1>1, SparedAlways, PTL

(* An older file that has never been away and that the program only opened *)
(* is not deleted: no interleaving of others' changes with nocruft's two   *)
(* looks gets it listed, and only a name that others turn to it after it   *)
(* was listed, or the display of another path, takes it (output.rs:98).    *)
THEOREM OlderFilesAreSpared == CSpec => []OlderFilesSpared
<1>1. SparedInv => OlderFilesSpared
  BY DEF SparedInv
<1> QED
  BY <1>1, SparedAlways, PTL
-----------------------------------------------------------------------------
(* Nothing is left behind.                                                 *)

(* The paths the worker has still to look at or to remove.                 *)
Pending == targets \cup IF pc = "remove" THEN {current.path} ELSE {}

(* Why a listed path may stay when nobody interferes.                      *)
MayStay(p) ==
  \/ p \in refused \/ HasChildren(At(p))
  \/ \E q \in seen : ByLink(q) /\ Parent[led[q]] = At(p)

(* The worker goes from deep names to shallow ones, and what it is done    *)
(* with is gone, refused or may stay: a child that goes later was listed   *)
(* through a symbolic link, for its own name would have come first.        *)
WorkInv ==
  undisturbed /\ On("--nc-delete-dangerous") =>
    /\ pc \in {"delete", "remove"} =>
         \A p \in seen \ Pending :
           /\ \A t \in Pending : Depth[p] >= Depth[t]
           /\ exists_now(p) => MayStay(p)
    /\ pc = "remove" =>
         /\ exists_now(current.path) =>
              current.rmdir = (node[At(current.path)].kind = "dir")
         /\ \A t \in targets : Depth[current.path] >= Depth[t]
    /\ pc = "done" /\ Asked => \A p \in seen : exists_now(p) => MayStay(p)

(* The state predicates of WorkInv change with the files and the list.     *)
LEMMA WorkFrame ==
  ASSUME UNCHANGED <<config, seen, node, led, refused>>
  PROVE  /\ Asked' = Asked /\ On("--nc-delete-dangerous")' = On("--nc-delete-dangerous")
         /\ \A p : (exists_now(p)' <=> exists_now(p)) /\ (MayStay(p)' <=> MayStay(p))
  BY SameWay DEF Asked, On, exists_now, Present, MayStay, HasChildren, ByLink

LEMMA WorkLook == SparedInv /\ WorkInv /\ Look => WorkInv'
<1> SUFFICES ASSUME SparedInv, WorkInv, Look, undisturbed, On("--nc-delete-dangerous")
             PROVE  WorkInv'
  BY DEF WorkInv, Look, Goto, worldVars, optionVars, On
<1>1. /\ UNCHANGED <<config, seen, node, undisturbed, led, refused>>
      /\ pc = "delete" /\ pc' \in {"delete", "remove"} /\ Pending = targets
  BY DEF Look, Goto, optionVars, reportVars, worldVars, ledVars, Pending
<1>2. PICK p \in First :
        /\ targets' = targets \ {p}
        /\ IF exists_now(p)
           THEN /\ current' = [path |-> p, rmdir |-> node[At(p)].kind = "dir"]
                /\ Goto("remove")
           ELSE Goto("delete") /\ UNCHANGED current
  BY DEF Look
<1>3. p \in targets /\ \A t \in targets : Depth[p] >= Depth[t]
  BY <1>2 DEF First
<1>4. CASE exists_now(p)
  <2>1. pc' = "remove" /\ current' = [path |-> p, rmdir |-> node[At(p)].kind = "dir"]
    BY <1>2, <1>4 DEF Goto
  <2>2. Pending' = targets /\ targets' = targets \ {p}
    BY <1>2, <1>3, <2>1 DEF Pending
  <2>3. At(p)' = At(p) /\ node' = node
    BY <1>1, SameWay
  <2>4. /\ \A q \in seen \ targets :
              (\A t \in targets : Depth[q] >= Depth[t]) /\ (exists_now(q) => MayStay(q))
        /\ \A q : (exists_now(q)' <=> exists_now(q)) /\ (MayStay(q)' <=> MayStay(q))
    BY <1>1, WorkFrame DEF WorkInv
  <2>5. current.path' = p /\ current.rmdir' = (node[At(p)].kind = "dir")
    BY <2>1
  <2>6. exists_now(current.path)' =>
          current.rmdir' = (node[At(current.path)].kind = "dir")'
    BY <2>1, <2>3, <2>5 DEF At, Lead, Hop
  <2> QED
    BY <1>1, <1>3, <2>1, <2>2, <2>4, <2>5, <2>6 DEF WorkInv
<1>5. CASE ~exists_now(p)
  <2>1. pc' = "delete" /\ Pending' = targets \ {p}
    BY <1>2, <1>5 DEF Goto, Pending
  <2> QED
    BY <1>1, <1>3, <1>5, <2>1, WorkFrame DEF WorkInv
<1> QED
  BY <1>4, <1>5

LEMMA WorkRemove == SparedInv /\ WorkInv /\ Remove => WorkInv'
<1> SUFFICES ASSUME SparedInv, WorkInv, Remove, undisturbed, On("--nc-delete-dangerous")
             PROVE  WorkInv'
  BY DEF WorkInv, Remove, optionVars, On
<1>0. PICK c : c = current.path
  OBVIOUS
<1>1. /\ UNCHANGED <<config, seen, targets, undisturbed, led, refused>>
      /\ pc = "remove" /\ pc' = "delete" /\ Pending = targets \cup {c} /\ Pending' = targets
      /\ Clear(Takes(c, current.rmdir))
  BY <1>0 DEF Remove, optionVars, reportVars, ledVars, Pending
<1>2. /\ c \in Path /\ c \in seen /\ seen \subseteq Path /\ targets \subseteq seen
      /\ node \in [Place -> Node] /\ redirected = {}
  BY <1>0, <1>1 DEF SparedInv, GrantInv, ListInv, TreeInv, WayInv, Granted
<1>3. Depth \in [Path -> Nat] /\ None \notin Place
  BY PlaceAssumption, ShownAssumption DEF PlaceAssumption, ShownAssumption
<1>4. \A x \in Place : Present(x)' => Present(x)
  BY <1>1 DEF Present, Clear
<1>5. \A p \in Path : exists_now(p)' => /\ exists_now(p) /\ At(p)' = At(p) /\ At(p) \in Place
  <2> SUFFICES ASSUME NEW p \in Path, exists_now(p)'
               PROVE  exists_now(p) /\ At(p)' = At(p) /\ At(p) \in Place
    OBVIOUS
  <2>1. At(p)' # None /\ Present(At(p))'
    BY DEF exists_now
  <2>2. At(p)' = At(p) /\ At(p) \in Place
    BY <1>1, <1>2, <2>1, ClearedWay, AtPlace
  <2> QED
    BY <1>3, <1>4, <2>1, <2>2 DEF exists_now, Present
<1>6. exists_now(c)' => HasChildren(At(c))
  <2>1. CASE Takes(c, current.rmdir) = {At(c)}
    <3>1. At(c) \in Place => node'[At(c)] = Absent
      BY <1>1, <2>1 DEF Clear
    <3> QED
      BY <1>2, <1>5, <3>1 DEF exists_now, Present
  <2>2. CASE Takes(c, current.rmdir) # {At(c)}
    BY <1>0, <1>1, <1>2, <1>5, <2>2 DEF Takes, WorkInv
  <2> QED
    BY <2>1, <2>2
<1>7. ASSUME NEW p \in seen \ targets, exists_now(p)' PROVE MayStay(p)'
  <2>1. p \in Path /\ exists_now(p) /\ At(p)' = At(p) /\ At(p) \in Place
    BY <1>2, <1>5, <1>7
  <2> SUFFICES ASSUME ~HasChildren(At(p))', p \notin refused
               PROVE  \E q \in seen : ByLink(q) /\ Parent[led[q]] = At(p)
    BY <1>1, <2>1 DEF MayStay, ByLink
  <2>2. CASE ~HasChildren(At(p))
    <3>1. p # c
      BY <1>6, <1>7, <2>2
    <3> QED
      BY <1>1, <2>1, <2>2, <3>1 DEF WorkInv, MayStay
  <2>3. CASE HasChildren(At(p))
    <3>1. PICK y \in Place : Parent[y] = At(p) /\ Present(y) /\ ~Present(y)'
      BY <2>1, <2>3 DEF HasChildren
    <3>2. y = At(c)
      BY <1>1, <3>1 DEF Takes, Present, Clear
    <3>3. y = led[c]
      BY <1>2, <1>3, <3>1, <3>2 DEF SparedInv, WayInv
    <3>4. CASE ByLink(c)
      BY <1>2, <3>1, <3>3, <3>4
    <3>5. CASE ~ByLink(c)
      <4>1. Parent[y] = (IF Via[c] = None THEN None ELSE Lead(Via[c])) /\ y # None
        BY <1>2, <1>3, <3>1, <3>2, AtPlace
      <4>2. Via[c] # None
        BY <1>3, <2>1, <3>1, <4>1
      <4>3. Via[c] = At(p)
        BY <3>1, <3>3, <3>5, <4>1, <4>2 DEF ByLink
      <4>4. Parent[At(p)] = None
        BY <1>2, <4>2, <4>3, WayAssumption DEF WayAssumption
      <4>5. Via[p] = None
        <5>1. ASSUME Via[p] # None PROVE FALSE
          <6>1. Lead(Via[p]) = None
            BY <1>2, <1>3, <2>1, <4>4, <5>1, AtPlace
          <6>2. Via[p] \in Place
            BY <2>1, <5>1, PlaceAssumption DEF PlaceAssumption
          <6> QED
            BY <1>2, <1>3, <6>1, <6>2, LeadPlace
        <5> QED
          BY <5>1
      <4>6. Depth[p] < Depth[c]
        BY <1>2, <2>1, <4>2, <4>3, <4>5, DepthAssumption DEF DepthAssumption, At
      <4>7. p = c \/ Depth[p] >= Depth[c]
        BY <1>1 DEF WorkInv
      <4> QED
        BY <1>2, <1>3, <2>1, <4>6, <4>7
    <3> QED
      BY <3>4, <3>5
  <2> QED
    BY <2>2, <2>3
<1>8. \A p \in seen \ targets : \A t \in targets : Depth[p] >= Depth[t]
  BY <1>0, <1>1 DEF WorkInv
<1> QED
  BY <1>1, <1>7, <1>8 DEF WorkInv

(* A refused call leaves its path where it is, and the worker goes on.     *)
LEMMA WorkRefused == WorkInv /\ Refused => WorkInv'
<1> SUFFICES ASSUME WorkInv, Refused, undisturbed, On("--nc-delete-dangerous")
             PROVE  WorkInv'
  BY DEF WorkInv, Refused, worldVars, optionVars, On
<1>0. PICK c : c = current.path
  OBVIOUS
<1>1. /\ UNCHANGED <<config, seen, node, targets, undisturbed, led>>
      /\ pc = "remove" /\ pc' = "delete" /\ Pending = targets \cup {c} /\ Pending' = targets
      /\ refused' = refused \cup {c}
  BY <1>0 DEF Refused, optionVars, reportVars, worldVars, ledVars, Pending
<1>2. \A p : (exists_now(p)' <=> exists_now(p)) /\ (MayStay(p) => MayStay(p)')
  BY <1>1, SameWay DEF MayStay, HasChildren, Present, ByLink
<1>3. MayStay(c)'
  BY <1>1 DEF MayStay
<1>4. \A p \in seen \ targets : \A t \in targets : Depth[p] >= Depth[t]
  BY <1>0, <1>1 DEF WorkInv
<1>5. \A p \in seen \ targets : exists_now(p) => MayStay(p)'
  BY <1>1, <1>2, <1>3 DEF WorkInv
<1> QED
  BY <1>1, <1>2, <1>4, <1>5 DEF WorkInv

LEMMA WorkInit == CInit => WorkInv
  BY DEF CInit, SInit, WorkInv

LEMMA WorkStep == SparedInv /\ WorkInv /\ [CNext]_cleanupVars => WorkInv'
<1> SUFFICES ASSUME SparedInv, WorkInv, [CNext]_cleanupVars PROVE WorkInv'
  OBVIOUS
<1>1. CASE UNCHANGED cleanupVars
  <2>1. UNCHANGED <<pc, config, seen, node, undisturbed, targets, current, led, refused>>
    BY <1>1 DEF cleanupVars, summaryVars, optionVars, reportVars, worldVars, ledVars, deleteVars
  <2>2. Pending' = Pending /\ current.path' = current.path
    BY <2>1 DEF Pending
  <2>3. At(current.path)' = At(current.path) /\ (exists_now(current.path)' <=> exists_now(current.path))
    BY <2>1, <2>2 DEF At, Lead, Hop, exists_now, Present
  <2> QED
    BY <2>1, <2>2, <2>3, WorkFrame DEF WorkInv
<1>2. CASE SummaryStep /\ UNCHANGED deleteVars
  <2>1. CASE Outsiders
    <3>1. UNCHANGED pc /\ pc \notin {"done"} /\ (undisturbed' => pc = "run")
      BY <2>1 DEF Outsiders, Meddle
    <3> QED
      BY <3>1 DEF WorkInv
  <2>2. CASE Parse \/ Program \/ RootExits \/ Filter \/ AskBirth \/ Report
    <3>1. pc' \notin {"delete", "remove", "done"}
      BY <2>2 DEF Parse, Program, RootExits, Filter, AskBirth, Advance, Report
    <3> QED
      BY <3>1 DEF WorkInv
  <2> QED
    BY <1>2, <2>1, <2>2 DEF SummaryStep
<1>3. CASE Emit
  <2>1. UNCHANGED <<config, seen, node, led, refused>> /\ pc' \in {"done", "delete", "select"}
    BY <1>3 DEF Emit, Goto, optionVars, reportVars, worldVars, ledVars
  <2>2. pc' = "done" => ~Asked \/ seen = {} \/ ~On("--nc-delete-dangerous")
    BY <1>3 DEF Emit, Goto, Asked
  <2>3. pc' = "delete" => Pending' = seen
    BY <1>3 DEF Emit, Goto, Pending
  <2> QED
    BY <2>1, <2>2, <2>3, WorkFrame DEF WorkInv
<1>4. CASE Select \/ Confirm
  <2>1. ~On("--nc-delete-dangerous") /\ UNCHANGED config
    BY <1>4 DEF Select, Confirm, Goto, optionVars, SparedInv, GrantInv
  <2> QED
    BY <2>1 DEF WorkInv, On
<1>5. CASE Look
  BY <1>5, WorkLook
<1>6. CASE Remove
  BY <1>6, WorkRemove
<1>7. CASE Refused
  BY <1>7, WorkRefused
<1>8. CASE Deleted
  <2>1. /\ UNCHANGED <<config, seen, node, undisturbed, led, refused>> /\ Pending = {}
        /\ pc = "delete" /\ pc' = "done"
    BY <1>8 DEF Deleted, Goto, Pending, optionVars, reportVars, worldVars, ledVars, deleteVars
  <2> QED
    BY <2>1, WorkFrame DEF WorkInv
<1> QED
  BY <1>1, <1>2, <1>3, <1>4, <1>5, <1>6, <1>7, <1>8 DEF CNext

(* Left alone, --nc-delete-dangerous removes every listed path but those   *)
(* whose own call is refused, and directories that hold something else or  *)
(* that a symbolic link brought out of order: it stops at no failure, and  *)
(* sorting by the number of components is enough for names that pass no    *)
(* link (output.rs:374).                                                   *)
THEOREM WorkerCleansUp == CSpec => []CleansUp
<1>1. CInit => WorkInv
  BY WorkInit
<1>2. SparedInv /\ SparedInv' /\ WorkInv /\ [CNext]_cleanupVars => WorkInv'
  BY WorkStep
<1>3. WorkInv => CleansUp
  BY DEF WorkInv, CleansUp, MayStay, Asked
<1> QED
  BY <1>1, <1>2, <1>3, SparedAlways, PTL DEF CSpec

(* No link is there, and no name was listed through one.                   *)
NoLinkInv ==
  /\ \A x \in Place : node[x].kind # "link"
  /\ \A p \in Path : ~ByLink(p)

LEMMA NoLinkStep ==
  ASSUME \A x \in Place : "link" \notin Kind[x],
         SparedInv, NoLinkInv, [CNext]_cleanupVars
  PROVE  NoLinkInv'
<1>1. node \in [Place -> Node] /\ led \in [Path -> Place \cup {None}]
  BY DEF SparedInv, TreeInv, WayInv
<1>2. Absent.kind # "link"
  BY DEF Absent
<1>3. ASSUME NEW x \in Place, NEW kinds, NEW births, Fill(x, kinds, births)
      PROVE  \A y \in Place : node'[y].kind # "link"
  <2>1. PICK k \in kinds \cap Kind[x], b \in births :
          \E t \in IF k = "link" THEN Target[x] ELSE {None} :
            node' = [y \in Place |-> IF y = x THEN [kind |-> k, birth |-> b, to |-> t]
                                    ELSE IF y \in Contents(x) THEN Absent ELSE node[y]]
    BY <1>3 DEF Fill
  <2>2. k # "link"
    BY <2>1
  <2> QED
    BY <1>2, <2>1, <2>2 DEF NoLinkInv
<1>4. ASSUME NEW xs, Clear(xs) PROVE \A y \in Place : node'[y].kind # "link"
  BY <1>2, <1>4 DEF Clear, NoLinkInv
<1>5. \A y \in Place : node'[y].kind # "link"
  <2>1. CASE UNCHANGED node
    BY <2>1 DEF NoLinkInv
  <2>2. CASE Program
    <3>1. PICK p \in Path :
            At(p) # None /\ (OpenCreate(p) \/ MakeNew(p) \/ MoveHere(p) \/ Exchange(p))
      BY <2>2 DEF Program
    <3>2. At(p) \in Place
      BY <1>1, <3>1, AtPlace
    <3> QED
      BY <1>3, <2>1, <3>1, <3>2 DEF OpenCreate, MakeNew, MoveHere, Exchange
  <2>3. CASE Outsiders
    BY <1>3, <1>4, <2>3 DEF Outsiders, Put, TakeAway
  <2>4. CASE Remove
    BY <1>4, <2>4 DEF Remove
  <2>5. CASE UNCHANGED cleanupVars
    BY <2>1, <2>5 DEF cleanupVars, summaryVars, worldVars
  <2>6. CASE Parse \/ RootExits \/ Filter \/ AskBirth \/ Report
    BY <2>1, <2>6 DEF Parse, RootExits, Filter, AskBirth, Report, worldVars
  <2>7. CASE Emit \/ Select \/ Confirm \/ Look \/ Refused \/ Deleted
    BY <2>1, <2>7 DEF Emit, Select, Confirm, Look, Refused, Deleted, Goto, worldVars
  <2> QED
    BY <2>2, <2>3, <2>4, <2>5, <2>6, <2>7 DEF CNext, SummaryStep
<1>6. ASSUME NEW q \in Path, At(q) # None PROVE Via[q] \in {None, Parent[At(q)]}
  <2>1. CASE Via[q] # None
    <3>1. Via[q] \in Place
      BY <2>1, PlaceAssumption DEF PlaceAssumption
    <3>2. Lead(Via[q]) = Via[q]
      BY <3>1 DEF Lead, Hop, NoLinkInv
    <3> QED
      BY <1>1, <1>6, <2>1, <3>2, AtPlace
  <2> QED
    BY <2>1
<1>7. \A p \in Path : ~ByLink(p)'
  <2>1. CASE UNCHANGED led
    BY <2>1 DEF NoLinkInv, ByLink
  <2>2. ASSUME NEW keep, Advance(keep), pc \in {"filter", "birth"}, next <= Len(events)
        PROVE  \A p \in Path : ~ByLink(p)'
    <3>1. PICK q : q = events[next].path
      OBVIOUS
    <3>2. UNCHANGED led \/ led' = [led EXCEPT ![q] = At(q)]
      BY <2>2, <3>1 DEF Advance, ledVars
    <3>3. \A p \in Path : led'[p] \in {led[p]} \/ (p = q /\ led'[p] = At(p))
      BY <1>1, <3>2
    <3> QED
      BY <1>6, <3>3 DEF NoLinkInv, ByLink
  <2>3. CASE Filter
    BY <2>1, <2>2, <2>3 DEF Filter, ledVars
  <2>4. CASE AskBirth
    <3>1. next <= Len(events)
      BY <2>4 DEF AskBirth, SparedInv, ListInv
    <3> QED
      BY <2>2, <2>4, <3>1 DEF AskBirth
  <2>5. CASE UNCHANGED cleanupVars
    BY <2>1, <2>5 DEF cleanupVars, summaryVars, ledVars
  <2>6. CASE Parse \/ Program \/ RootExits \/ Outsiders \/ Report
    BY <2>1, <2>6 DEF Parse, Program, RootExits, Outsiders, Report, ledVars
  <2>7. CASE Emit \/ Select \/ Confirm \/ Look \/ Remove \/ Refused \/ Deleted
    BY <2>1, <2>7 DEF Emit, Select, Confirm, Look, Remove, Refused, Deleted, Goto, ledVars
  <2> QED
    BY <2>3, <2>4, <2>5, <2>6, <2>7 DEF CNext, SummaryStep
<1> QED
  BY <1>5, <1>7 DEF NoLinkInv

(* Symbolic links are the only reason: where there can be none, a listed   *)
(* directory that is left always holds something (output.rs:375).          *)
THEOREM WithoutLinksDirsGo ==
  ASSUME \A x \in Place : "link" \notin Kind[x]
  PROVE  CSpec => []ReportedDirsGo
<1>1. CInit => NoLinkInv
  <2> SUFFICES ASSUME CInit PROVE NoLinkInv
    OBVIOUS
  <2>1. PICK old \in Old :
          /\ kept = DOMAIN old
          /\ \A x \in kept : node[x].kind = old[x] /\ node[x].birth = "before"
          /\ \A y \in Place \ kept : node[y] = Absent
    BY FirstNode
  <2>2. \A x \in kept : old[x] \in Kind[x]
    BY <2>1, PlaceAssumption DEF PlaceAssumption
  <2>3. \A x \in Place : node[x].kind # "link"
    BY <2>1, <2>2 DEF Absent
  <2>4. led = [p \in Path |-> None]
    BY DEF CInit, SInit
  <2> QED
    BY <2>3, <2>4 DEF NoLinkInv, ByLink
<1>2. SparedInv /\ NoLinkInv /\ [CNext]_cleanupVars => NoLinkInv'
  BY NoLinkStep
<1>3. SparedInv /\ NoLinkInv /\ CleansUp => ReportedDirsGo
  BY DEF SparedInv, ListInv, NoLinkInv, CleansUp, ReportedDirsGo
<1> QED
  BY <1>1, <1>2, <1>3, SparedAlways, WorkerCleansUp, PTL DEF CSpec

(* --nc-dry-run-delete keeps its word unless another flag asks for         *)
(* deletion as well (output.rs:193).                                       *)
THEOREM DryRunAloneDeletesNothing ==
  CSpec => [](~On("--nc-delete-dangerous") /\ ~On("--nc-delete-interactive") => removed = {})
<1>1. GrantInv => (~On("--nc-delete-dangerous") /\ ~On("--nc-delete-interactive") => removed = {})
  BY DEF GrantInv, Asked
<1> QED
  BY <1>1, GrantStands, PTL

-----------------------------------------------------------------------------
(* The deletion implements Removal.                                         *)

(* The abstract state.                                                      *)
There == {x \in Place : Present(x)}
Leads == [p \in Path |-> At(p)]

LEMMA ThereIsTree == TreeInv => Deletion!IsTree(There)
  BY PlaceAssumption
  DEF PlaceAssumption, TreeInv, There, Present, Absent, Deletion!IsTree

LEMMA LeadsType == TreeInv => Leads \in [Path -> Place \cup {None}]
<1> SUFFICES ASSUME TreeInv, NEW p \in Path PROVE At(p) \in Place \cup {None}
  BY DEF Leads
<1> QED
  BY AtPlace DEF TreeInv

LEMMA RemovalStart == CInit => Deletion!RemovalInit
<1> SUFFICES ASSUME CInit PROVE Deletion!RemovalInit
  OBVIOUS
<1>1. Granted = {} /\ removed = {}
  BY DEF CInit, SInit, Granted, On
<1>2. /\ There \in SUBSET Place /\ Deletion!IsTree(There)
      /\ Leads \in [Path -> Place \cup {None}]
  BY TreeInit, ThereIsTree, LeadsType DEF There
<1> QED
  BY <1>1, <1>2 DEF Deletion!RemovalInit, There, Leads

LEMMA RemovalStep ==
  ASSUME SparedInv, SparedInv', [CNext]_cleanupVars
  PROVE  [Deletion!RemovalNext]_<<There, Leads, Granted, removed>>
<1>1. Granted' \in SUBSET Path
  BY ShownAssumption DEF ShownAssumption, Granted, SparedInv, ListInv
<1>2. There' \in SUBSET Place /\ Deletion!IsTree(There)' /\ Leads' \in [Path -> Place \cup {None}]
  <2>1. TreeInv'
    BY DEF SparedInv
  <2>2. Deletion!IsTree(There)'
    BY <2>1, PlaceAssumption
    DEF PlaceAssumption, TreeInv, There, Present, Absent, Deletion!IsTree
  <2>3. (TreeInv => Leads \in [Path -> Place \cup {None}])'
    BY LeadsType, PTL
  <2> QED
    BY <2>1, <2>2, <2>3 DEF There
<1>3. ASSUME UNCHANGED node PROVE UNCHANGED <<There, Leads>>
  BY <1>3, SameWay DEF There, Leads, Present
<1>4. ASSUME UNCHANGED <<config, seen, chosen>> PROVE UNCHANGED Granted
  BY <1>4 DEF Granted, On
(* Before the worker starts nothing is gone.                                *)
<1>5. ASSUME UNCHANGED <<node, removed>>, pc \notin {"delete", "remove", "done"}
      PROVE  Deletion!RemovalNext
  <2>1. removed = {}
    BY <1>5 DEF SparedInv, GrantInv
  <2> QED
    BY <1>1, <1>3, <1>5, <2>1 DEF Deletion!RemovalNext, Deletion!Ask, There, Leads
<1>6. ASSUME UNCHANGED <<config, seen, chosen, removed>> PROVE Deletion!RemovalNext
  BY <1>2, <1>4, <1>6 DEF Deletion!RemovalNext, Deletion!Others, There, Leads
<1>7. CASE UNCHANGED cleanupVars
  BY <1>6, <1>7 DEF cleanupVars, summaryVars, optionVars, reportVars, deleteVars
<1>8. CASE (Program \/ Outsiders) /\ UNCHANGED deleteVars
  BY <1>6, <1>8 DEF Program, Outsiders, optionVars, reportVars, deleteVars
<1>9. CASE (Parse \/ RootExits \/ Filter \/ AskBirth \/ Report) /\ UNCHANGED deleteVars
  BY <1>5, <1>9 DEF Parse, RootExits, Filter, AskBirth, Report, worldVars, deleteVars
<1>10. CASE Emit \/ Select \/ Confirm
  BY <1>5, <1>10 DEF Emit, Select, Confirm, Goto, worldVars
<1>11. CASE Look \/ Refused \/ Deleted
  BY <1>6, <1>11 DEF Look, Refused, Deleted, Goto, optionVars, reportVars, deleteVars
<1>12. CASE Remove
  <2>1. UNCHANGED <<config, seen, chosen>>
    BY <1>12 DEF Remove, optionVars, reportVars
  <2>2. CASE UNCHANGED <<node, removed>>
    BY <1>6, <2>1, <2>2
  <2>3. ASSUME NEW x \in Place, current.path \in Granted, current.path \in Path,
               x = At(current.path), Present(x), ~HasChildren(x), Clear({x}),
               removed' = removed \cup {[path |-> current.path, place |-> x]}
        PROVE  Deletion!RemovalNext
    <3>1. x \in There /\ There' = There \ {x} /\ Leads[current.path] = x
      BY <2>3 DEF There, Leads, Present, Clear
    <3>2. \A y \in There : Parent[y] # x
      BY <2>3 DEF There, HasChildren
    <3>3. \A m \in Path : Leads'[m] \in {Leads[m], None}
      <4> SUFFICES ASSUME NEW m \in Path PROVE At(m)' \in {At(m), None}
        BY DEF Leads
      <4> QED
        BY <2>3, ClearedWay DEF SparedInv, TreeInv
    <3>4. Granted' = Granted
      BY <1>4, <2>1
    <3>5. Deletion!RemoveOne
      BY <1>2, <2>3, <3>1, <3>2, <3>3, <3>4 DEF Deletion!RemoveOne, There, Leads
    <3> QED
      BY <3>5 DEF Deletion!RemovalNext
  <2> QED
    BY <1>12, <2>2, <2>3, RemoveTakesOne
<1> QED
  BY <1>7, <1>8, <1>9, <1>10, <1>11, <1>12 DEF CNext, SummaryStep

(* Whatever the files, the names, the globs and the others do, the others  *)
(* turning names elsewhere included: each of nocruft's calls takes away    *)
(* what a name it was told of leads to at that moment, with nothing in it, *)
(* makes no name lead to another place, and once it has begun it is told   *)
(* nothing else (output.rs:378-406).                                       *)
THEOREM DeletionIsARemoval == CSpec => DeletionImplementsRemoval
<1>1. SparedInv /\ SparedInv' /\ [CNext]_cleanupVars
        => [Deletion!RemovalNext]_(Deletion!removalVars)
  BY RemovalStep DEF Deletion!removalVars, There, Leads
<1> QED
  BY <1>1, SparedInit, SparedStep, RemovalStart, PTL
  DEF CSpec, DeletionImplementsRemoval, Deletion!RemovalSpec
=============================================================================
