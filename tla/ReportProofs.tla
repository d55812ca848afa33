---------------------------- MODULE ReportProofs ----------------------------
(***************************************************************************)
(* For every filesystem, command line and sequence of events: a report     *)
(* nobody disturbs lists the paths of the events that pass, in every mode, *)
(* and the modes that print events print them in order, each at most once  *)
(* whoever disturbs them, and left alone leave none out that passes.       *)
(***************************************************************************)
EXTENDS CleanupProofs, CliProofs

PrintedPaths == {events[printed[i]].path : i \in 1..Len(printed)}
Passing(n) == {j \in 1..n : Passes(events[j])}

(* What has been printed so far, whoever disturbs the report.              *)
PrintInv ==
  /\ printed \in Seq(Nat) /\ next <= Len(events) + 1
  /\ pc \in {"parse", "run", "failed"} => next = 1 /\ printed = <<>>
  /\ pc = "listed" => next = Len(events) + 1
  /\ \A i \in 1..Len(printed) : printed[i] \in 1..next - 1
  /\ \A i, j \in 1..Len(printed) : i < j => printed[i] < printed[j]
  /\ On("--nc-json") /\ ~On("--nc-no-dedupe") => seen = PrintedPaths

Reporting == pc \in {"filter", "birth", "listed"} /\ undisturbed

(* What has been listed so far, of the events the loop has passed.         *)
ShowInv ==
  Reporting =>
    /\ Listed = {events[j].path : j \in Passing(next - 1)}
    /\ On("--nc-no-dedupe") =>
         \A k \in Passing(next - 1) : \E i \in 1..Len(printed) : printed[i] = k
    /\ pc = "birth" => Verdict(events[next]) = "ask"

ReportInv == SparedInv /\ PrintInv /\ ShowInv

(* The verdict of the two looks is the documented one when nothing changes *)
(* between them.                                                           *)
LEMMA VerdictPasses ==
  ASSUME node \in [Place -> Node], NEW ev \in Event
  PROVE  /\ Verdict(ev) \in {"keep", "drop", "ask"}
         /\ Verdict(ev) = "keep" => Passes(ev)
         /\ Verdict(ev) = "drop" => ~Passes(ev)
         /\ Verdict(ev) = "ask" =>
              (Passes(ev) <=> is_genuine_creation(ev.path) /\ ~Noise(ev.path))
<1> DEFINE p == ev.path
<1>1. CASE Missing(ev)
  BY <1>1 DEF Verdict, Missing, Passes
<1>2. CASE ~Missing(ev) /\ Forced(p)
  BY <1>2 DEF Verdict, Missing, Passes, Forced
<1>3. CASE ~Missing(ev) /\ ~Forced(p) /\ Barred(p)
  BY <1>3 DEF Verdict, Forced, Barred, Passes
<1>4. CASE ~Missing(ev) /\ ~Forced(p) /\ ~Barred(p)
  <2>1. Passes(ev) <=> ~Noise(p) /\ ~(AsksBirth(ev) /\ file_btime(p) = "before")
    BY <1>4 DEF Missing, Forced, Barred, Passes, Noise, AsksBirth
  <2>2. CASE ~AsksBirth(ev)
    BY <1>4, <2>1, <2>2 DEF Verdict
  <2>3. CASE AsksBirth(ev)
    <3>1. Verdict(ev) = "ask"
      BY <1>4, <2>3 DEF Verdict
    <3>2. p \in Path
      BY <1>4 DEF Missing, Event
    <3>3. file_btime(p) \in {"before", "after", None} /\ None # "before"
      <4>1. exists_now(p) => At(p) \in Place
        BY <3>2, AtPlace DEF exists_now
      <4> QED
        BY <4>1, PlaceAssumption DEF PlaceAssumption, file_btime, Node, Absent
    <3> QED
      BY <2>1, <2>3, <3>1, <3>3 DEF is_genuine_creation
  <2> QED
    BY <2>2, <2>3
<1> QED
  BY <1>1, <1>2, <1>3, <1>4

(* What passes depends on the files and the command line only.             *)
LEMMA PassesSame ==
  ASSUME UNCHANGED <<config, node>>
  PROVE  \A ev : Passes(ev)' <=> Passes(ev)
  BY DEF Passes, Text, On, exists_now, file_btime, At, Lead, Hop, Present

LEMMA ReportInit == CInit => ReportInv
<1> SUFFICES ASSUME CInit PROVE ReportInv
  OBVIOUS
<1>1. pc = "parse" /\ events = <<>> /\ next = 1 /\ seen = {} /\ printed = <<>>
  BY DEF CInit, SInit
<1>2. PrintInv
  BY <1>1 DEF PrintInv, PrintedPaths
<1>3. ShowInv
  BY <1>1 DEF ShowInv, Reporting
<1> QED
  BY <1>2, <1>3, SparedInit DEF ReportInv

(* Whatever leaves the printed events alone, and does not go back.         *)
LEMMA PrintAside ==
  ASSUME PrintInv, UNCHANGED <<config, reportVars>>,
         pc' \in {"parse", "run", "failed"} => pc' = pc,
         pc' = "listed" => next = Len(events) + 1
  PROVE  PrintInv'
<1>1. UNCHANGED <<config, events, next, seen, printed>>
  BY DEF reportVars
<1> QED
  BY <1>1 DEF PrintInv, PrintedPaths, On

LEMMA ShowAside ==
  ASSUME ShowInv, UNCHANGED <<config, node, undisturbed, reportVars>>,
         Reporting' => Reporting, pc' = "birth" => pc = "birth"
  PROVE  ShowInv'
<1>1. UNCHANGED <<config, node, events, next, seen, printed>>
  BY DEF reportVars
<1>2. \A ev : Passes(ev)' <=> Passes(ev)
  BY <1>1, PassesSame
<1>3. \A n : Passing(n)' = Passing(n)
  BY <1>1, <1>2 DEF Passing
<1>4. Listed' = Listed
  BY <1>1 DEF Listed, On
<1>5. pc' = "birth" => Verdict(events[next])' = Verdict(events[next])
  BY <1>1 DEF Verdict, Missing, Forced, Barred, AsksBirth, Noise, Text, On, exists_now,
              At, Lead, Hop, Present
<1> QED
  BY <1>1, <1>3, <1>4, <1>5 DEF ShowInv, On

(* What a mode does with the event the loop is at.                         *)
LEMMA AdvancePrints ==
  ASSUME ReportInv, pc \in {"filter", "birth"}, next <= Len(events), NEW keep \in BOOLEAN,
         Advance(keep), UNCHANGED <<config, events>>
  PROVE  PrintInv'
<1> DEFINE p == events[next].path
           nodedupe == On("--nc-no-dedupe")
           json == On("--nc-json")
<1>1. next \in 1..Len(events) /\ next' = next + 1 /\ pc' = "filter"
  BY DEF Advance, ReportInv, SparedInv, ListInv
<1>2. On("--nc-no-dedupe")' = nodedupe /\ On("--nc-json")' = json
  BY DEF On
<1> USE DEF ReportInv
<1>3. CASE printed' = printed
  <2>1. json /\ ~nodedupe => seen' = seen
    <3>1. CASE ~keep
      BY <3>1 DEF Advance
    <3>2. CASE keep /\ json /\ ~nodedupe
      <4>1. seen' = seen \cup {p} /\ printed' = IF p \in seen THEN printed ELSE Append(printed, next)
        BY <3>2 DEF Advance, Keep
      <4>2. Append(printed, next) # printed
        BY <1>1 DEF PrintInv
      <4> QED
        BY <1>3, <4>1, <4>2
    <3> QED
      BY <3>1, <3>2
  <2>2. PrintedPaths' = PrintedPaths
    BY <1>3 DEF PrintedPaths
  <2>3. \A i \in 1..Len(printed) : printed[i] \in 1..next' - 1
    BY <1>1 DEF PrintInv
  <2> QED
    BY <1>1, <1>2, <1>3, <2>1, <2>2, <2>3 DEF PrintInv
<1>4. CASE printed' # printed
  <2>1. /\ printed' = Append(printed, next)
        /\ nodedupe \/ (json /\ p \notin seen /\ seen' = seen \cup {p})
    BY <1>4 DEF Advance, Keep
  <2>2. /\ printed' \in Seq(Nat) /\ Len(printed') = Len(printed) + 1 /\ Len(printed) \in Nat
        /\ printed'[Len(printed) + 1] = next
        /\ \A i \in 1..Len(printed) : printed'[i] = printed[i]
    BY <1>1, <2>1 DEF PrintInv
  <2>3. ASSUME NEW i \in 1..Len(printed') PROVE printed'[i] \in 1..next' - 1
    <3>1. CASE i = Len(printed) + 1
      BY <1>1, <2>2, <3>1
    <3>2. CASE i \in 1..Len(printed)
      <4>1. printed'[i] = printed[i] /\ printed[i] \in 1..next - 1
        BY <2>2, <3>2 DEF PrintInv
      <4> QED
        BY <1>1, <4>1
    <3> QED
      BY <2>2, <3>1, <3>2
  <2>5. ASSUME NEW i \in 1..Len(printed'), NEW j \in 1..Len(printed'), i < j
        PROVE  printed'[i] < printed'[j]
    <3>1. i \in 1..Len(printed)
      BY <2>2, <2>5
    <3>2. CASE j \in 1..Len(printed)
      BY <2>2, <2>5, <3>1, <3>2 DEF PrintInv
    <3>3. CASE j = Len(printed) + 1
      <4>1. printed'[j] = next /\ printed'[i] = printed[i] /\ events' = events
        BY <2>2, <3>1, <3>3
      <4>2. printed[i] \in 1..next - 1
        BY <3>1 DEF PrintInv
      <4> QED
        BY <1>1, <3>1, <4>1, <4>2
    <3> QED
      BY <2>2, <3>2, <3>3
  <2>6. PrintedPaths' = PrintedPaths \cup {p}
    <3> HIDE DEF ReportInv
    <3>1. ASSUME NEW i \in 1..Len(printed')
          PROVE  events[printed'[i]].path \in PrintedPaths \cup {p}
      <4>1. CASE i \in 1..Len(printed)
        BY <2>2, <4>1 DEF PrintedPaths
      <4>2. CASE i = Len(printed) + 1
        BY <2>2, <4>2
      <4> QED
        BY <2>2, <4>1, <4>2
    <3>2. ASSUME NEW i \in 1..Len(printed)
          PROVE  events[printed[i]].path \in PrintedPaths'
      <4>1. i \in 1..Len(printed') /\ printed'[i] = printed[i]
        BY <2>2
      <4> QED
        BY <4>1 DEF PrintedPaths
    <3>3. p \in PrintedPaths'
      <4>1. Len(printed) + 1 \in 1..Len(printed')
        BY <2>2
      <4> QED
        BY <2>2, <4>1 DEF PrintedPaths
    <3> QED
      BY <3>1, <3>2, <3>3 DEF PrintedPaths
  <2>7. json /\ ~nodedupe => seen' = PrintedPaths'
    BY <2>1, <2>6 DEF PrintInv
  <2> QED
    BY <1>1, <1>2, <2>2, <2>3, <2>5, <2>7 DEF PrintInv
<1> QED
  BY <1>3, <1>4

(* Advancing with the right verdict lists one more event that passes, or   *)
(* passes over one that does not.                                          *)
LEMMA AdvanceShows ==
  ASSUME ReportInv, pc \in {"filter", "birth"}, next <= Len(events), NEW keep \in BOOLEAN,
         Advance(keep), UNCHANGED <<config, events, node, undisturbed>>,
         undisturbed => (keep <=> Passes(events[next]))
  PROVE  ShowInv'
<1> SUFFICES ASSUME undisturbed PROVE ShowInv'
  BY DEF ShowInv, Reporting
<1> DEFINE p == events[next].path
           nodedupe == On("--nc-no-dedupe")
           json == On("--nc-json")
<1> USE DEF ReportInv
<1>1. next \in 1..Len(events) /\ next' = next + 1 /\ pc' = "filter" /\ Reporting
      /\ (keep <=> Passes(events[next]))
  BY DEF Advance, SparedInv, ListInv, Reporting
<1>2. On("--nc-no-dedupe")' = nodedupe /\ On("--nc-json")' = json
  BY DEF On
<1>3. \A ev : Passes(ev)' <=> Passes(ev)
  BY PassesSame
<1>4. Passing(next - 1)' = IF keep THEN Passing(next - 1) \cup {next} ELSE Passing(next - 1)
  BY <1>1, <1>3 DEF Passing
<1>5. Listed' = IF keep THEN Listed \cup {p} ELSE Listed
  <2>1. CASE ~keep
    BY <1>2, <2>1 DEF Advance, Listed
  <2>2. CASE keep /\ ~json /\ ~nodedupe
    BY <1>2, <2>2 DEF Advance, Keep, Listed
  <2>3. CASE keep /\ (json \/ nodedupe)
    <3>1. Listed = PrintedPaths /\ Listed' = PrintedPaths'
      BY <1>2, <2>3 DEF Listed, PrintedPaths
    <3>2. CASE printed' = Append(printed, next)
      <4>1. /\ Len(printed') = Len(printed) + 1 /\ Len(printed) \in Nat
            /\ printed'[Len(printed) + 1] = next
            /\ \A i \in 1..Len(printed) : printed'[i] = printed[i]
        BY <1>1, <3>2 DEF PrintInv
      <4> QED
        BY <2>3, <3>1, <4>1 DEF PrintedPaths
    <3>3. CASE printed' # Append(printed, next)
      <4>1. json /\ ~nodedupe /\ p \in seen /\ printed' = printed
        BY <2>3, <3>3 DEF Advance, Keep
      <4>2. p \in PrintedPaths
        BY <4>1 DEF PrintInv
      <4>3. PrintedPaths' = PrintedPaths
        BY <4>1 DEF PrintedPaths
      <4> QED
        BY <2>3, <3>1, <4>2, <4>3
    <3> QED
      BY <3>2, <3>3
  <2> QED
    BY <2>1, <2>2, <2>3
<1>6. Listed = {events[j].path : j \in Passing(next - 1)}
  BY <1>1 DEF ShowInv
<1>7. Listed' = {events[j].path : j \in Passing(next - 1)'}
  BY <1>4, <1>5, <1>6
<1>8. ASSUME nodedupe, NEW k \in Passing(next - 1)'
      PROVE  \E i \in 1..Len(printed') : printed'[i] = k
  <2>1. CASE keep
    <3>1. printed' = Append(printed, next)
      BY <1>8, <2>1 DEF Advance, Keep
    <3>2. /\ Len(printed') = Len(printed) + 1 /\ Len(printed) \in Nat
          /\ printed'[Len(printed) + 1] = next
          /\ \A i \in 1..Len(printed) : printed'[i] = printed[i]
      BY <1>1, <3>1 DEF PrintInv
    <3>3. CASE k = next
      BY <3>2, <3>3
    <3>4. CASE k # next
      BY <1>1, <1>4, <1>8, <2>1, <3>2, <3>4 DEF ShowInv
    <3> QED
      BY <3>3, <3>4
  <2>2. CASE ~keep
    <3>1. printed' = printed
      BY <2>2 DEF Advance
    <3> QED
      BY <1>1, <1>4, <1>8, <2>2, <3>1 DEF ShowInv
  <2> QED
    BY <2>1, <2>2
<1> QED
  BY <1>1, <1>2, <1>7, <1>8 DEF ShowInv

LEMMA FilterShows == ReportInv /\ Filter => PrintInv' /\ ShowInv'
<1> SUFFICES ASSUME ReportInv, Filter PROVE PrintInv' /\ ShowInv'
  OBVIOUS
<1> DEFINE ev == events[next]
<1>1. /\ pc = "filter" /\ next <= Len(events)
      /\ UNCHANGED <<config, events, node, undisturbed>>
  BY DEF Filter, optionVars, worldVars
<1>2. ev \in Event /\ node \in [Place -> Node]
  BY <1>1 DEF ReportInv, SparedInv, ListInv, TreeInv
<1>3. CASE Verdict(ev) = "ask"
  <2>1. UNCHANGED <<next, seen, printed>> /\ pc' = "birth"
    BY <1>3 DEF Filter
  <2>2. PrintInv'
    BY <1>1, <2>1, PrintAside DEF ReportInv, reportVars
  <2>3. \A n : Passing(n)' = Passing(n)
    BY <1>1, PassesSame DEF Passing
  <2>4. Listed' = Listed
    BY <1>1, <2>1 DEF Listed, On
  <2>5. Verdict(events[next])' = "ask"
    BY <1>1, <1>3, <2>1 DEF Verdict, Missing, Forced, Barred, AsksBirth, Noise, Text, On,
                            exists_now, At, Lead, Hop, Present
  <2> QED
    BY <1>1, <2>1, <2>2, <2>3, <2>4, <2>5 DEF ReportInv, ShowInv, Reporting, On
<1>4. CASE Verdict(ev) # "ask"
  <2>1. Advance(Verdict(ev) = "keep")
    BY <1>4 DEF Filter
  <2>2. (Verdict(ev) = "keep") <=> Passes(ev)
    BY <1>2, <1>4, VerdictPasses
  <2> QED
    BY <1>1, <2>1, <2>2, AdvancePrints, AdvanceShows
<1> QED
  BY <1>3, <1>4

LEMMA AskBirthShows == ReportInv /\ AskBirth => PrintInv' /\ ShowInv'
<1> SUFFICES ASSUME ReportInv, AskBirth PROVE PrintInv' /\ ShowInv'
  OBVIOUS
<1> DEFINE ev == events[next]
           keep == is_genuine_creation(ev.path) /\ ~Noise(ev.path)
<1>1. /\ pc = "birth" /\ next <= Len(events) /\ Advance(keep)
      /\ UNCHANGED <<config, events, node, undisturbed>>
  BY DEF AskBirth, optionVars, worldVars, ReportInv, SparedInv, ListInv
<1>2. ev \in Event /\ node \in [Place -> Node]
  BY <1>1 DEF ReportInv, SparedInv, ListInv, TreeInv
<1>3. undisturbed => Verdict(ev) = "ask"
  BY <1>1 DEF ReportInv, ShowInv, Reporting
<1>4. undisturbed => (keep <=> Passes(ev))
  BY <1>2, <1>3, VerdictPasses
<1>5. keep \in BOOLEAN
  OBVIOUS
<1> HIDE DEF keep
<1> QED
  BY <1>1, <1>4, <1>5, AdvancePrints, AdvanceShows

(* The steps of nocruft that end the list, or come after it.               *)
LEMMA AfterList ==
  ASSUME ReportInv, UNCHANGED <<config, reportVars>>,
         pc' \in {"select", "confirm", "delete", "remove", "done"}
  PROVE  PrintInv' /\ ShowInv'
<1>1. PrintInv'
  BY PrintAside DEF ReportInv
<1> QED
  BY <1>1 DEF ShowInv, Reporting

LEMMA ReportStep == ReportInv /\ [CNext]_cleanupVars => PrintInv' /\ ShowInv'
<1> SUFFICES ASSUME ReportInv, [CNext]_cleanupVars PROVE PrintInv' /\ ShowInv'
  OBVIOUS
<1>1. CASE UNCHANGED cleanupVars
  <2>1. UNCHANGED <<pc, config, node, undisturbed, reportVars>>
    BY <1>1 DEF cleanupVars, summaryVars, optionVars, worldVars
  <2>2. Reporting' = Reporting
    BY <2>1 DEF Reporting
  <2>3. pc = "listed" => next = Len(events) + 1
    BY DEF ReportInv, PrintInv
  <2> QED
    BY <2>1, <2>2, <2>3, PrintAside, ShowAside DEF ReportInv
<1>2. CASE SummaryStep /\ UNCHANGED deleteVars
  <2>1. CASE Parse
    <3>1. /\ pc' \in {"run", "failed"} /\ UNCHANGED reportVars
          /\ seen = {} /\ printed = <<>> /\ next = 1 /\ next <= Len(events) + 1
      BY <2>1 DEF Parse, ReportInv, SparedInv, ListInv, PrintInv
    <3>2. seen' = {} /\ printed' = <<>> /\ next' = 1 /\ next' <= Len(events') + 1
      BY <3>1 DEF reportVars
    <3>3. PrintInv'
      BY <3>1, <3>2 DEF PrintInv, PrintedPaths
    <3> QED
      BY <3>1, <3>3 DEF ShowInv, Reporting
  <2>2. CASE Program
    <3>1. pc = "run" /\ pc' = "run" /\ UNCHANGED <<next, seen, printed>>
      BY <2>2 DEF Program
    <3>2. seen' = {} /\ printed' = <<>> /\ next' = 1
      BY <3>1 DEF ReportInv, SparedInv, ListInv, PrintInv
    <3>3. events' \in Seq(Event)
      BY <1>2, <2>2, ProgramStep DEF ReportInv, SparedInv, ListInv
    <3>4. PrintInv'
      BY <3>1, <3>2, <3>3 DEF PrintInv, PrintedPaths
    <3> QED
      BY <3>1, <3>4 DEF ShowInv, Reporting
  <2>3. CASE RootExits
    <3>1. pc = "run" /\ pc' = "filter" /\ UNCHANGED <<config, reportVars>>
      BY <2>3 DEF RootExits, optionVars
    <3>2. seen' = {} /\ printed' = <<>> /\ next' = 1
      BY <3>1 DEF ReportInv, SparedInv, ListInv, PrintInv, reportVars
    <3>3. PrintInv'
      BY <3>1, PrintAside DEF ReportInv
    <3>4. Passing(next - 1)' = {} /\ Listed' = {}
      BY <3>2 DEF Passing, Listed
    <3> QED
      BY <3>1, <3>3, <3>4 DEF ShowInv
  <2>4. CASE Filter
    BY <2>4, FilterShows
  <2>5. CASE AskBirth
    BY <2>5, AskBirthShows
  <2>6. CASE Report
    <3>1. /\ pc = "filter" /\ pc' = "listed" /\ next > Len(events)
          /\ UNCHANGED <<config, node, undisturbed, reportVars>>
      BY <2>6 DEF Report, optionVars, worldVars
    <3>2. next = Len(events) + 1
      BY <3>1 DEF ReportInv, PrintInv, SparedInv, ListInv
    <3>3. Reporting' => Reporting
      BY <3>1 DEF Reporting
    <3> QED
      BY <3>1, <3>2, <3>3, PrintAside, ShowAside DEF ReportInv
  <2>7. CASE Outsiders
    <3>1. UNCHANGED <<pc, config, reportVars>> /\ (undisturbed' => pc = "run")
      BY <2>7 DEF Outsiders, Meddle, optionVars
    <3>2. PrintInv'
      BY <3>1, PrintAside DEF ReportInv, PrintInv
    <3> QED
      BY <3>1, <3>2 DEF ShowInv, Reporting
  <2> QED
    BY <1>2, <2>1, <2>2, <2>3, <2>4, <2>5, <2>6, <2>7 DEF SummaryStep
<1>3. CASE Emit
  BY <1>3, AfterList DEF Emit, Goto, optionVars
<1>4. CASE Select
  BY <1>4, AfterList DEF Select, Goto, optionVars
<1>5. CASE Confirm
  BY <1>5, AfterList DEF Confirm, Goto, optionVars
<1>6. CASE Look
  BY <1>6, AfterList DEF Look, Goto, optionVars
<1>7. CASE Remove
  BY <1>7, AfterList DEF Remove, optionVars
<1>8. CASE Refused
  BY <1>8, AfterList DEF Refused, optionVars
<1>9. CASE Deleted
  BY <1>9, AfterList DEF Deleted, Goto, optionVars
<1> QED
  BY <1>1, <1>2, <1>3, <1>4, <1>5, <1>6, <1>7, <1>8, <1>9 DEF CNext

LEMMA ReportInvariant == CSpec => []ReportInv
<1>1. CInit => ReportInv
  BY ReportInit
<1>2. ReportInv /\ [CNext]_cleanupVars => ReportInv'
  BY ReportStep, SparedStep DEF ReportInv
<1> QED
  BY <1>1, <1>2, PTL DEF CSpec

(* In every mode, when nobody changes the files during the report, exactly *)
(* the paths of the events that pass are listed; the two looks at the      *)
(* filesystem and the order of the filters add and lose none               *)
(* (output.rs:110).                                                        *)
THEOREM ExactlyWhatIsKeptIsListed == CSpec => []ListsWhatIsKept
<1>1. ReportInv => ListsWhatIsKept
  <2> SUFFICES ASSUME ReportInv, pc = "listed", undisturbed
               PROVE  Listed = {events[i].path : i \in {j \in 1..Len(events) : Passes(events[j])}}
    BY DEF ListsWhatIsKept
  <2>1. next - 1 = Len(events)
    BY DEF ReportInv, PrintInv, SparedInv, ListInv
  <2> QED
    BY <2>1 DEF ReportInv, ShowInv, Reporting, Passing
<1> QED
  BY <1>1, ReportInvariant, PTL

(* Printed events come in arrival order and each at most once, whoever     *)
(* disturbs the report; left alone it leaves out no path of an event that  *)
(* passes, and no such event with --nc-no-dedupe (output.rs:254,           *)
(* output.rs:283).                                                         *)
THEOREM EventsArePrintedInOrder == CSpec => []PrintsInOrder
<1>1. ReportInv => PrintsInOrder
  <2> SUFFICES ASSUME ReportInv PROVE PrintsInOrder
    OBVIOUS
  <2>1. ASSUME pc = "listed", undisturbed, On("--nc-json") \/ On("--nc-no-dedupe"),
               NEW k \in 1..Len(events), Passes(events[k])
        PROVE  \E i \in 1..Len(printed) :
                 IF On("--nc-no-dedupe") THEN printed[i] = k
                 ELSE events[printed[i]].path = events[k].path
    <3>1. next - 1 = Len(events)
      BY <2>1 DEF ReportInv, PrintInv, SparedInv, ListInv
    <3>2. k \in Passing(next - 1)
      BY <2>1, <3>1 DEF Passing
    <3>3. CASE On("--nc-no-dedupe")
      BY <2>1, <3>2, <3>3 DEF ReportInv, ShowInv, Reporting
    <3>4. CASE ~On("--nc-no-dedupe")
      <4>1. events[k].path \in Listed
        BY <2>1, <3>2 DEF ReportInv, ShowInv, Reporting
      <4> QED
        BY <2>1, <3>4, <4>1 DEF Listed
    <3> QED
      BY <3>3, <3>4
  <2> QED
    BY <2>1 DEF PrintsInOrder, ReportInv, PrintInv
<1> QED
  BY <1>1, ReportInvariant, PTL

-----------------------------------------------------------------------------
(* Types, and the command line.                                            *)

(* Of the types, those that the invariants above do not hold already       *)
RestTypeOK ==
  /\ pc \in {"parse", "run", "filter", "birth", "listed", "select", "confirm", "delete",
             "remove", "done", "failed"}
  /\ argv \in Seq(Token) /\ config.flags \subseteq SWITCHES
  /\ others \in 0..MaxOther /\ undisturbed \in BOOLEAN
  /\ targets \subseteq Path /\ refused \subseteq Path
  /\ current = None \/ current \in [path : Path, rmdir : BOOLEAN]
  /\ (pc = "remove") = (current # None)

LEMMA RestFrame ==
  ASSUME RestTypeOK, UNCHANGED <<argv, config, refused, targets, current>>,
         others' \in 0..MaxOther, undisturbed' \in BOOLEAN,
         pc' = pc \/ (pc # "remove" /\ pc' \in {"filter", "birth", "listed", "select", "confirm",
                                                "delete", "done"})
  PROVE  RestTypeOK'
BY DEF RestTypeOK

LEMMA MeddleTypes ==
  ASSUME RestTypeOK, Meddle
  PROVE  others' \in 0..MaxOther /\ undisturbed' \in BOOLEAN
BY PlaceAssumption DEF Meddle, RestTypeOK, PlaceAssumption

LEMMA RestInit == CInit => RestTypeOK
  BY PlaceAssumption, TokenAssumption
  DEF CInit, SInit, RestTypeOK, PlaceAssumption, TokenAssumption

LEMMA RestStep == SparedInv /\ RestTypeOK /\ [CNext]_cleanupVars => RestTypeOK'
<1> SUFFICES ASSUME SparedInv, RestTypeOK, [CNext]_cleanupVars PROVE RestTypeOK'
  OBVIOUS
<1>0. /\ others \in 0..MaxOther /\ undisturbed \in BOOLEAN /\ seen \subseteq Path
      /\ chosen \subseteq seen
  BY DEF RestTypeOK, SparedInv, ListInv
<1>1. CASE UNCHANGED cleanupVars
  BY <1>0, <1>1, RestFrame
  DEF cleanupVars, summaryVars, optionVars, worldVars, deleteVars
<1>2. CASE SummaryStep /\ UNCHANGED deleteVars
  <2>1. CASE Parse
    <3>1. argv' \in Seq(Token) /\ config'.flags \subseteq SWITCHES /\ pc' \in {"run", "failed"}
      BY <2>1, ParseSwitches DEF Parse, RestTypeOK
    <3>2. UNCHANGED <<others, undisturbed, refused, targets, current>> /\ pc = "parse"
      BY <1>2, <2>1 DEF Parse, worldVars, deleteVars
    <3> QED
      BY <3>1, <3>2 DEF RestTypeOK
  <2>2. CASE Program
    BY <1>0, <1>2, <2>2, RestFrame DEF Program, optionVars, deleteVars
  <2>3. CASE RootExits \/ Report
    BY <1>0, <1>2, <2>3, RestFrame DEF RootExits, Report, optionVars, worldVars, deleteVars
  <2>4. CASE Filter \/ AskBirth
    BY <1>0, <1>2, <2>4, RestFrame
    DEF Filter, AskBirth, Advance, optionVars, worldVars, deleteVars
  <2>5. CASE Outsiders
    BY <1>2, <2>5, MeddleTypes, RestFrame DEF Outsiders, optionVars, deleteVars
  <2> QED
    BY <1>2, <2>1, <2>2, <2>3, <2>4, <2>5 DEF SummaryStep
<1>3. CASE Emit
  <2>1. UNCHANGED <<argv, config, others, undisturbed, refused, current>> /\ pc = "listed"
        /\ pc' \in {"done", "delete", "select"} /\ targets' \in {targets, seen}
    BY <1>3 DEF Emit, Goto, optionVars, worldVars
  <2> QED
    BY <1>0, <2>1 DEF RestTypeOK
<1>4. CASE Select
  BY <1>0, <1>4, RestFrame DEF Select, Goto, optionVars, worldVars
<1>5. CASE Confirm
  <2>1. UNCHANGED <<argv, config, others, undisturbed, refused, current>> /\ pc = "confirm"
        /\ pc' \in {"done", "delete"} /\ targets' \in {targets, {Shown[p] : p \in chosen}}
    BY <1>5 DEF Confirm, Goto, optionVars, worldVars
  <2>2. {Shown[p] : p \in chosen} \subseteq Path
    BY <1>0, ShownAssumption DEF ShownAssumption
  <2> QED
    BY <2>1, <2>2 DEF RestTypeOK
<1>6. CASE Look
  <2>1. PICK p \in First :
          /\ targets' = targets \ {p}
          /\ IF exists_now(p)
             THEN /\ current' = [path |-> p, rmdir |-> node[At(p)].kind = "dir"]
                  /\ Goto("remove")
             ELSE Goto("delete") /\ UNCHANGED current
    BY <1>6 DEF Look
  <2>2. UNCHANGED <<argv, config, others, undisturbed, refused>> /\ pc = "delete"
    BY <1>6, <2>1 DEF Look, Goto, optionVars, worldVars
  <2>3. p \in Path
    BY DEF First, RestTypeOK
  <2>4. [path |-> p, rmdir |-> node[At(p)].kind = "dir"] \in [path : Path, rmdir : BOOLEAN]
    BY <2>3
  <2>5. /\ current' = None \/ current' \in [path : Path, rmdir : BOOLEAN]
        /\ pc' \in {"remove", "delete"}
        /\ (pc' = "remove") = (current' # None)
    BY <2>1, <2>2, <2>4, ShownAssumption DEF Goto, RestTypeOK, ShownAssumption
  <2> QED
    BY <2>1, <2>2, <2>5 DEF RestTypeOK
<1>7. CASE Remove \/ Refused
  <2>1. UNCHANGED <<argv, config, targets>> /\ pc' = "delete" /\ current' = None
    BY <1>7 DEF Remove, Refused, optionVars
  <2>2. refused' \subseteq Path
    <3>1. CASE Remove
      BY <3>1 DEF Remove, RestTypeOK
    <3>2. CASE Refused
      <4>1. current.path \in Path
        BY <3>2 DEF Refused, RestTypeOK
      <4> QED
        BY <3>2, <4>1 DEF Refused, RestTypeOK
    <3> QED
      BY <1>7, <3>1, <3>2
  <2>3. others' \in 0..MaxOther /\ undisturbed' \in BOOLEAN
    BY <1>0, <1>7 DEF Remove, Refused, worldVars
  <2> QED
    BY <2>1, <2>2, <2>3 DEF RestTypeOK
<1>8. CASE Deleted
  BY <1>0, <1>8, RestFrame DEF Deleted, Goto, optionVars, worldVars, deleteVars
<1> QED
  BY <1>1, <1>2, <1>3, <1>4, <1>5, <1>6, <1>7, <1>8 DEF CNext

LEMMA TypeInvariant == CSpec => [](ReportInv /\ RestTypeOK)
<1>1. CInit => ReportInv /\ RestTypeOK
  BY ReportInit, RestInit
<1>2. (ReportInv /\ RestTypeOK) /\ [CNext]_cleanupVars => (ReportInv /\ RestTypeOK)'
  BY ReportStep, SparedStep, RestStep DEF ReportInv
<1> QED
  BY <1>1, <1>2, PTL DEF CSpec

(* The summary and the deletion keep values of their types; while the      *)
(* worker is between its two calls, and only then, it holds a path         *)
(* (output.rs:372).                                                        *)
THEOREM CleanupTypes == CSpec => []CleanupTypeOK
<1>1. ReportInv /\ RestTypeOK => CleanupTypeOK
  <2> SUFFICES ASSUME ReportInv, RestTypeOK PROVE CleanupTypeOK
    OBVIOUS
  <2>1. /\ node \in [Place -> Node] /\ kept \subseteq Place
        /\ led \in [Path -> Place \cup {None}] /\ redirected \subseteq seen
        /\ removed \subseteq [path : Path, place : Place]
    BY DEF ReportInv, SparedInv, TreeInv, KeptInv, WayInv
  <2>2. events \in Seq(Event) /\ next \in 1..Len(events) + 1 /\ seen \subseteq Path
        /\ chosen \subseteq seen
    BY DEF ReportInv, SparedInv, ListInv, PrintInv
  <2>3. printed \in Seq(1..Len(events))
    <3>1. printed \in Seq(Nat) /\ \A i \in 1..Len(printed) : printed[i] \in 1..next - 1
      BY DEF ReportInv, PrintInv
    <3>2. \A i \in 1..Len(printed) : printed[i] \in 1..Len(events)
      BY <2>2, <3>1
    <3> QED
      BY <3>1, <3>2
  <2> QED
    BY <2>1, <2>2, <2>3 DEF RestTypeOK, CleanupTypeOK
<1> QED
  BY <1>1, TypeInvariant, PTL

LEMMA LineIsWords == CSpec => [](argv \in Seq(Token))
<1>1. RestTypeOK => argv \in Seq(Token)
  BY DEF RestTypeOK
<1> QED
  BY <1>1, TypeInvariant, PTL

(* Whatever the words of an accepted command line, the child gets those    *)
(* that are not nocruft's own, their values or the first separator, in     *)
(* order (cli.rs:138).                                                     *)
THEOREM ChildGetsTheRestOfIt == CSpec => []ChildGetsTheRest
<1>1. argv \in Seq(Token) => ChildGetsTheRest
  BY ParseChild DEF ChildGetsTheRest
<1> QED
  BY <1>1, LineIsWords, PTL

(* Nocruft heeds its own words with their values, and no other             *)
(* (cli.rs:153, cli.rs:185).                                               *)
THEOREM NocruftHeedsItsOwn == CSpec => []NocruftGetsItsOwn
<1>1. argv \in Seq(Token) => NocruftGetsItsOwn
  BY ParseOwn DEF NocruftGetsItsOwn
<1> QED
  BY <1>1, LineIsWords, PTL

(* Behind a separator one more word, whatever it is, is one more word for  *)
(* the child and nothing else (cli.rs:147).                                *)
THEOREM TheSeparatorShields == CSpec => []SeparatorShields
<1>1. argv \in Seq(Token) => SeparatorShields
  BY ParseShield DEF SeparatorShields
<1> QED
  BY <1>1, LineIsWords, PTL
=============================================================================
