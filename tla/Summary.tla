------------------------------- MODULE Summary -------------------------------
(***************************************************************************)
(* From the captured events to the paths nocruft shows: the filters and    *)
(* the output modes of crates/nocruft/src/output.rs, with resolve, lstat   *)
(* and statx of pathres.rs, as the command line (Cli) asks for them.       *)
(*                                                                         *)
(* The filters ask the filesystem as it is now, not as it was at the event *)
(* or the moment before: the descendants of the root and everyone else go  *)
(* on changing it.  A place is where a file is; a path is a name, and where *)
(* it leads is found out anew by every call: one directory on its way may  *)
(* be, or become, a symbolic link to another.  What the tracked program    *)
(* does, and how its events were replayed, are external.                   *)
(***************************************************************************)
EXTENDS Cli

CONSTANTS
  Place,          \* where files are
  Parent,         \* the directory a place is in, if it may come and go; or None
  Kind,           \* what a place may hold: "file", "dir", "link"
  Old,            \* what may be there before nocruft starts: places and kinds
  NoBtime,        \* places whose filesystem keeps no birth time
  Path,           \* absolute, clean paths, as nocruft holds them
  Target,         \* where a symbolic link at a place may lead
  Via,            \* the place a path's directory has, if it may change; or None
  Home,           \* the place a path names in a directory that stays
  Inside,         \* the place it names in any other directory, or None
  Told,           \* what nocruft makes of a path that was used: paths, None
  LongPath,       \* those that may not fit the probes' buffer
  NotUtf8,        \* those that are not text
  SystemPath, HistoryFile, BuildArtifact,    \* the categories
  Matched,        \* by glob: the texts that match it
  MaxEvents,      \* bound of the model: calls of the tracked program
  MaxOther,       \* bound of the model: changes by anyone else
  None

Flags == {{}, {"RENAME_EXCHANGE"}}
EV_OPENAT_CREATE == "OPENAT_CREATE"
EV_MKDIRAT == "MKDIRAT"          \* for all calls that make a new file
EV_RENAMEAT2 == "RENAMEAT2"      \* for all that give a file another name
Event ==
  [syscall : {EV_OPENAT_CREATE, EV_MKDIRAT, EV_RENAMEAT2}, flags : Flags,
   path : Path \cup {None}, truncated : BOOLEAN]

Absent == [kind |-> "none", birth |-> "after", to |-> None]
Node ==
  {Absent} \cup
  [kind : {"file", "dir"}, birth : {"before", "after"}, to : {None}] \cup
  [kind : {"link"}, birth : {"before", "after"}, to : Place]

ASSUME PlaceAssumption ==
  /\ Parent \in [Place -> Place \cup {None}] /\ None \notin Place \cup Path \cup {"before", "after"}
  /\ \A x \in Place : Kind[x] \subseteq {"file", "dir", "link"}
  /\ \A old \in Old : \A x \in DOMAIN old : x \in Place /\ old[x] \in Kind[x]
  /\ Target \in [Place -> SUBSET Place]
  /\ Via \in [Path -> Place \cup {None}] /\ Home \in [Path -> Place \cup {None}]
  /\ Inside \in [Path -> [Place -> Place \cup {None}]]
  /\ Told \in [Path -> SUBSET (Path \cup {None})]
  /\ NotUtf8 \subseteq Path /\ NotUtf8 \cap SystemPath = {}
  /\ MaxEvents \in Nat /\ MaxOther \in Nat

(* The bound of the model on paths: of the directories on a way one may    *)
(* change, it lies in one that stays, and no more than two links lead on.  *)
ASSUME WayAssumption ==
  /\ \A x \in Place : Parent[x] # None => Parent[Parent[x]] = None
  /\ \A p \in Path :
       IF Via[p] = None THEN Home[p] \in Place /\ Parent[Home[p]] = None ELSE Parent[Via[p]] = None
  /\ \A p \in Path, d \in Place : Inside[p][d] # None => Parent[Inside[p][d]] = d
  /\ \A x \in Place : \A y \in Target[x] : \A z \in Target[y] : Target[z] = {}

VARIABLES
  pc,             \* where nocruft is
  argv,           \* its command line, until it is parsed
  config,         \* what the command line asks for
  node,           \* the filesystem: what each place holds
  events,         \* State.events, resolved
  next,           \* the event the loop is at
  seen,           \* paths of the summary, or those printed before
  printed,        \* events printed one by one
  \* history
  others,         \* changes made by anyone else
  undisturbed,    \* none of them since nocruft began its report
  kept,           \* older places whose file has been there all the time
  led,            \* where a path led when it was listed, or None
  redirected      \* listed paths that were made to lead elsewhere since

optionVars == <<argv, config>>
reportVars == <<events, next, seen, printed>>
worldVars == <<node, others, undisturbed, kept>>
ledVars == <<led, redirected>>
summaryVars == <<pc, optionVars, reportVars, worldVars, ledVars>>

On(flag) == flag \in config.flags

SInit ==
  /\ pc = "parse" /\ argv \in Argv
  /\ config = [flags |-> {}, includes |-> {}, excludes |-> {}]
  /\ \E old \in Old :
       /\ kept = DOMAIN old
       /\ \E aim \in [{x \in kept : old[x] = "link"} -> Place] :
            /\ \A x \in DOMAIN aim : aim[x] \in Target[x]
            /\ node = [x \in Place |->
                 IF x \in kept THEN [kind |-> old[x], birth |-> "before",
                                    to |-> IF x \in DOMAIN aim THEN aim[x] ELSE None]
                 ELSE Absent]
  /\ events = <<>> /\ next = 1 /\ seen = {} /\ printed = <<>>
  /\ others = 0 /\ undisturbed = TRUE
  /\ led = [p \in Path |-> None] /\ redirected = {}

(* parse_argv, and the globs it compiled                                   *)
Parse ==
  /\ pc = "parse" /\ argv' = <<>>
  /\ LET parsed == parse_argv(argv)
         Texts(globs) == UNION {Matched[g] : g \in globs}
     IN  \/ parsed.rejected /\ pc' = "failed" /\ UNCHANGED config
         \/ /\ ~parsed.rejected /\ pc' = "run"
            /\ config' = [flags |-> parsed.flags, includes |-> Texts(parsed.includes),
                          excludes |-> Texts(parsed.excludes)]
  /\ UNCHANGED <<reportVars, worldVars, ledVars>>

-----------------------------------------------------------------------------
(* The filesystem (external).                                              *)

Present(x) == node[x] # Absent
HasChildren(x) == \E y \in Place : Parent[y] = x /\ Present(y)
CanHold(x) == Parent[x] # None => node[Parent[x]].kind = "dir"

(* Where a path leads now: the links of its way are followed, not one at   *)
(* its end; None if the way ends in no directory.                          *)
Hop(x) == IF node[x].kind = "link" THEN node[x].to ELSE x
Lead(x) == Hop(Hop(x))
At(p) ==
  IF Via[p] = None THEN Home[p]
  ELSE IF node[Lead(Via[p])].kind = "dir" THEN Inside[p][Lead(Via[p])] ELSE None

(* symlink_metadata(p).is_ok()                                             *)
exists_now(p) == At(p) # None /\ Present(At(p))

(* stx_btime, told apart by the start of nocruft; None: statx fails, or    *)
(* has no birth time                                                       *)
file_btime(p) ==
  IF ~exists_now(p) \/ At(p) \in NoBtime THEN None ELSE node[At(p)].birth

Contents(x) == {y \in Place : Parent[y] = x}

(* What was in the place before is gone with all it held.                  *)
Fill(x, kinds, births) ==
  \E k \in kinds \cap Kind[x], b \in births :
    \E t \in IF k = "link" THEN Target[x] ELSE {None} :
      node' = [y \in Place |-> IF y = x THEN [kind |-> k, birth |-> b, to |-> t]
                              ELSE IF y \in Contents(x) THEN Absent ELSE node[y]]
Clear(xs) == node' = [x \in Place |-> IF x \in xs THEN Absent ELSE node[x]]

(* The tracked program: an event for each of its calls, told as the replay *)
(* resolves it.                                                            *)
Capture(p, syscall, flags) ==
  \E told \in Told[p], cut \in IF p \in LongPath THEN BOOLEAN ELSE {FALSE} :
    events' = Append(events, [syscall |-> syscall, flags |-> flags, path |-> told,
                              truncated |-> cut])

OpenCreate(p) ==
  /\ \/ ~Present(At(p)) /\ Fill(At(p), {"file"}, {"after"})
     \/ node[At(p)].kind = "file" /\ UNCHANGED node
  /\ Capture(p, EV_OPENAT_CREATE, {}) /\ UNCHANGED kept

MakeNew(p) ==
  /\ ~Present(At(p)) /\ Fill(At(p), {"file", "dir", "link"}, {"after"})
  /\ Capture(p, EV_MKDIRAT, {}) /\ UNCHANGED kept

(* link and rename bring a file of any age, rename in place of another     *)
MoveHere(p) ==
  /\ ~HasChildren(At(p))
  /\ Fill(At(p), IF Present(At(p)) THEN {node[At(p)].kind} ELSE {"file", "dir", "link"},
          {"before", "after"})
  /\ Capture(p, EV_RENAMEAT2, {}) /\ kept' = kept \ {At(p)}

Exchange(p) ==
  /\ node[At(p)].kind = "file" /\ Fill(At(p), {"file"}, {"before", "after"})
  /\ Capture(p, EV_RENAMEAT2, {"RENAME_EXCHANGE"}) /\ kept' = kept \ {At(p)}

Program ==
  /\ pc = "run" /\ Len(events) < MaxEvents
  /\ \E p \in Path :
       /\ At(p) # None
       /\ OpenCreate(p) \/ MakeNew(p) \/ MoveHere(p) \/ Exchange(p)
  /\ UNCHANGED <<pc, optionVars, next, seen, printed, others, undisturbed, ledVars>>

(* Anyone else, at any time: other processes, calls whose event was lost,  *)
(* descendants that outlive the root.  They bring files, directories and   *)
(* links, in place of others or not, turn a link elsewhere, put a link in  *)
(* place of a directory, and take away what there is.                      *)
Meddle ==
  /\ others < MaxOther /\ others' = others + 1
  /\ undisturbed' = (undisturbed /\ pc = "run")

Put(x) == CanHold(x) /\ Fill(x, Kind[x], {"before", "after"})
TakeAway(x) == Present(x) /\ Clear({x} \cup Contents(x))

Outsiders ==
  /\ pc \notin {"parse", "done", "failed"} /\ Meddle
  /\ \E x \in Place : (Put(x) \/ TakeAway(x)) /\ kept' = kept \ ({x} \cup Contents(x))
  /\ redirected' = redirected \cup {p \in seen : At(p)' \notin {led[p], None}}
  /\ UNCHANGED <<pc, optionVars, reportVars, led>>

RootExits ==
  /\ pc = "run" /\ pc' = "filter"
  /\ UNCHANGED <<optionVars, reportVars, worldVars, ledVars>>

-----------------------------------------------------------------------------
(* filter_event, in its two looks at the filesystem.                       *)

(* p.matches(abs_str); a path that is not text is matched as ""            *)
Text(p) == IF p \in NotUtf8 THEN "" ELSE p

Missing(ev) ==
  \/ ev.truncated \/ ev.path = None
  \/ ~On("--nc-include-deleted") /\ ~exists_now(ev.path)

Forced(p) == Text(p) \in config.includes
Barred(p) ==
  \/ Text(p) \in config.excludes
  \/ ~On("--nc-include-system") /\ p \in SystemPath

(* The categories that come after the birth time                           *)
Noise(p) ==
  \/ ~On("--nc-include-history") /\ p \in HistoryFile
  \/ ~On("--nc-include-build") /\ p \in BuildArtifact

AsksBirth(ev) == ~On("--nc-include-modified") /\ ev.syscall = EV_OPENAT_CREATE

(* Mutant: the excludes before the includes.                                *)
VerdictExcludesFirst(ev) ==
  IF Missing(ev) \/ Barred(ev.path) THEN "drop"
  ELSE IF Forced(ev.path) THEN "keep"
  ELSE IF AsksBirth(ev) THEN "ask"
  ELSE IF Noise(ev.path) THEN "drop" ELSE "keep"

Verdict(ev) ==
  IF Missing(ev) THEN "drop"
  ELSE IF Forced(ev.path) THEN "keep"
  ELSE IF Barred(ev.path) THEN "drop"
  ELSE IF AsksBirth(ev) THEN "ask"
  ELSE IF Noise(ev.path) THEN "drop" ELSE "keep"

(* Mutant: a birth time is not compared with the start.                     *)
is_genuine_creation_always(p) == file_btime(p) \in {"before", "after", None}

is_genuine_creation(p) == file_btime(p) \in {"after", None}

(* Mutant: a record is that of the next event.                              *)
KeepFollowing(p) ==
  IF On("--nc-json") \/ On("--nc-no-dedupe")
  THEN printed' = Append(printed, next + 1) /\ UNCHANGED seen
  ELSE seen' = seen \cup {p} /\ UNCHANGED printed

(* Mutant: a path is printed once, whatever --nc-no-dedupe says.            *)
KeepOnce(p) ==
  /\ seen' = seen \cup {p}
  /\ printed' = IF (On("--nc-json") \/ On("--nc-no-dedupe")) /\ p \notin seen
                THEN Append(printed, next) ELSE printed

(* What a mode does with a path that passed: emit_json, with and without   *)
(* --nc-no-dedupe, emit_plain_no_dedupe, build_summary                     *)
Keep(p) ==
  CASE On("--nc-no-dedupe") -> printed' = Append(printed, next) /\ UNCHANGED seen
    [] On("--nc-json") /\ ~On("--nc-no-dedupe") ->
         /\ seen' = seen \cup {p}
         /\ printed' = IF p \in seen THEN printed ELSE Append(printed, next)
    [] OTHER -> seen' = seen \cup {p} /\ UNCHANGED printed

Advance(keep) ==
  /\ next' = next + 1 /\ pc' = "filter"
  /\ LET p == events[next].path
     IN  IF keep
         THEN /\ Keep(p) /\ led' = [led EXCEPT ![p] = At(p)]
              /\ redirected' = redirected \ {p}
         ELSE UNCHANGED <<seen, printed, ledVars>>

Filter ==
  /\ pc = "filter" /\ next <= Len(events)
  /\ IF Verdict(events[next]) = "ask" THEN pc' = "birth" /\ UNCHANGED <<next, seen, printed, ledVars>>
     ELSE Advance(Verdict(events[next]) = "keep")
  /\ UNCHANGED <<events, optionVars, worldVars>>

AskBirth ==
  /\ pc = "birth"
  /\ LET p == events[next].path IN Advance(is_genuine_creation(p) /\ ~Noise(p))
  /\ UNCHANGED <<events, optionVars, worldVars>>

Listed ==
  IF On("--nc-json") \/ On("--nc-no-dedupe")
  THEN {events[printed[i]].path : i \in 1..Len(printed)}
  ELSE seen

Report ==
  /\ pc = "filter" /\ next > Len(events) /\ pc' = "listed"
  /\ UNCHANGED <<optionVars, reportVars, worldVars, ledVars>>

=============================================================================
