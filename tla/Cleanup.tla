------------------------------- MODULE Cleanup -------------------------------
(***************************************************************************)
(* What follows the list: dangerous_delete, interactive_delete and their   *)
(* worker perform_delete in crates/nocruft/src/output.rs.  The worker      *)
(* removes by name, deepest names first, in two steps (lstat, then rmdir   *)
(* or unlink) with everyone else's changes in between: each of the two     *)
(* finds out for itself where the name leads.                              *)
(***************************************************************************)
EXTENDS Summary

CONSTANTS
  Depth,     \* the number of components of a path
  Shown      \* the path made of its display(), which is not always itself

ASSUME ShownAssumption ==
  /\ Depth \in [Path -> Nat] /\ Shown \in [Path -> Path]
  /\ \A p \in Path \ NotUtf8 : Shown[p] = p
  /\ None \notin [path : Path, rmdir : BOOLEAN]

(* What may be there before nocruft starts lies in directories that are.    *)
ASSUME OldAssumption ==
  \A old \in Old : \A x \in DOMAIN old :
    Parent[x] # None => Parent[x] \in DOMAIN old /\ old[Parent[x]] = "dir"

(* A name that passes a directory extends the directory's.                 *)
ASSUME DepthAssumption ==
  \A p, q \in Path :
    Via[p] = None /\ Via[q] # None /\ Via[q] = Home[p] => Depth[p] < Depth[q]

VARIABLES
  chosen,    \* the lines of the prompt that were selected
  targets,   \* paths perform_delete has still to look at
  current,   \* the path it has looked at, and the call it will make; or None
  \* history
  removed,   \* what its calls removed: the path given, the place it led to
  refused    \* paths whose call failed for reasons of its own

deleteVars == <<chosen, targets, current, removed, refused>>
cleanupVars == <<summaryVars, deleteVars>>

CInit ==
  /\ SInit
  /\ chosen = {} /\ targets = {} /\ current = None /\ removed = {} /\ refused = {}

Goto(label) == pc' = label /\ UNCHANGED <<optionVars, reportVars, worldVars, ledVars>>

(* The end of emit: the event modes delete nothing, dangerous wins over    *)
(* interactive, and a prompt needs lines and a terminal.                   *)
Emit ==
  /\ pc = "listed" /\ UNCHANGED <<chosen, current, removed, refused>>
  /\ IF On("--nc-json") \/ On("--nc-no-dedupe") \/ seen = {}
     THEN Goto("done") /\ UNCHANGED targets
     ELSE IF On("--nc-delete-dangerous") THEN Goto("delete") /\ targets' = seen
     ELSE /\ Goto("done") \/ (On("--nc-delete-interactive") /\ Goto("select"))
          /\ UNCHANGED targets

(* MultiSelect: an abort, an error, or any of the lines                    *)
Select ==
  /\ pc = "select" /\ UNCHANGED <<targets, current, removed, refused>>
  /\ chosen' \in SUBSET seen
  /\ Goto(IF chosen' = {} THEN "done" ELSE "confirm")

(* confirm_single_key: y, or anything else that ends it; the selected      *)
(* lines are made into paths again                                         *)
Confirm ==
  /\ pc = "confirm" /\ UNCHANGED <<current, removed, refused>>
  /\ \/ Goto("delete") /\ targets' = {Shown[p] : p \in chosen} /\ UNCHANGED chosen
     \/ Goto("done") /\ chosen' = {} /\ UNCHANGED targets

-----------------------------------------------------------------------------
(* perform_delete.                                                         *)

(* Mutant: sorted the other way.                                            *)
FirstShallow == {p \in targets : \A q \in targets : Depth[p] <= Depth[q]}

(* sort_by_key(Reverse(components().count())); equal counts in any order   *)
First == {p \in targets : \A q \in targets : Depth[p] >= Depth[q]}

(* symlink_metadata: what is gone is skipped                               *)
Look ==
  /\ pc = "delete" /\ \E p \in First :
       /\ targets' = targets \ {p}
       /\ IF exists_now(p)
          THEN /\ current' = [path |-> p, rmdir |-> node[At(p)].kind = "dir"]
               /\ Goto("remove")
          ELSE Goto("delete") /\ UNCHANGED current
  /\ UNCHANGED <<chosen, removed, refused>>

(* What the call takes away: rmdir an empty directory, unlink anything     *)
(* else; nothing when the call fails                                       *)

(* Mutant: remove_dir_all.                                                  *)
TakesAll(p, rmdir) ==
  IF exists_now(p) /\ rmdir = (node[At(p)].kind = "dir")
  THEN {At(p)} \cup {x \in Contents(At(p)) : Present(x)} ELSE {}

(* Mutant: a symbolic link is followed.                                     *)
TakesTarget(p, rmdir) ==
  IF exists_now(p) /\ rmdir = (node[At(p)].kind = "dir") /\ ~(rmdir /\ HasChildren(At(p)))
     /\ Present(Lead(At(p)))
  THEN {Lead(At(p))} ELSE {}

Takes(p, rmdir) ==
  IF exists_now(p) /\ rmdir = (node[At(p)].kind = "dir") /\ ~(rmdir /\ HasChildren(At(p)))
  THEN {At(p)} ELSE {}

Remove ==
  /\ pc = "remove" /\ pc' = "delete"
  /\ LET taken == Takes(current.path, current.rmdir)
     IN  /\ Clear(taken)
         /\ removed' = removed \cup {[path |-> current.path, place |-> x] : x \in taken}
  /\ current' = None
  /\ UNCHANGED <<optionVars, reportVars, others, undisturbed, kept, ledVars, chosen, targets,
                 refused>>

(* Mutant: the worker stops at a failure.                                   *)
RefusedAndStops ==
  /\ pc = "remove" /\ pc' = "delete"
  /\ current' = None /\ targets' = {} /\ refused' = refused \cup {current.path}
  /\ UNCHANGED <<optionVars, reportVars, worldVars, ledVars, chosen, removed>>

(* A call may fail for reasons of its own (permissions, a busy mount)      *)
Refused ==
  /\ pc = "remove" /\ pc' = "delete"
  /\ current' = None /\ refused' = refused \cup {current.path}
  /\ UNCHANGED <<optionVars, reportVars, worldVars, ledVars, chosen, targets, removed>>

Deleted ==
  /\ pc = "delete" /\ targets = {}
  /\ Goto("done") /\ UNCHANGED deleteVars

SummaryStep ==
  Parse \/ Program \/ RootExits \/ Filter \/ AskBirth \/ Report \/ Outsiders

CNext ==
  \/ SummaryStep /\ UNCHANGED deleteVars
  \/ Emit \/ Select \/ Confirm \/ Look \/ Remove \/ Refused \/ Deleted

CSpec == CInit /\ [][CNext]_cleanupVars

-----------------------------------------------------------------------------
(* Types of what the summary and the deletion keep.                        *)
CleanupTypeOK ==
  /\ pc \in {"parse", "run", "filter", "birth", "listed", "select", "confirm", "delete",
             "remove", "done", "failed"}
  /\ argv \in Seq(Token) /\ config.flags \subseteq SWITCHES
  /\ node \in [Place -> Node]
  /\ events \in Seq(Event) /\ next \in 1..Len(events) + 1
  /\ seen \subseteq Path /\ printed \in Seq(1..Len(events))
  /\ others \in 0..MaxOther /\ undisturbed \in BOOLEAN
  /\ kept \subseteq Place
  /\ led \in [Path -> Place \cup {None}] /\ redirected \subseteq seen
  /\ removed \subseteq [path : Path, place : Place] /\ refused \subseteq Path
  /\ chosen \subseteq seen /\ targets \subseteq Path
  /\ current = None \/ current \in [path : Path, rmdir : BOOLEAN]
  /\ (pc = "remove") = (current # None)

(* Of an accepted command line the child gets every word that is not       *)
(* nocruft's own, its value or the first separator, in order: no flag of   *)
(* nix-shell is lost to nocruft's, none of nocruft's reaches nix-shell     *)
(* (cli.rs:138).  That the first separator is dropped (cli.rs:158) is what *)
(* the code does; the documentation says otherwise, see                    *)
(* SeparatorReachesChild.                                                  *)
ChildGetsTheRest ==
  pc = "parse" =>
    LET p == parse_argv(argv) IN ~p.rejected => p.child_args = Rest(argv)

(* Of an accepted command line nocruft heeds its own words, with their     *)
(* values, and no other: no flag of its own is read in a value, behind the *)
(* separator or in a word of the child's (cli.rs:153, cli.rs:185).         *)
NocruftGetsItsOwn ==
  pc = "parse" =>
    LET p == parse_argv(argv)
        exec == Given(argv, "--nc-exec")
    IN  ~p.rejected =>
          /\ p.flags = {argv[i] : i \in Own(argv)} \cap SWITCHES
          /\ p.includes = Given(argv, "--nc-include")
          /\ p.excludes = Given(argv, "--nc-exclude")
          /\ p.child_prog \in IF exec = {} THEN {"nix-shell"} ELSE exec

(* After a separator no word means anything to nocruft: one more of them,  *)
(* whatever it is, changes nothing but the child's arguments (cli.rs:147). *)
SeparatorShields ==
  pc = "parse" /\ Separators(argv) # {} =>
    \A tok \in Token :
      LET p == parse_argv(argv)
      IN  parse_argv(Append(argv, tok)) =
            IF p.rejected THEN p ELSE [p EXCEPT !.child_args = Append(@, tok)]

(* An event passes: it names a path whole, that is there or need not be,   *)
(* and either an include wants it or neither an exclude nor a category     *)
(* refuses it.                                                             *)
Passes(ev) ==
  LET p == ev.path
      Hidden(flag, category) == ~On(flag) /\ category
  IN  /\ ~ev.truncated /\ p # None
      /\ On("--nc-include-deleted") \/ exists_now(p)
      /\ \/ Text(p) \in config.includes
         \/ /\ Text(p) \notin config.excludes
            /\ ~Hidden("--nc-include-system", p \in SystemPath)
            /\ ~Hidden("--nc-include-history", p \in HistoryFile)
            /\ ~Hidden("--nc-include-build", p \in BuildArtifact)
            /\ ~Hidden("--nc-include-modified",
                       ev.syscall = EV_OPENAT_CREATE /\ file_btime(p) = "before")

(* When nobody changes anything during the report, every mode lists the    *)
(* paths of the events that pass, no more and no fewer, and an include     *)
(* wins over everything but truncation and absence (output.rs:110).        *)
ListsWhatIsKept ==
  pc = "listed" /\ undisturbed =>
    Listed = {events[i].path : i \in {j \in 1..Len(events) : Passes(events[j])}}

(* The modes that print events do so in the order the events came in, each *)
(* event at most once, and nothing that passes is left out: without        *)
(* --nc-no-dedupe no path, with it no event (output.rs:254, output.rs:283). *)
PrintsInOrder ==
  /\ \A i, j \in 1..Len(printed) : i < j => printed[i] < printed[j]
  /\ pc = "listed" /\ undisturbed /\ (On("--nc-json") \/ On("--nc-no-dedupe")) =>
       \A k \in 1..Len(events) : Passes(events[k]) =>
         \E i \in 1..Len(printed) :
           IF On("--nc-no-dedupe") THEN printed[i] = k
           ELSE events[printed[i]].path = events[k].path

(* What the flags and the prompt grant to be removed.                      *)
Granted == IF On("--nc-delete-dangerous") THEN seen ELSE {Shown[q] : q \in chosen}

(* Only what a flag asked for goes, by the name that was listed or, at the *)
(* prompt, selected and confirmed, and only what that name led to when it  *)
(* was listed: the contents of a directory never go with it, and nothing   *)
(* goes by a name that was made to lead there by nocruft's own removals.   *)
(* A name that others have made lead elsewhere since is followed: each     *)
(* call resolves it again (output.rs:376, output.rs:385).                  *)
OnlyListedGoes ==
  /\ \A r \in removed :
       /\ r.path \in Granted
       /\ r.path \in seen \ redirected => r.place = led[r.path]
  /\ removed # {} =>
       /\ ~On("--nc-json") /\ ~On("--nc-no-dedupe")
       /\ On("--nc-delete-dangerous") \/ On("--nc-delete-interactive")

(* From the start to the end, whatever others do to the files and to where *)
(* the names lead, nocruft removes what a granted name leads to at that    *)
(* moment, one empty place at a time; no removal of its own turns a name   *)
(* elsewhere, and the grant does not change any more once something is     *)
(* gone (output.rs:378).                                                   *)
Deletion == INSTANCE Removal WITH
  Site <- Place,
  Within <- Parent,
  Name <- Path,
  Nowhere <- None,
  there <- {x \in Place : Present(x)},
  leads <- [p \in Path |-> At(p)],
  asked <- Granted,
  gone <- removed

DeletionImplementsRemoval == Deletion!RemovalSpec

(* A listed name that passes a symbolic link: the directory on its way is  *)
(* not the one its file is in.                                             *)
ByLink(p) == led[p] # None /\ Via[p] \notin {None, Parent[led[p]]}

(* When nobody interferes, --nc-delete-dangerous leaves no listed path     *)
(* behind but those whose own call was refused, and directories that hold  *)
(* something else or a child that was listed through a symbolic link, by a *)
(* name that may have fewer components than the directory's: a failure or  *)
(* a path that is gone never keeps the worker from the rest (output.rs:374). *)
CleansUp ==
  pc = "done" /\ undisturbed /\ On("--nc-delete-dangerous")
  /\ ~On("--nc-json") /\ ~On("--nc-no-dedupe") =>
    \A p \in seen : exists_now(p) =>
      \/ p \in refused \/ HasChildren(At(p))
      \/ \E q \in seen : ByLink(q) /\ Parent[led[q]] = At(p)

(* What lets a path to an older file pass the filters: birth times not     *)
(* asked, or not kept by the filesystem, an include, or an event other     *)
(* than an open.                                                           *)
Licensed(p) ==
  \/ On("--nc-include-modified") \/ led[p] \in NoBtime \/ Forced(p)
  \/ \E i \in 1..Len(events) :
       events[i].path = p /\ events[i].syscall # EV_OPENAT_CREATE

(* A file older than nocruft that has never been away is not deleted       *)
(* unless the name it goes by was licensed, is the display of another, or  *)
(* was made to lead to it by someone else after it was listed              *)
(* (output.rs:98).  Whatever others change between its two looks at a path *)
(* that leads to an older file does not list it as a new one.              *)
OlderFilesSpared ==
  \A r \in removed : r.place \in kept =>
    \/ r.path \in seen /\ (Licensed(r.path) \/ r.path \in redirected)
    \/ \E p \in seen : Shown[p] = r.path /\ Shown[p] # p

-----------------------------------------------------------------------------
(* What the documentation says and the code does not do.                   *)

(* output.rs:375: "remove_dir then succeeds on dirs whose only contents     *)
(* nocruft itself reported": when nobody interferes, a listed directory    *)
(* that is left holds something that is left.                              *)
ReportedDirsGo ==
  pc = "done" /\ undisturbed /\ refused = {} /\ On("--nc-delete-dangerous")
  /\ ~On("--nc-json") /\ ~On("--nc-no-dedupe") =>
    \A p \in seen : exists_now(p) => HasChildren(At(p))

(* README.md:81-83: "everything else (including [...] even a bare `--`) is *)
(* passed to nix-shell verbatim"; so does README.md:58 show it, and        *)
(* cli.rs:9 says it.                                                       *)
SeparatorReachesChild ==
  pc = "parse" =>
    LET p == parse_argv(argv)
    IN  ~p.rejected /\ Separators(argv) # {} =>
          \E i \in 1..Len(p.child_args) : p.child_args[i] = SEPARATOR
=============================================================================
