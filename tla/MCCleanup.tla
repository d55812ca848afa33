----------------------------- MODULE MCCleanup ------------------------------
(* The instances of Cleanup that TLC checks.  Places: a directory D, deep   *)
(* in the tree, with a file F in it, a directory E with a file G of the     *)
(* same name, a place L near the root for a symbolic link to one of the     *)
(* two, a file C and a file R.  D may give way to a link to E.  R's path is *)
(* not text, and its display is the path of C; recorded from a raw syscall  *)
(* argument it is C's as well.                                              *)
EXTENDS Cleanup, TLC

CONSTANTS D, E, F, G, L, C, R

(* Two instances: one for the command lines and the report in every mode,  *)
(* one for what others do to names while the worker deletes.               *)
ListPlace == {D, F, L, C, R}
WayPlace == {D, E, F, G, L}
MCParent == [x \in Place |-> IF x = F THEN D ELSE IF x = G THEN E ELSE None]
ListKind == [x \in Place |->
  IF x = D THEN {"dir"} ELSE IF x = L THEN {"link"} ELSE IF x = F THEN {"file", "dir"} ELSE {"file"}]
WayKind == [x \in Place |->
  IF x = D THEN {"dir", "link"} ELSE IF x = E THEN {"dir"} ELSE IF x = L THEN {"link"} ELSE {"file"}]
ListTarget == [x \in Place |-> IF x = L THEN {D} ELSE {}]
WayTarget == [x \in Place |-> IF x = L THEN {D, E} ELSE IF x = D THEN {E} ELSE {}]
ListOld == {<<>>, D :> "dir" @@ F :> "file", C :> "file" @@ R :> "file"}
WayOld ==
  {D :> "dir" @@ F :> "file" @@ L :> "link",
   D :> "dir" @@ L :> "link" @@ E :> "dir" @@ G :> "file"}

(* The paths, where they lead, and how many components they have.          *)
WayPath == {"/w/x/d", "/w/x/d/f", "/l", "/l/f"}
ListPath == WayPath \cup {"/w/c", "/w/r"}
MCHome == [p \in Path |->
  IF p = "/w/x/d" THEN D ELSE IF p = "/l" THEN L
  ELSE IF p = "/w/c" THEN C ELSE IF p = "/w/r" THEN R ELSE None]
MCVia == [p \in Path |-> IF p = "/w/x/d/f" THEN D ELSE IF p = "/l/f" THEN L ELSE None]
MCInside == [p \in Path |-> [x \in Place |->
  IF MCVia[p] = None THEN None ELSE IF x = D THEN F ELSE IF x = E THEN G ELSE None]]
MCDepth == [p \in Path |->
  IF p = "/w/x/d/f" THEN 5 ELSE IF p = "/w/x/d" THEN 4 ELSE IF p = "/l" THEN 2 ELSE 3]
MCShown == [p \in Path |-> IF p = "/w/r" THEN "/w/c" ELSE p]
MCTold == [p \in Path |->
  IF p = "/w/r" THEN {"/w/r", "/w/c"} ELSE IF p = "/l" THEN {"/l", None} ELSE {p}]
WayTold == [p \in Path |-> {p}]

(* The globs of the command lines, and what they match.                     *)
MCMatched ==
  "**" :> Path \cup {""} @@ "/l*" :> {"/l", "/l/f"} @@ "/w/x/**" :> {"/w/x/d", "/w/x/d/f"}
    @@ [g \in {"sh"} |-> {}]

(* Command lines that ask for something, in every mode.                     *)
Dangerous == <<"--nc-delete-dangerous">>
Everything ==
  <<"--nc-include-system", "--nc-include-history", "--nc-include-build">>
MCRequest ==
  {Dangerous \o Everything \o <<"--nc-dry-run-delete">>,
   Dangerous \o <<"--nc-include-deleted", "--nc-include-build">>,
   Dangerous \o <<"--nc-include", "/l*", "--nc-exclude", "**", "--nc-delete-interactive">>,
   Dangerous \o <<"--nc-no-dedupe", "--nc-exclude=/w/x/**">>,
   <<"--nc-delete-interactive", "--nc-include-system", "-p", "sh">>,
   <<"--nc-json", "--nc-no-dedupe", "--nc-delete-interactive", "--nc-include-modified">>}

(* Command lines of up to three of nine words, and some longer ones.        *)
Word == {"--", "--help", "-p", "sh", "--nc-exec", "--nc-exec=sh", "--nc-exclude", "--nc-json", "["}
MCLine ==
  UNION {[1..n -> Word] : n \in 0..3} \cup
  {<<"--nc-exec", "sh", "--", "--help">>,
   <<"--nc-exec=sh", "--nc-exclude", "--nc-json", "-p", "sh">>,
   <<"--nc-exclude", "sh", "--nc-json", "-p", "sh", "--", "--nc-exec">>,
   <<"sh", "--nc-exclude", "--", "--nc-exclude", "[", "--", "--help">>}

MCAnyLine == MCLine \cup MCRequest

(* A command line that deletes all that is listed.                          *)
WayArgv == {Dangerous \o Everything}

MCInline ==
  "--nc-exec=sh" :> [key |-> "--nc-exec", value |-> "sh"]
    @@ "--nc-exclude=/w/x/**" :> [key |-> "--nc-exclude", value |-> "/w/x/**"]
MCNcToken == SWITCHES \cup VALUE_FLAGS \cup DOMAIN MCInline
MCToken == Word \cup MCNcToken \cup DOMAIN MCMatched
MCDashed == MCNcToken \cup {"--", "--help", "-p"}
=============================================================================
