------------------------------ MODULE MCTracer ------------------------------
(* The instance of Tracer that TLC checks.  A place is the sequence of its  *)
(* components; "deep" stands for every place of more than three, and "w/s"  *)
(* is the only directory below the home directory "w".  Path arguments are  *)
(* cleaned and joined as path_clean does it, component by component.        *)
EXTENDS Tracer, TLC

LOCAL INSTANCE SequencesExt

CONSTANTS root, out, t1

MCPath == {"f", "s", "up", "/w", "/w/s", "long", "lo"}
MCPathLen == [p \in MCPath |-> IF p = "long" THEN 9 ELSE 2]
MCCut == [p \in MCPath |-> IF p \in {"/w", "/w/s"} THEN p ELSE "lo"]
MCAbsolute == {"/w", "/w/s"}

Name == {"w", "s", "f", "lo", "long"}
Deep == <<"deep">>
MCWhere == {Deep} \cup UNION {[1..n -> Name] : n \in 0..3}
MCHome == <<"w">>
MCDir == {<<>>, <<"w">>, <<"w", "s">>}

Components ==
  [f |-> <<"f">>, s |-> <<"s">>, up |-> <<"..">>, long |-> <<"long">>, lo |-> <<"lo">>]
    @@ ("/w" :> <<"w">>) @@ ("/w/s" :> <<"w", "s">>)

(* clean() drops the component before each ".."                             *)
Step(place, component) ==
  IF place = Deep THEN Deep
  ELSE IF component = ".." THEN SubSeq(place, 1, Len(place) - 1)
  ELSE IF Len(place) = 3 THEN Deep ELSE Append(place, component)

MCClean == [p \in MCAbsolute |-> FoldLeft(Step, <<>>, Components[p])]
MCJoin ==
  [b \in MCWhere |-> [p \in MCPath \ MCAbsolute |-> FoldLeft(Step, b, Components[p])]]

Make(sys, dirfd, flags, path) ==
  [sys |-> sys, dirfd |-> dirfd, flags |-> flags, path |-> path]

MakeFile == Make("openat", AT_FDCWD, {O_CREAT}, "f")
OpenSub == Make("openat", AT_FDCWD, {O_DIRECTORY}, "s")
GoIn == Make("chdir", AT_FDCWD, {}, "s")
GoOut == Make("chdir", AT_FDCWD, {}, "up")

(* Moves by name, up and down, and a creation in between.                   *)
MoveCall == {MakeFile, GoIn, GoOut}

(* A directory opened and entered, a creation relative to it, a plain open. *)
FdCall ==
  {MakeFile, OpenSub,
   Make("mkdirat", 3, {}, "f"),
   Make("fchdir", 3, {}, None),
   Make("openat", AT_FDCWD, {}, "up")}

(* Descriptors used as base and entered, absolute and truncated paths.      *)
PathCall ==
  (FdCall \ {MakeFile}) \cup
  {Make("chdir", AT_FDCWD, {}, "/w"),
   Make("openat", AT_FDCWD, {O_DIRECTORY}, "/w/s"),
   Make("openat2", 3, {O_DIRECTORY}, "up"),
   Make("mkdir", AT_FDCWD, {}, "long")}
=============================================================================
