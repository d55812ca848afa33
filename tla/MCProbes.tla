------------------------------ MODULE MCProbes ------------------------------
(* The instance of Probes that TLC checks: a root, an outsider and one or   *)
(* two further task ids that both may fork; "long" does not fit the buffer, *)
(* "edge" fills it exactly.                                                 *)
EXTENDS Probes, TLC

CONSTANTS root, out, t1, t2

MCPath == {"p", "edge", "long", "lo"}
MCPathLen == [p |-> 1, edge |-> 3, long |-> 5, lo |-> 2]
MCCut == [q \in MCPath |-> "lo"]

Make(sys, dirfd, flags, path) ==
  [sys |-> sys, dirfd |-> dirfd, flags |-> flags, path |-> path]

(* A call that is captured, one that is not and shares its exit probe, one  *)
(* that returns 0, one with both flags and a path that fills the buffer     *)
(* exactly, and one that returns a descriptor, with a path that is cut.     *)
MixedCall ==
  {Make("openat", AT_FDCWD, {O_CREAT}, "p"),
   Make("openat", 3, {}, "p"),
   Make("mkdirat", 3, {}, "p"),
   Make("openat2", AT_FDCWD, {O_CREAT, O_DIRECTORY}, "edge"),
   Make("open", AT_FDCWD, {O_CREAT}, "long")}

(* The two spare task ids are interchangeable (no liveness is checked here) *)
Interchangeable == Permutations({t1, t2})
=============================================================================
