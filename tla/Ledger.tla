------------------------------- MODULE Ledger -------------------------------
(* What nocruft promises of its report, without probes, ring or replay: it  *)
(* tells of files that were made, each at most once, in the order they were *)
(* made, and of no more than Cap of them.  It does not promise to tell all. *)
EXTENDS Naturals, Sequences

CONSTANT Cap

VARIABLES
  clock,   \* completed syscalls of interest
  made,    \* those that made a new name
  told     \* those reported, in the order of the report

ledgerVars == <<clock, made, told>>

LedgerInit == clock = 0 /\ made = {} /\ told = <<>>

Complete ==
  /\ clock' = clock + 1
  /\ made' \in {made, made \cup {clock'}}
  /\ UNCHANGED told

Tell ==
  \E m \in made :
    /\ Len(told) < Cap
    /\ \A i \in 1..Len(told) : told[i] < m
    /\ told' = Append(told, m)
    /\ UNCHANGED <<clock, made>>

LedgerSpec == LedgerInit /\ [][Complete \/ Tell]_ledgerVars
=============================================================================
