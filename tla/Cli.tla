--------------------------------- MODULE Cli ---------------------------------
(***************************************************************************)
(* The command line (crates/nocruft/src/cli.rs): one pass over the tokens  *)
(* sends each to nocruft or to the child, clap and glob then accept or     *)
(* refuse what nocruft got.  A token is opaque but for what the code asks  *)
(* of it: does it begin with "--nc-", does it hold a "=", is it one of the *)
(* names below; clap also asks whether it begins with a dash.              *)
(***************************************************************************)
EXTENDS Integers, Sequences, FiniteSets

CONSTANTS
  Token,      \* the words of command lines
  NcToken,    \* those that begin with --nc-
  Inline,     \* those of them with a "=": the key before it, the value after it
  Dashed,     \* words that begin with a dash
  NotGlob,    \* words that glob::Pattern::new refuses
  Argv        \* the command lines tried

SEPARATOR == "--"
BARE_NC_FLAGS == {"--help", "-h", "--version", "-V"}
VALUE_FLAGS == {"--nc-exec", "--nc-exclude", "--nc-include"}
SWITCHES ==
  {"--nc-json", "--nc-include-deleted", "--nc-no-dedupe", "--nc-verbose",
   "--nc-dry-run-delete", "--nc-delete-interactive", "--nc-delete-dangerous",
   "--nc-include-system", "--nc-include-modified", "--nc-include-history",
   "--nc-include-build"}

(* What begins with --nc- is not the separator, what holds a "=" no flag.   *)
ASSUME TokenAssumption ==
  /\ NcToken \subseteq Token \ {SEPARATOR}
  /\ DOMAIN Inline \subseteq NcToken \ (SWITCHES \cup VALUE_FLAGS)
  /\ \A t \in DOMAIN Inline : Inline[t].value \in Token
  /\ Argv \subseteq Seq(Token)

Key(tok) == IF tok \in DOMAIN Inline THEN Inline[tok].key ELSE tok

(* Does the token take the next one with it, whatever that is?             *)
TakesNext(tok) == tok \in NcToken \ DOMAIN Inline /\ tok \in VALUE_FLAGS

-----------------------------------------------------------------------------
(* The walk.  An entry of nc_bucket is a token with the values it came     *)
(* with, none or one; pending says that the last entry waits for its own.  *)

NothingSeen ==
  [nc_bucket |-> <<>>, child_bucket |-> <<>>, after_separator |-> FALSE, pending |-> FALSE]

ToChild(s, tok) == [s EXCEPT !.child_bucket = Append(@, tok)]
ToNocruft(s, tok) ==
  [s EXCEPT !.nc_bucket = Append(@, [tok |-> tok, values |-> <<>>]),
            !.pending = TakesNext(tok)]

(* Mutant: a token of nocruft's keeps its meaning after the separator.      *)
IsOursAnywhere(s, tok) == ~s.pending /\ tok \in BARE_NC_FLAGS \cup NcToken

IsOurs(s, tok) ==
  ~s.pending /\ ~s.after_separator /\ tok \in BARE_NC_FLAGS \cup NcToken

(* Mutant: the separator reaches the child.                                 *)
CrossAndKeep(s) ==
  [s EXCEPT !.after_separator = TRUE, !.child_bucket = Append(@, SEPARATOR)]

Cross(s) == [s EXCEPT !.after_separator = TRUE]

Route(s, tok) ==
  CASE s.pending ->
         [s EXCEPT !.nc_bucket[Len(s.nc_bucket)].values = <<tok>>, !.pending = FALSE]
    [] ~s.pending /\ ~s.after_separator /\ tok = SEPARATOR -> Cross(s)
    [] IsOurs(s, tok) -> ToNocruft(s, tok)
    [] OTHER -> ToChild(s, tok)

(* The state after each number of tokens                                   *)
Passed(argv) ==
  LET after[n \in 0..Len(argv)] ==
        IF n = 0 THEN NothingSeen ELSE Route(after[n - 1], argv[n])
  IN  after

Walk(argv) == Passed(argv)[Len(argv)]

(* try_parse_from.  clap (external) reads the bucket from its attributes   *)
(* in NocruftFlags: --help and --version end in an error value, a switch   *)
(* takes no value, a value that came as a token of its own may not begin   *)
(* with a dash, and only the two globs may be repeated.                    *)
ValuesOf(e) ==
  (IF e.tok \in DOMAIN Inline THEN <<Inline[e.tok].value>> ELSE <<>>) \o e.values

Named(nc, key) == {i \in 1..Len(nc) : Key(nc[i].tok) = key}

ClapAccepts(nc) ==
  /\ \A i \in 1..Len(nc) :
       /\ Key(nc[i].tok) \in SWITCHES \cup VALUE_FLAGS
       /\ Len(ValuesOf(nc[i])) = IF Key(nc[i].tok) \in VALUE_FLAGS THEN 1 ELSE 0
       /\ \A j \in 1..Len(nc[i].values) : nc[i].values[j] \notin Dashed
  /\ \A key \in SWITCHES \cup {"--nc-exec"} : Cardinality(Named(nc, key)) <= 1

ValuesFor(nc, key) == {ValuesOf(nc[i])[1] : i \in Named(nc, key)}

(* PatternSet::compile: one bad pattern refuses the command line           *)
Compiles(globs) == globs \cap NotGlob = {}

Rejected == [rejected |-> TRUE]

parse_argv(argv) ==
  LET w == Walk(argv)
      Globs(key) == ValuesFor(w.nc_bucket, key)
      exec == ValuesFor(w.nc_bucket, "--nc-exec")
  IN  IF \/ w.pending                          \* a flag without its value
         \/ ~ClapAccepts(w.nc_bucket)
         \/ ~Compiles(Globs("--nc-include") \cup Globs("--nc-exclude"))
      THEN Rejected
      ELSE [rejected |-> FALSE,
            flags |-> {Key(w.nc_bucket[i].tok) : i \in 1..Len(w.nc_bucket)} \cap SWITCHES,
            includes |-> Globs("--nc-include"),
            excludes |-> Globs("--nc-exclude"),
            child_args |-> w.child_bucket,
            child_prog |-> IF exec = {} THEN "nix-shell" ELSE CHOOSE prog \in exec : TRUE]

-----------------------------------------------------------------------------
(* What the pass should come to, said of whole command lines.              *)

(* The positions whose token is the value of the one before it, as far as  *)
(* the first separator; such a value may itself read "--".  Of a run of    *)
(* flags that take a value, every other one is the value of the one before.*)
Swallowed(argv) ==
  {i \in 1..Len(argv) : \E k \in 1..i - 1 :
     /\ \A j \in k..i - 1 : TakesNext(argv[j])
     /\ k = 1 \/ ~TakesNext(argv[k - 1])
     /\ (i - k) % 2 = 1}

Separators(argv) == {i \in 1..Len(argv) : argv[i] = SEPARATOR} \ Swallowed(argv)
Before(argv, i) == \A s \in Separators(argv) : i < s
FirstSeparator(argv) == {s \in Separators(argv) : \A r \in Separators(argv) : s <= r}

(* The tokens of nocruft's own, which are neither values nor behind the    *)
(* separator, and what goes with them                                      *)
Own(argv) ==
  {i \in 1..Len(argv) \ Swallowed(argv) : Before(argv, i) /\ argv[i] \in BARE_NC_FLAGS \cup NcToken}
Removed(argv) ==
  FirstSeparator(argv) \cup Own(argv) \cup {i \in Swallowed(argv) : Before(argv, i)}

(* How many members of a set of positions there are as far as i            *)
Rank(set, i) == Cardinality({j \in set : j <= i})

Rest(argv) ==
  LET kept == 1..Len(argv) \ Removed(argv)
  IN  [k \in 1..Cardinality(kept) |-> argv[CHOOSE i \in kept : Rank(kept, i) = k]]

(* The values given with a flag                                            *)
Given(argv, key) ==
  {IF argv[i] \in DOMAIN Inline THEN Inline[argv[i]].value ELSE argv[i + 1] :
     i \in {j \in Own(argv) : Key(argv[j]) = key}}
=============================================================================
