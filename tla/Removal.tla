------------------------------- MODULE Removal -------------------------------
(* What nocruft promises of its deletion, without filters, prompt, order or *)
(* looks.  It removes by name: others may change the files and where a name *)
(* leads as they like, and what goes is what a name that was asked for      *)
(* leads to at that moment, one place at a time, with nothing in it.        *)
(* Nocruft does not change its mind once it has begun, and makes no name    *)
(* lead elsewhere itself.  It does not promise to get all.                  *)
CONSTANTS
  Site,     \* where files may be
  Within,   \* the directory a site is in
  Name,     \* what is asked for
  Nowhere

VARIABLES
  there,    \* the sites that hold a file
  leads,    \* the site a name leads to, or Nowhere
  asked,    \* the names to be removed
  gone      \* what it has removed: a name and the site it led to

removalVars == <<there, leads, asked, gone>>

(* A filesystem: what is there is in a directory that is there.             *)
IsTree(sites) == \A x \in sites : Within[x] \in Site => Within[x] \in sites

RemovalInit ==
  /\ there \in SUBSET Site /\ IsTree(there)
  /\ leads \in [Name -> Site \cup {Nowhere}]
  /\ asked = {} /\ gone = {}

Others ==
  /\ there' \in SUBSET Site /\ IsTree(there')
  /\ leads' \in [Name -> Site \cup {Nowhere}]
  /\ UNCHANGED <<asked, gone>>

Ask ==
  /\ gone = {} /\ asked' \in SUBSET Name
  /\ UNCHANGED <<there, leads, gone>>

(* With a directory or a link the names that pass it lead nowhere.          *)
RemoveOne ==
  \E n \in asked :
    LET x == leads[n]
    IN  /\ x \in there /\ \A y \in there : Within[y] # x
        /\ there' = there \ {x} /\ gone' = gone \cup {[path |-> n, place |-> x]}
        /\ leads' \in [Name -> Site \cup {Nowhere}]
        /\ \A m \in Name : leads'[m] \in {leads[m], Nowhere}
        /\ UNCHANGED asked

RemovalNext == Others \/ Ask \/ RemoveOne

RemovalSpec == RemovalInit /\ [][RemovalNext]_removalVars
=============================================================================
