------------------------------ MODULE OpenFiles ------------------------------
(***************************************************************************)
(* What the callers of fopen expect of a descriptor: a number of its own,  *)
(* that stands from then on for an entry the path they gave leads to.      *)
(***************************************************************************)
EXTENDS Integers

CONSTANT Descriptors     \* the numbers

VARIABLES directory,     \* the entries each path leads to
          open           \* what was opened: path, number and entry

Init == open = {}

Open(o) == /\ o.fd \in Descriptors
           /\ \A p \in open : p.fd # o.fd
           /\ o.entry \in directory[o.path]
           /\ open' = open \cup {o}
           /\ UNCHANGED directory

Next == \E o \in open' : Open(o)

Spec == Init /\ [][Next]_<<directory, open>>
==============================================================================
