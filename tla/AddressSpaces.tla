---------------------------- MODULE AddressSpaces ----------------------------
(***************************************************************************)
(* What the kernel expects of its 4 GB chunks: each is a map from virtual  *)
(* pages to page entries of its own. It starts as the identity, a mapping  *)
(* changes one page of one space, and a space comes and goes as a whole.   *)
(***************************************************************************)
EXTENDS Integers

CONSTANTS VirtualPages,     \* the pages of an address space
          Flags             \* the low bits of an entry

VARIABLE spaces             \* the entry of each page, for each address space

Identity(flags) == [v \in VirtualPages |-> [frame |-> v, flags |-> flags]]

Init == spaces = <<>>

\* The spaces of C are left as they are.
Keeps(C) == \A c \in C : spaces'[c] = spaces[c]

Create == \E c \in DOMAIN spaces' \ DOMAIN spaces :
             /\ DOMAIN spaces' = DOMAIN spaces \cup {c}
             /\ \E flags \in SUBSET Flags : spaces'[c] = Identity(flags)
             /\ Keeps(DOMAIN spaces)

Map == \E c \in DOMAIN spaces, v \in VirtualPages :
          /\ DOMAIN spaces' = DOMAIN spaces
          /\ \A w \in VirtualPages \ {v} : spaces'[c][w] = spaces[c][w]
          /\ Keeps(DOMAIN spaces \ {c})

Destroy == \E c \in DOMAIN spaces :
              /\ DOMAIN spaces' = DOMAIN spaces \ {c}
              /\ Keeps(DOMAIN spaces')

Next == Create \/ Map \/ Destroy

Spec == Init /\ [][Next]_spaces
===============================================================================
