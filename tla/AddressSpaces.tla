--------------------------- MODULE AddressSpaces ----------------------------
(***************************************************************************)
(* What the page-table code promises: each directory is a map from virtual *)
(* pages to entries.  Mapping or unmapping a page changes that page of the *)
(* current directory and nothing else; an attempt that runs out of memory  *)
(* leaves every map as it was.                                             *)
(***************************************************************************)
CONSTANTS Dirs, Virts,
          Entries,    \* what a page may be mapped to
          Unmapped,   \* the entry of a page that is not mapped, no member of Entries
          First       \* the directory the kernel starts with, a member of Dirs

VARIABLES space,      \* [Dirs -> [Virts -> Entries \cup {Unmapped}]]
          current

vars == <<space, current>>

Init ==
  /\ space = [d \in Dirs |-> [v \in Virts |-> Unmapped]]
  /\ current = First

Map(v) ==
  /\ space'[current][v] \in Entries
  /\ space' = [space EXCEPT ![current][v] = space'[current][v]]
  /\ UNCHANGED current

Unmap(v) ==
  /\ space[current][v] # Unmapped
  /\ space' = [space EXCEPT ![current][v] = Unmapped]
  /\ UNCHANGED current

Switch(d) == current' = d /\ UNCHANGED space

Next ==
  \/ \E v \in Virts : Map(v) \/ Unmap(v)
  \/ \E d \in Dirs : Switch(d)

Spec == Init /\ [][Next]_vars
=============================================================================
