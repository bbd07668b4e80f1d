------------------------------- MODULE MCPort -------------------------------
(***************************************************************************)
(* Instances of Port for TLC, one per behaviour: two read ports of one     *)
(* write port and their group, or two write ports of one name and one       *)
(* packet each.                                                            *)
(***************************************************************************)
EXTENDS Port

VARIABLE scene

MCInit == PortInit /\ scene \in {"group", "names"}

InScene ==
  \/ /\ scene = "group"
     /\ Cardinality({w \in WPorts : wp'[w].magic # "none"}) <= 1
  \/ /\ scene = "names"
     /\ Cardinality({r \in RPorts : rp'[r].magic # "none"}) <= 1
     /\ \A w \in WPorts : written'[w] <= 1
     /\ UNCHANGED pg

MCNext == PortNext /\ InScene /\ UNCHANGED scene
MCSpec == MCInit /\ [][MCNext]_<<portvars, scene>>

(* Threads, read ports and write ports are interchangeable. *)
Symmetry == Permutations(Readers) \cup Permutations(RPorts) \cup Permutations(WPorts)
=============================================================================
