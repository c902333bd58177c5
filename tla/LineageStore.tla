---------------------------- MODULE LineageStore ----------------------------
(***************************************************************************)
(* What a feature registry promises about lineage, whatever the handlers of *)
(* the server do to get there: an entity refers to entities that exist, and *)
(* to the same ones from its creation to its deletion.                      *)
(***************************************************************************)
EXTENDS Integers

VARIABLES
  nodes,          \* the entities that exist
  refs,           \* <<a, b>>: a refers to b
  fresh           \* ids from here on were never used

Init == nodes = {} /\ refs = {} /\ fresh = 1

\* An entity is created with a new id, and refers to entities that exist.
Create ==
  /\ nodes' = nodes \cup {fresh}
  /\ refs \subseteq refs'
  /\ refs' \ refs \subseteq {fresh} \X nodes
  /\ fresh' = fresh + 1

\* An entity may go when no entity refers to it.
Delete ==
  \E gone \in nodes :
    /\ nodes' = nodes \ {gone}
    /\ \A r \in refs : r[2] # gone
    /\ refs' = {r \in refs : r[1] # gone}
    /\ UNCHANGED fresh

Next == Create \/ Delete

Spec == Init /\ [][Next]_<<nodes, refs, fresh>>

=============================================================================
