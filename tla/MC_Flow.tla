------------------------------ MODULE MC_Flow ------------------------------
(***************************************************************************)
(* Small instances of FlowEdit.                                            *)
(***************************************************************************)
EXTENDS FlowEdit, TLC

\* The empty graph, and what nobody stops a caller from saving: one id used
\* twice, and an edge to a node that is not there.
MCDraft ==
  {Empty} \cup
  {[nodes |-> [i \in {1, 2} |-> [id |-> n, place |-> p]],
    edges |-> {[source |-> n, target |-> m] : m \in NodeId \ {n}}] : n \in NodeId, p \in Place}

Symmetry == Permutations(Caller) \cup Permutations(NodeId) \cup Permutations(Place)
=============================================================================
