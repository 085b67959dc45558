-------------------------- MODULE MCBusinessActions --------------------------
(* Instances of BusinessActions for TLC.                                   *)
EXTENDS BusinessActions, TLC

Symmetry == Permutations(Requests) \cup Permutations(Sessions)

\* Requests meet in the slot only: without a schedule one request is enough.
\* The callbacks of the workflow engine multiply: fewer turns and late calls.
Bounded ==
    /\ Slotted \/ Cardinality({r \in Requests : row[r].status # "none"}) <= 1
    /\ policy.route = "native" =>
          /\ turns <= 2
          /\ Cardinality(wire) + Cardinality(hooks) <= 2
=============================================================================
