---------------------------- MODULE MCGatewayTurn ----------------------------
(* GatewayTurn for TLC: requests are interchangeable, and so are messages. *)
EXTENDS GatewayTurn, TLC

Symmetry == Permutations(Requests) \cup Permutations(Messages)

\* Bound: nothing after a wrong reconciliation.
NoMisjudgement == misjudged = {}
=============================================================================
