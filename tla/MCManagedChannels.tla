-------------------------- MODULE MCManagedChannels --------------------------
(* Instances of ManagedChannels for TLC.                                   *)
EXTENDS ManagedChannels, TLC

\* A connection with any key or without one, and a wiped one.
MCTyped == [state : {"connected"}, key : ConnectionKeys \cup {NoKey},
            cleanup : {"none"}]
           \cup {[state |-> "requested", key |-> NoKey, cleanup |-> "none"]}

Symmetry == Permutations(Requests) \cup Permutations(ConnectionKeys)

\* After an overwritten row, or a PUT that rerouted a live channel, neither
\* invariant claims anything ever more.
Claimed == mishaps \cap {"overtaken", "rerouted"} = {}
=============================================================================
