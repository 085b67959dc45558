-------------------------- MODULE MCWhatsAppHandoff --------------------------
(* Instances of WhatsAppHandoff for TLC.                                   *)
EXTENDS WhatsAppHandoff, TLC

Symmetry == Permutations(Replies) \cup Permutations(Commands)
=============================================================================
