---------------------------- MODULE MCWhatsAppTurn ----------------------------
(* Instances of WhatsAppTurn for TLC.                                      *)
EXTENDS WhatsAppTurn

Symmetry == Permutations(Runs)
=============================================================================
