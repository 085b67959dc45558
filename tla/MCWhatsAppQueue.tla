--------------------------- MODULE MCWhatsAppQueue ---------------------------
(* Instances of WhatsAppQueue for TLC.                                     *)
EXTENDS WhatsAppQueue

Symmetry == Permutations(Workers) \cup Permutations(Jobs)
=============================================================================
