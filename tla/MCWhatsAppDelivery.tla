-------------------------- MODULE MCWhatsAppDelivery --------------------------
(* Instances of WhatsAppDelivery for TLC.                                  *)
EXTENDS WhatsAppDelivery, TLC

Symmetry == Permutations(Observers)
=============================================================================
