-------------------------- MODULE MCAutomationOutbox --------------------------
(* Instances of AutomationOutbox for TLC.                                  *)
EXTENDS AutomationOutbox, TLC

Symmetry == Permutations(Dispatchers)
=============================================================================
