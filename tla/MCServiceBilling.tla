--------------------------- MODULE MCServiceBilling ---------------------------
(* Instances of ServiceBilling for TLC.                                    *)
EXTENDS ServiceBilling, TLC

Symmetry == Permutations(Handlers)

\* A fault or a change of the customer's or the administrator's, not both.
OneUpset == faults + changes <= 1
=============================================================================
