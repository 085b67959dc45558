-------------------------- MODULE MCEmployeeBuilder --------------------------
(* Instances of EmployeeBuilder for TLC.                                   *)
EXTENDS EmployeeBuilder, TLC

Symmetry == Permutations(Routines) \cup Permutations(Answers)

\* An endpoint that is overtaken is not explored further: it ends in a race,
\* of which the properties do not speak, or gives up and changes nothing.
NotOvertaken == ~raced /\ ~Overtaken
=============================================================================
