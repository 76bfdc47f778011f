------------------------------- MODULE MCFleet -------------------------------
(* Fleet for TLC. *)
EXTENDS Fleet, TLC

\* Keys, names and workers are interchangeable.
Interchangeable ==
  Permutations(Proc) \cup Permutations(Id) \cup Permutations(Name)
=============================================================================
