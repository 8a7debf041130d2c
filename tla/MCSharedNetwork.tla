-------------------------- MODULE MCSharedNetwork --------------------------
(* Instances of SharedNetwork for TLC. *)
EXTENDS SharedNetwork, TLC

MCEnvs == {{}, {"damage"}}
SameEnvs == {{"same"}}

Symmetry == Permutations(Procs) \cup Permutations(Names)
=============================================================================
