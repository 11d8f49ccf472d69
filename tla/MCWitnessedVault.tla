-------------------------- MODULE MCWitnessedVault --------------------------
EXTENDS WitnessedVault, TLC

(* Objects, versions and keys are interchangeable names. *)
Symmetry == Permutations(Object) \cup Permutations(Version) \cup Permutations(Key)
=============================================================================
