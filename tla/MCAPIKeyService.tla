-------------------------- MODULE MCAPIKeyService --------------------------
(* Instances of APIKeyService for TLC; the .cfg files choose the constants. *)
EXTENDS APIKeyService, TLC

\* Validations, instances and keys are interchangeable.
Symmetry == Permutations(Request) \cup Permutations(Instance) \cup Permutations(Key)
=============================================================================
