------------------------ MODULE MCArtifactLifecycle ------------------------
(* Instances of ArtifactLifecycle for the model checker. *)
EXTENDS ArtifactLifecycle, TLC

\* Accounts, ids and request handlers are interchangeable.
Symmetry == Permutations(Users) \cup Permutations(Rows) \cup Permutations(Procs)
=============================================================================
