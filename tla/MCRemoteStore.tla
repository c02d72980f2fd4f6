--------------------------- MODULE MCRemoteStore ---------------------------
(* Instances of RemoteStore for the model checker. *)
EXTENDS RemoteStore, TLC

\* Keys and requests are interchangeable.
Symmetry == Permutations(Keys) \cup Permutations(Procs)
=============================================================================
