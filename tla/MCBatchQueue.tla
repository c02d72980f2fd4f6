---------------------------- MODULE MCBatchQueue ----------------------------
(* BatchQueue with files of sizes that matter.                             *)
EXTENDS BatchQueue

CONSTANTS small, half, big, doc

\* Two files of half the batch limit fit, a third does not; big is above the
\* limit of one file, and doc is out of scope.
MCSize == small :> 1 @@ half :> 2 @@ big :> 4 @@ doc :> 1
=============================================================================
