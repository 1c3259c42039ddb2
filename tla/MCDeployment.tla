----------------------------- MODULE MCDeployment -----------------------------
(* A TLC instance of Deployment: three releases, of which the first neither   *)
(* names its version nor has message_edits, and the third is a major one.     *)
EXTENDS Deployment

MCMajor == [v \in Releases |-> IF v = 3 THEN 2 ELSE 1]
MCReporting == Releases \ {1}
MCWithEdits == Releases \ {1}
==============================================================================
