------------------------- MODULE MCDeploymentQueue -------------------------
(* Instances of DeploymentQueue for TLC: two versions of one model, promoted  *)
(* as far as a run asks.  NewModel has been registered since the start-up;    *)
(* Compressor is compressor-anomaly-detector of the sample data: v1 runs in   *)
(* production, v2 was refused there and is VALIDATED only.                    *)
EXTENDS DeploymentQueue, TLC

CONSTANTS v1, v2

OneModel == [v \in Versions |-> "model"]
AllInProduction == [v \in Versions |-> "PRODUCTION"]
OneOnlyApproved == [v \in Versions |-> IF v = v1 THEN "PRODUCTION" ELSE "APPROVED"]
OneOnlyValidated == [v \in Versions |-> IF v = v1 THEN "PRODUCTION" ELSE "VALIDATED"]

NewModel == <<>>
Compressor ==
  << [version |-> v1, environment |-> "PRODUCTION", error |-> "null"],
     [version |-> v2, environment |-> "PRODUCTION", error |-> "approval_validation_failed"] >>

ProcessSymmetry == Permutations(Workers) \union Permutations(Handlers)
=============================================================================
