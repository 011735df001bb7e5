-------------------------- MODULE MCDeploymentPage --------------------------
(* An instance of DeploymentPage for TLC: one slot and pages of one row, so   *)
(* that a second deployment moves the first to the next page.                 *)
EXTENDS DeploymentPage

CONSTANTS v1, v2

OneModel == [v \in Versions |-> "model"]
OneSuccess == << [version |-> v1, environment |-> "PRODUCTION", status |-> "SUCCEEDED",
                  rolled_back_to_id |-> 0] >>
=============================================================================
