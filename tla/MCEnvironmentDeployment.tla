---------------------- MODULE MCEnvironmentDeployment ----------------------
(* Small instances of EnvironmentDeployment for TLC. *)
EXTENDS EnvironmentDeployment
CONSTANTS a1, a2, b1
OneApp == {a1}
TwoApps == {a1, a2}
OneBalancer == {b1}
NoBalancers == {}
=============================================================================
