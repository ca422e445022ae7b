----------------------- MODULE MCContainerDeployment -----------------------
(* Instances of ContainerDeployment for TLC.                               *)
EXTENDS ContainerDeployment

CONSTANTS r1, r2
=============================================================================
