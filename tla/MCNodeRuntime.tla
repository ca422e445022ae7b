--------------------------- MODULE MCNodeRuntime ---------------------------
(* Instances of NodeRuntime for TLC.                                       *)
EXTENDS NodeRuntime

CONSTANTS s1, s2, c1

\* The first and the third operation deploy the same archive.
MCArtifact == [o \in Ops |-> o % 2]
=============================================================================
