------------------------------ MODULE MCFleet ------------------------------
(* Instances of ContainerDeployment and FleetRuntime for TLC.  A project   *)
(* has one kind: a behaviour is one of the one or of the other.            *)
EXTENDS ContainerDeployment, FleetRuntime

CONSTANTS r1, r2

VARIABLE part

mcVars == <<vars, fleetVars, part>>

MCInit == part \in {"container", "image"} /\ Init /\ FleetInit
            /\ (part = "container" => kind = "static")
            /\ (part = "image" => candidates = "no")

MCNext == \/ part = "container" /\ Next /\ UNCHANGED <<fleetVars, part>>
          \/ part = "image" /\ FleetNext /\ UNCHANGED <<vars, part>>

MCSpec == MCInit /\ [][MCNext]_mcVars /\ (part = "container" => Fairness)
=============================================================================
