------------------------------ MODULE MCBuilds ------------------------------
(* Instances of NodeBuild and ContainerBuild for TLC: the portal's side of  *)
(* a build, and the controller that ExecutionContract stands for in it.  A  *)
(* behaviour is one of the one or of the other.                             *)
EXTENDS NodeBuild, ContainerBuild

CONSTANTS b1, b2, w1, w2, x1, x2

VARIABLE part

mcVars == <<vars, controlVars, part>>

MCInit == part \in {"portal", "controller"} /\ Init /\ ControlInit

MCNext == \/ part = "portal" /\ Next /\ UNCHANGED <<controlVars, part>>
          \/ part = "controller" /\ ControlNext /\ UNCHANGED <<vars, part>>

\* Nothing of the part that was not chosen is enabled at its initial state.
MCSpec == MCInit /\ [][MCNext]_mcVars /\ Fairness /\ ControlFairness
=============================================================================
