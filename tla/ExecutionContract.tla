------------------------- MODULE ExecutionContract -------------------------
(***************************************************************************)
(* What a build executor promises the portal (the interfaces               *)
(* NodeExecutionSubmitter, NodeExecutionReader and NodeArtifactReader): an *)
(* execution is accepted once, runs once, and once it is retired neither   *)
(* its outcome changes nor can it start again.  ContainerBuild implements  *)
(* it.                                                                     *)
(***************************************************************************)
CONSTANT Builds   \* a build is claimed once, so it is its execution too

VARIABLE exec     \* what the executor has promised of each execution

Retired == {"succeeded", "failed"}

ExecTypeOK == exec \in [Builds -> {"none", "accepted", "running"} \cup Retired]

ExecInit == exec = [b \in Builds |-> "none"]

\* The request is recorded; nothing promises that it will ever run.
Accept(b) ==
  /\ exec[b] = "none"
  /\ exec' = [exec EXCEPT ![b] = "accepted"]

Launch(b) ==
  /\ exec[b] = "accepted"
  /\ exec' = [exec EXCEPT ![b] = "running"]

\* The customer's code has stopped and the outcome is recorded.
Retire(b) ==
  /\ exec[b] = "running"
  /\ \E o \in Retired : exec' = [exec EXCEPT ![b] = o]

ExecNext == \E b \in Builds : Accept(b) \/ Launch(b) \/ Retire(b)

ExecSpec == ExecInit /\ [][ExecNext]_exec
=============================================================================
