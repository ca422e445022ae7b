--------------------------- MODULE ContainerBuild --------------------------
(***************************************************************************)
(* The build controller of internal/containerbuild: one Docker container   *)
(* per execution, a durable record that is never reused, and a watch that  *)
(* inspects every record each second.  Calls hold one mutex; the process   *)
(* may stop between any two of its effects, Docker goes on without it, and *)
(* the machine may lose power.                                             *)
(***************************************************************************)
EXTENDS Naturals

CONSTANTS
  Executions,
  NoExecution,
  MaxReboots   \* bound on losses of power

ASSUME ContainerAssumption ==
  /\ NoExecution \notin Executions
  /\ MaxReboots \in Nat

VARIABLES
  record,     \* the saved record of each execution
  archive,    \* executions with an artifact file
  output,     \* their output file systems
  container,  \* their containers; "asked": docker run was cut off and may yet work
  late,       \* executions whose NotAfter has passed
  control,    \* which call holds the mutex, and where it is
  draining,   \* "yes" from Shutdown until the process ends
  reboots

controlVars == <<record, archive, output, container, late, control, draining, reboots>>

Record == [state    : {"none", "submitted", "succeeded", "failed"},
           artifact : {"yes", "no"},
           cleaned  : {"yes", "no"}]

Control == [at : {"down", "idle", "start", "killed", "cleanup", "cleaned", "exported", "shutdown"},
            on : Executions \cup {NoExecution}]

Idle == [at |-> "idle", on |-> NoExecution]
Down == [at |-> "down", on |-> NoExecution]

ControlTypeOK ==
  /\ record \in [Executions -> Record]
  /\ archive \subseteq Executions
  /\ output \in [Executions -> {"none", "mounted", "unmounted"}]
  /\ container \in [Executions -> {"absent", "asked", "running", "exit0", "exit1"}]
  /\ late \subseteq Executions
  /\ control \in Control
  /\ draining \in {"yes", "no"}
  /\ reboots \in 0..MaxReboots

ControlInit ==
  /\ record = [x \in Executions |-> [state |-> "none", artifact |-> "no", cleaned |-> "no"]]
  /\ archive = {}
  /\ output = [x \in Executions |-> "none"]
  /\ container = [x \in Executions |-> "absent"]
  /\ late = {}
  /\ control = Idle
  /\ draining = "no"
  /\ reboots = 0

At(x, a) == control = [at |-> a, on |-> x]

GoTo(x, a) == control' = [at |-> a, on |-> x]

Exited(x) == container[x] \in {"exit0", "exit1"}

Outcome(x) == IF container[x] = "exit0" THEN "succeeded" ELSE "failed"

Save(x, state) == record' = [record EXCEPT ![x] = [@ EXCEPT !.state = state]]

-----------------------------------------------------------------------------
(* SubmitNodeExecution.                                                    *)

\* Mutant: only an execution that is still submitted counts as known.
SubmitRetired(x) ==
  /\ control = Idle /\ draining = "no"
  /\ record[x].state # "submitted"
  /\ x \notin late
  /\ Save(x, "submitted")
  /\ GoTo(x, "start")
  /\ UNCHANGED <<archive, output, container, late, draining, reboots>>

\* A known execution is answered from its record, whatever became of it.
Submit(x) ==
  /\ control = Idle /\ draining = "no"
  /\ record[x].state = "none"
  /\ x \notin late
  /\ Save(x, "submitted")
  /\ GoTo(x, "start")
  /\ UNCHANGED <<archive, output, container, late, draining, reboots>>

Start(x) ==
  /\ At(x, "start")
  /\ output' = [output EXCEPT ![x] = "mounted"]
  /\ container' = [container EXCEPT ![x] = "running"]
  /\ control' = Idle
  /\ UNCHANGED <<record, archive, late, draining, reboots>>

\* A command fails or the request's context ends; docker run may be with the
\* daemon by then. There is no second attempt.
StartFails(x) ==
  /\ At(x, "start")
  /\ \/ UNCHANGED <<output, container>>
     \/ /\ output' = [output EXCEPT ![x] = "mounted"]
        /\ container' \in {container, [container EXCEPT ![x] = "asked"]}
  /\ control' = Idle
  /\ UNCHANGED <<record, archive, late, draining, reboots>>

-----------------------------------------------------------------------------
(* Docker and the clock.                                                   *)

DaemonDecides(x) ==
  /\ container[x] = "asked"
  /\ container' \in {[container EXCEPT ![x] = s] : s \in {"running", "absent"}}
  /\ UNCHANGED <<record, archive, output, late, control, draining, reboots>>

GuestExits(x) ==
  /\ container[x] = "running"
  /\ container' \in {[container EXCEPT ![x] = s] : s \in {"exit0", "exit1"}}
  /\ UNCHANGED <<record, archive, output, late, control, draining, reboots>>

DeadlinePasses(x) ==
  /\ record[x].state # "none" /\ x \notin late
  /\ late' = late \cup {x}
  /\ UNCHANGED <<record, archive, output, container, control, draining, reboots>>

-----------------------------------------------------------------------------
(* InspectNodeExecution, from the portal or from the watch.                *)

\* A stopped container retires its execution; a failed one is cleaned up.
RetireExited(x) ==
  /\ control = Idle
  /\ record[x].state = "submitted" /\ Exited(x)
  /\ Save(x, Outcome(x))
  /\ IF Outcome(x) = "failed" THEN GoTo(x, "cleanup") ELSE UNCHANGED control
  /\ UNCHANGED <<archive, output, container, late, draining, reboots>>

\* docker kill; the guest may end by itself just before.
KillLate(x) ==
  /\ control = Idle
  /\ record[x].state = "submitted" /\ container[x] = "running" /\ x \in late
  /\ container' \in {[container EXCEPT ![x] = s] : s \in {"exit0", "exit1"}}
  /\ GoTo(x, "killed")
  /\ UNCHANGED <<record, archive, output, late, draining, reboots>>

RetireKilled(x) ==
  /\ At(x, "killed")
  /\ Save(x, "failed")
  /\ GoTo(x, "cleanup")
  /\ UNCHANGED <<archive, output, container, late, draining, reboots>>

\* Mutant: no container, nothing to clean up.
InspectContainer(x) ==
  /\ control = Idle
  /\ record[x].state = "failed" /\ record[x].cleaned = "no" /\ container[x] # "absent"
  /\ GoTo(x, "cleanup")
  /\ UNCHANGED <<record, archive, output, container, late, draining, reboots>>

InspectUncleaned(x) ==
  /\ control = Idle
  /\ record[x].state = "failed" /\ record[x].cleaned = "no"
  /\ GoTo(x, "cleanup")
  /\ UNCHANGED <<record, archive, output, container, late, draining, reboots>>

\* An error of docker rm is dropped: the stopped container may stay, and nothing
\* asks for it again.
Cleanup(x) ==
  /\ At(x, "cleanup")
  /\ container' \in {container, [container EXCEPT ![x] = "absent"]}
  /\ output' = [output EXCEPT ![x] = "none"]
  /\ GoTo(x, "cleaned")
  /\ UNCHANGED <<record, archive, late, draining, reboots>>

\* docker rm may have worked, umount may have.
CleanupFails(x) ==
  /\ At(x, "cleanup")
  /\ container' \in {container, [container EXCEPT ![x] = "absent"]}
  /\ output' \in {output, [output EXCEPT ![x] = "unmounted"]}
  /\ control' = Idle
  /\ UNCHANGED <<record, archive, late, draining, reboots>>

SaveCleaned(x) ==
  /\ At(x, "cleaned")
  /\ record' = [record EXCEPT ![x] = [@ EXCEPT !.cleaned = "yes"]]
  /\ control' = Idle
  /\ UNCHANGED <<archive, output, container, late, draining, reboots>>

-----------------------------------------------------------------------------
(* ReadNodeArtifact.                                                       *)

\* The glob over the mounted output finds the build, and it is exported to a
\* file.
Readable(x) == output[x] = "mounted"

\* Mutant: the output is cleaned up before the record names the artifact.
ExportThenClean(x) ==
  /\ control = Idle
  /\ record[x].state = "succeeded" /\ record[x].artifact = "no"
  /\ Readable(x)
  /\ archive' = archive \cup {x}
  /\ GoTo(x, "cleanup")
  /\ UNCHANGED <<record, output, container, late, draining, reboots>>

ExportArtifact(x) ==
  /\ control = Idle
  /\ record[x].state = "succeeded" /\ record[x].artifact = "no"
  /\ Readable(x)
  /\ archive' = archive \cup {x}
  /\ GoTo(x, "exported")
  /\ UNCHANGED <<record, output, container, late, draining, reboots>>

SaveArtifact(x) ==
  /\ At(x, "exported")
  /\ record' = [record EXCEPT ![x] = [@ EXCEPT !.artifact = "yes"]]
  /\ GoTo(x, "cleanup")
  /\ UNCHANGED <<archive, output, container, late, draining, reboots>>

-----------------------------------------------------------------------------
(* Stops.                                                                  *)

Shutdown ==
  /\ control = Idle
  /\ GoTo(NoExecution, "shutdown")
  /\ draining' = "yes"
  /\ UNCHANGED <<record, archive, output, container, late, reboots>>

ShutdownKills(x) ==
  /\ At(NoExecution, "shutdown")
  /\ record[x].state = "submitted" /\ container[x] = "running"
  /\ container' \in {[container EXCEPT ![x] = s] : s \in {"exit0", "exit1"}}
  /\ UNCHANGED <<record, archive, output, late, control, draining, reboots>>

\* What was killed counts by its exit code here, too.
ShutdownRetires(x) ==
  /\ At(NoExecution, "shutdown")
  /\ record[x].state = "submitted" /\ Exited(x)
  /\ Save(x, Outcome(x))
  /\ UNCHANGED <<archive, output, container, late, control, draining, reboots>>

ShutdownEnds ==
  /\ At(NoExecution, "shutdown")
  /\ \A x \in Executions : record[x].state # "submitted"
  /\ control' = Down
  /\ UNCHANGED <<record, archive, output, container, late, draining, reboots>>

\* A submitted execution has no container, or Docker fails: the process ends,
\* or goes on refusing submissions when a project was to be deleted.
ShutdownFails ==
  /\ At(NoExecution, "shutdown")
  /\ control' \in {Idle, Down}
  /\ UNCHANGED <<record, archive, output, container, late, draining, reboots>>

\* A save or a command fails before it has an effect; the call ends.
CallFails ==
  /\ control.on # NoExecution
  /\ control' = Idle
  /\ UNCHANGED <<record, archive, output, container, late, draining, reboots>>

Crash ==
  /\ control.at # "down"
  /\ control' = Down
  /\ UNCHANGED <<record, archive, output, container, late, draining, reboots>>

Restart ==
  /\ control.at = "down"
  /\ control' = Idle
  /\ draining' = "no"
  /\ UNCHANGED <<record, archive, output, container, late, reboots>>

\* Saved files survive; containers are not restarted and nothing mounts the
\* output file systems again.
LosePower ==
  /\ reboots < MaxReboots
  /\ reboots' = reboots + 1
  /\ control' = Down
  /\ container' = [x \in Executions |->
                     IF container[x] = "running" THEN "exit1"
                     ELSE IF container[x] = "asked" THEN "absent"
                     ELSE container[x]]
  /\ output' = [x \in Executions |-> IF output[x] = "mounted" THEN "unmounted" ELSE output[x]]
  /\ UNCHANGED <<record, archive, late, draining>>

-----------------------------------------------------------------------------

\* What a call does from beginning to end.
CallStep(x) ==
  \/ Start(x) \/ StartFails(x)
  \/ RetireKilled(x) \/ Cleanup(x) \/ CleanupFails(x) \/ SaveCleaned(x) \/ SaveArtifact(x)

Inspect(x) == RetireExited(x) \/ KillLate(x) \/ InspectUncleaned(x)

ControlNext ==
  \/ \E x \in Executions :
       \/ Submit(x) \/ Inspect(x) \/ ExportArtifact(x) \/ CallStep(x)
       \/ DaemonDecides(x) \/ GuestExits(x) \/ DeadlinePasses(x)
       \/ ShutdownKills(x) \/ ShutdownRetires(x)
  \/ Shutdown \/ ShutdownEnds \/ ShutdownFails
  \/ CallFails \/ Crash \/ Restart \/ LosePower

ControlSpec == ControlInit /\ [][ControlNext]_controlVars

\* The watch inspects every record each second while the process runs, calls
\* end, the deadline comes and the service is started again.
ControlFairness ==
  /\ \A x \in Executions :
       /\ WF_controlVars(CallStep(x)) /\ WF_controlVars(DeadlinePasses(x))
       /\ SF_controlVars(Inspect(x) /\ draining = "no")
  /\ WF_controlVars(Restart)

ControlFairSpec == ControlSpec /\ ControlFairness

-----------------------------------------------------------------------------
(* Properties.                                                             *)

\* What the portal is promised.
execution == [x \in Executions |->
  IF record[x].state # "submitted" THEN record[x].state
  ELSE IF container[x] \in {"absent", "asked"} THEN "accepted" ELSE "running"]

Contract == INSTANCE ExecutionContract WITH Builds <- Executions, exec <- execution

\* The controller is the executor that NodeBuild assumes: an identity is
\* launched at most once, whatever is submitted, killed, cleaned up or
\* restarted (SubmitNodeExecution, InspectNodeExecution, Shutdown).
ImplementsContract == Contract!ExecSpec

\* The output of a build that succeeded can be read until its artifact is
\* saved and recorded (ReadNodeArtifact, cleanup).
OutputIsRetained ==
  \A x \in Executions :
    record[x].state = "succeeded" =>
      IF record[x].artifact = "yes" THEN x \in archive ELSE Readable(x)

\* ... which holds while the machine keeps its power, whichever step of a call
\* the process stops at.
OutputSurvivesStops == reboots = 0 => OutputIsRetained

\* A process stop, an error or a failed start-up command.
Mishap ==
  \/ Shutdown \/ Crash \/ LosePower
  \/ CallFails /\ ~\E x \in Executions : CallStep(x) \/ Inspect(x)
  \/ \E x \in Executions : CleanupFails(x)

\* An execution that began is retired after its deadline, also when the
\* controller was down then, its container runs no more, and the output and the
\* files of a failed one are removed and recorded as removed, once stops and
\* errors cease and the controller is not left draining (watch,
\* InspectNodeExecution, cleanup).  A stopped container may stay.
ExecutionsRetire ==
  <>[][~ Mishap]_controlVars /\ <>[](draining = "no") =>
    \A x \in Executions :
      []<>(/\ execution[x] # "running"
           /\ container[x] # "running"
           /\ record[x].state = "failed" => record[x].cleaned = "yes" /\ output[x] = "none")
=============================================================================
