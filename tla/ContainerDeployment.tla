------------------------ MODULE ContainerDeployment ------------------------
(***************************************************************************)
(* Deployments of registry images: releases and their settings, the        *)
(* deployment jobs (internal/portal/container_*.go) and the fleet worker's *)
(* container runtime (internal/fleetdeploy/container_runtime.go and        *)
(* container_advance.go).  One fleet worker works at a time, under an      *)
(* exclusive lock; it submits a job to the deployer once, under the job's  *)
(* own identity, and afterwards only asks about it, advances it, or has it *)
(* withdrawn.  The deployer is external; its calls may be lost, and may    *)
(* arrive after the worker has given up.                                   *)
(*                                                                         *)
(* Jobs are numbered by their revision.  The actor's role, the account and *)
(* the plan may change at any time, and so may the health of the app: each *)
(* check of them is a choice.                                              *)
(***************************************************************************)
EXTENDS Naturals, FiniteSets

CONSTANTS
  MaxJobs,    \* bound: deployments of the project
  MaxCalls,   \* bound: calls under way to the deployer
  Releases,
  NoRelease

ASSUME ContainerAssumption ==
  /\ MaxJobs \in Nat /\ MaxCalls \in Nat
  /\ NoRelease \notin Releases

Jobs  == 1 .. MaxJobs
NoJob == 0

VARIABLES
  release,    \* container_releases, and the preparations under way
  settings,   \* the revision of the settings that the releases name
  job,        \* container_deployments
  late,       \* "yes" once the activation deadline of the running job has passed
  deleting,   \* "yes" once deletion of the project was requested
  op,         \* the worker's saved operation of each job
  fence,      \* the worker's revision fence
  candidates, \* "yes" while candidate operations are enabled
  worker,     \* where the fleet worker is
  wire,       \* calls under way to the deployer
  req,        \* the deployer's request records
  latest,     \* the deployer's latest deployment of the app
  served      \* the job whose release the app runs

portalVars   == <<release, settings, job, late, deleting>>
workerVars   == <<op, fence, candidates, worker>>
deployerVars == <<wire, req, latest, served>>
vars == <<portalVars, workerVars, deployerVars>>

Flag == {"yes", "no"}

Job == [state    : {"none", "queued", "running", "succeeded", "failed", "cancelled"},
        release  : Releases \cup {NoRelease},
        previous : Releases \cup {NoRelease}]

Operation == [stage : {"none", "preparing", "dispatched", "not_submitted", "recovering", "withdrawn"},
              mode  : Flag]

Calls == {"deploy", "advance", "recover", "withdraw"}

Message == [call : Calls, job : Jobs]

\* Where the worker is, the permission it read, the call it waits for, the
\* outcome it saw, and whether its last pass was cut short by a failure.
Worker == [pc      : {"idle", "submit", "fence", "preflight", "send", "await",
                      "advance", "inspect", "commit"},
           job     : Jobs \cup {NoJob},
           allow   : Flag,
           call    : Calls \cup {"none"},
           outcome : {"none", "succeeded", "failed"},
           error   : Flag]

\* The worker at a step of job d, with the permission it read.
Working(pc, d, allow) == [pc |-> pc, job |-> d, allow |-> allow, call |-> "none",
                          outcome |-> "none", error |-> "no"]

Resting == Working("idle", NoJob, "no")

Failed == [Resting EXCEPT !.error = "yes"]

TypeOK ==
  /\ release \in [Releases -> {"none", "resolving", "saved"}]
  /\ settings \in {"none", "kept", "deleted"}
  /\ job \in [Jobs -> Job]
  /\ late \in Flag
  /\ deleting \in Flag
  /\ op \in [Jobs -> Operation]
  /\ fence \in Jobs \cup {NoJob}
  /\ candidates \in Flag
  /\ worker \in Worker
  /\ wire \subseteq Message
  /\ req \in [Jobs -> {"none", "pending", "stopping", "applied", "withdrawn"}]
  /\ latest \in Jobs \cup {NoJob} /\ served \in Jobs \cup {NoJob}
  /\ worker.job = NoJob <=> worker.pc = "idle"

Init ==
  /\ release = [r \in Releases |-> "none"]
  /\ settings = "none"
  /\ job = [d \in Jobs |-> [state |-> "none", release |-> NoRelease, previous |-> NoRelease]]
  /\ late = "no" /\ deleting = "no"
  /\ op = [d \in Jobs |-> [stage |-> "none", mode |-> "no"]]
  /\ fence = NoJob
  /\ candidates \in Flag
  /\ worker = Resting
  /\ wire = {}
  /\ req = [d \in Jobs |-> "none"]
  /\ latest = NoJob /\ served = NoJob

-----------------------------------------------------------------------------
(* What users do.                                                          *)

CreateSettings ==
  /\ deleting = "no"
  /\ settings = "none"
  /\ settings' = "kept"
  /\ UNCHANGED <<release, job, late, deleting, workerVars, deployerVars>>

\* Only a saved release holds its settings back.
DeleteContainerSettings ==
  /\ deleting = "no"
  /\ settings = "kept" /\ ~\E r \in Releases : release[r] = "saved"
  /\ settings' = "deleted"
  /\ UNCHANGED <<release, job, late, deleting, workerVars, deployerVars>>

MayPrepare == deleting = "no" /\ settings = "kept"

\* PrepareContainerRelease: the reference is checked, the registry is asked
\* outside any transaction ...
ResolveImage(r) ==
  /\ release[r] = "none" /\ MayPrepare
  /\ release' = [release EXCEPT ![r] = "resolving"]
  /\ UNCHANGED <<settings, job, late, deleting, workerVars, deployerVars>>

\* ... and the release is saved if everything still holds ...
SaveRelease(r) ==
  /\ release[r] = "resolving" /\ MayPrepare
  /\ release' = [release EXCEPT ![r] = "saved"]
  /\ UNCHANGED <<settings, job, late, deleting, workerVars, deployerVars>>

\* ... or given up: the registry fails, or something changed.
PrepareFails(r) ==
  /\ release[r] = "resolving"
  /\ release' = [release EXCEPT ![r] = "none"]
  /\ UNCHANGED <<settings, job, late, deleting, workerVars, deployerVars>>

Pending(d) == job[d].state \in {"queued", "running"}

\* max(revision) + 1 over every deployment of the project.
IsNextRevision(d) == \A e \in Jobs : job[e].state # "none" <=> e < d

RequestContainerDeployment(d, r) ==
  /\ deleting = "no"
  /\ release[r] = "saved"
  /\ ~\E e \in Jobs : Pending(e)
  /\ IsNextRevision(d)
  /\ job' = [job EXCEPT ![d] = [state |-> "queued", release |-> r, previous |-> NoRelease]]
  /\ UNCHANGED <<release, settings, late, deleting, workerVars, deployerVars>>

CancelContainerDeployment(d) ==
  /\ deleting = "no"
  /\ job[d].state = "queued"
  /\ job' = [job EXCEPT ![d] = [@ EXCEPT !.state = "cancelled"]]
  /\ UNCHANGED <<release, settings, late, deleting, workerVars, deployerVars>>

DeleteProject ==
  /\ deleting = "no"
  /\ ~\E d \in Jobs : Pending(d)
  /\ deleting' = "yes"
  /\ UNCHANGED <<release, settings, job, late, workerVars, deployerVars>>

\* ActivateBefore is ten minutes after the dispatch.
DeadlinePasses ==
  /\ late = "no" /\ \E d \in Jobs : job[d].state = "running"
  /\ late' = "yes"
  /\ UNCHANGED <<release, settings, job, deleting, workerVars, deployerVars>>

-----------------------------------------------------------------------------
(* The fleet worker submits a job.                                         *)

At(pc) == worker.pc = pc

Goto(pc) == worker' = [worker EXCEPT !.pc = pc]

Stage(d, s) == op' = [op EXCEPT ![d] = [@ EXCEPT !.stage = s]]

LatestSucceeded ==
  LET done == {d \in Jobs : job[d].state = "succeeded"}
  IN  IF done = {} THEN NoJob ELSE CHOOSE d \in done : \A e \in done : e <= d

ReleaseOf(d) == IF d = NoJob THEN NoRelease ELSE job[d].release

\* WorkContainerDeployment reconciles a running job before it looks for a
\* queued one.  The job is committed as running before anything is sent, or
\* cancelled if the actor or the plan no longer permits it.
DispatchContainerDeployment(d) ==
  /\ At("idle")
  /\ job[d].state = "queued"
  /\ \/ /\ deleting = "no"
        /\ job' = [job EXCEPT ![d] = [state |-> "running", release |-> @.release,
                                       previous |-> ReleaseOf(LatestSucceeded)]]
        /\ late' = "no"
        /\ worker' = Working("submit", d, "no")
     \/ /\ job' = [job EXCEPT ![d] = [@ EXCEPT !.state = "cancelled"]]
        /\ UNCHANGED <<late, worker>>
  /\ UNCHANGED <<release, settings, deleting, op, fence, candidates, deployerVars>>

\* SubmitContainerRuntime: the operation is saved, then the fence, before any
\* call to the deployer.
SaveOperation ==
  LET d == worker.job IN
  /\ At("submit")
  /\ IF op[d].stage = "none" /\ late = "no" /\ fence <= d
     THEN Stage(d, "preparing") /\ Goto("fence")
     ELSE worker' = Resting /\ UNCHANGED op
  /\ UNCHANGED <<fence, candidates, portalVars, deployerVars>>

SaveFence ==
  /\ At("fence")
  /\ fence' = worker.job
  /\ Goto("preflight")
  /\ UNCHANGED <<op, candidates, portalVars, deployerVars>>

\* Rendering, registering the settings, the preflight or the deadline stops the
\* job: it is recorded that nothing was submitted.
RejectBeforeSubmission ==
  /\ At("preflight") \/ At("send")
  /\ Stage(worker.job, "not_submitted")
  /\ worker' = Resting
  /\ UNCHANGED <<fence, candidates, portalVars, deployerVars>>

\* The preflight passes; the intent to submit is saved ...
SaveDispatched ==
  LET d == worker.job IN
  /\ At("preflight") /\ late = "no"
  /\ settings = "kept"
  /\ op' = [op EXCEPT ![d] = [stage |-> "dispatched", mode |-> candidates]]
  /\ Goto("send")
  /\ UNCHANGED <<fence, candidates, portalVars, deployerVars>>

Call(c, d) ==
  /\ Cardinality(wire) < MaxCalls
  /\ wire' = wire \cup {[call |-> c, job |-> d]}
  /\ worker' = [Working("await", worker.job, worker.allow) EXCEPT !.call = c]

\* ... and the job submitted, once.
DeployAppTracked ==
  /\ At("send") /\ late = "no"
  /\ Call("deploy", worker.job)
  /\ UNCHANGED <<op, fence, candidates, portalVars, req, latest, served>>

\* The deployer has answered: a confirmed withdrawal is saved, anything else is
\* left to reconciliation.
DeployAnswered ==
  LET d == worker.job IN
  /\ At("await") /\ worker.call = "deploy"
  /\ [call |-> "deploy", job |-> d] \notin wire
  /\ IF req[d] = "withdrawn" THEN Stage(d, "withdrawn") ELSE UNCHANGED op
  /\ worker' = Resting
  /\ UNCHANGED <<fence, candidates, portalVars, deployerVars>>

-----------------------------------------------------------------------------
(* The fleet worker reconciles a running job.                              *)

ReconcileContainerDeployment(d) ==
  /\ At("idle")
  /\ job[d].state = "running"
  /\ \E allow \in Flag :
       /\ allow = "yes" => deleting = "no" /\ late = "no"
       /\ worker' = Working("advance", d, allow)
  /\ UNCHANGED <<op, fence, candidates, portalVars, deployerVars>>

\* Mutant: an operation that is being recovered is not taken up again.
AdvancesDispatched(d) ==
  candidates = "yes" /\ op[d].mode = "yes" /\ op[d].stage = "dispatched"

\* Only a candidate operation that was dispatched is advanced.
Advances(d) ==
  /\ candidates = "yes" /\ op[d].mode = "yes"
  /\ op[d].stage \in {"dispatched", "recovering"}

NothingToAdvance ==
  /\ At("advance") /\ ~Advances(worker.job)
  /\ Goto("inspect")
  /\ UNCHANGED <<op, fence, candidates, portalVars, deployerVars>>

MustRecover(d) == op[d].stage = "recovering" \/ worker.allow = "no" \/ late = "yes"

\* What is done about the deployer's record of job d; "none" is a lookup that
\* failed.  Recovery is saved before it is asked for.
Follow(d, record) ==
  \/ /\ record = "none" /\ MustRecover(d)
     /\ Stage(d, "recovering") /\ Call("withdraw", d)
  \/ /\ record = "none" /\ ~MustRecover(d)
     /\ worker' = Failed /\ UNCHANGED <<op, wire>>
  \/ /\ record = "withdrawn"
     /\ Goto("inspect") /\ UNCHANGED <<op, wire>>
  \/ /\ record \in {"pending", "stopping"} /\ MustRecover(d)
     /\ Stage(d, "recovering") /\ Call("recover", d)
  \/ /\ record = "applied" \/ (record \in {"pending", "stopping"} /\ ~MustRecover(d))
     /\ Call("advance", d) /\ UNCHANGED op

AdvanceContainerRuntime ==
  LET d == worker.job IN
  /\ At("advance") /\ Advances(d) /\ fence = d
  /\ Follow(d, req[d])
  /\ UNCHANGED <<fence, candidates, portalVars, req, latest, served>>

\* The lookup does not get through although the record exists.
LookupFails ==
  LET d == worker.job IN
  /\ At("advance") /\ Advances(d) /\ fence = d
  /\ req[d] # "none"
  /\ Follow(d, "none")
  /\ UNCHANGED <<fence, candidates, portalVars, req, latest, served>>

\* The answer to a withdrawal is a record like any other; after the answer to
\* an advance or a recovery the job is inspected.
AdvanceAnswered ==
  LET d == worker.job IN
  /\ At("await") /\ worker.call # "deploy"
  /\ [call |-> worker.call, job |-> d] \notin wire
  /\ IF worker.call = "withdraw" THEN Follow(d, req[d])
     ELSE Goto("inspect") /\ UNCHANGED <<op, wire>>
  /\ UNCHANGED <<fence, candidates, portalVars, req, latest, served>>

\* The app runs release r; that it is healthy too is a choice of the inspection.
HealthyRuntime(r) == served # NoJob /\ ReleaseOf(served) = r

\* healthyContainer also asks for the latest deployment to be healthy.
HealthyContainer(r) == HealthyRuntime(r) /\ req[latest] = "applied"

PreviousServes(d) == job[d].previous = NoRelease \/ HealthyContainer(job[d].previous)

WithdrawnAndRestored(d) ==
  \/ job[d].previous = NoRelease
  \/ latest = d /\ req[d] = "withdrawn" /\ HealthyRuntime(job[d].previous)

\* Mutant: an app that runs the job's release counts, whoever deployed it.
TrackedByRelease(d) ==
  IF HealthyContainer(job[d].release) THEN "succeeded" ELSE "none"

\* Mutant: the deadline is taken for proof of failure.
TrackedByDeadline(d) ==
  CASE req[d] = "applied" /\ latest = d /\ HealthyContainer(job[d].release) -> "succeeded"
    [] late = "yes" -> "failed"
    [] OTHER -> "none"

\* inspectTracked: what the deployer's record of the request establishes.
TrackedOutcome(d) ==
  IF req[d] = "applied" /\ latest = d /\ HealthyContainer(job[d].release)
  THEN "succeeded" ELSE "none"

\* What the worker's record and the deployer's establish about job d.
Outcome(d) ==
  IF op[d].stage \in {"none", "preparing"}
  THEN IF late = "yes" /\ PreviousServes(d) THEN "failed" ELSE "none"
  ELSE IF op[d].stage = "not_submitted"
  THEN IF PreviousServes(d) THEN "failed" ELSE "none"
  ELSE IF op[d].stage = "withdrawn" \/ req[d] = "withdrawn"
  THEN IF WithdrawnAndRestored(d) THEN "failed" ELSE "none"
  ELSE TrackedOutcome(d)

\* A withdrawal the deployer has recorded is saved.
SaveWithdrawal(d) ==
  IF op[d].stage \in {"dispatched", "recovering"} /\ req[d] = "withdrawn"
  THEN Stage(d, "withdrawn") ELSE UNCHANGED op

InspectContainerRuntime ==
  LET d == worker.job IN
  /\ At("inspect") /\ fence <= d
  /\ op[d].stage \in {"dispatched", "recovering"} => fence = d
  /\ SaveWithdrawal(d)
  /\ IF Outcome(d) = "none" THEN worker' = Resting
     ELSE worker' = [Working("commit", d, worker.allow) EXCEPT !.outcome = Outcome(d)]
  /\ UNCHANGED <<fence, candidates, portalVars, deployerVars>>

\* The app, its replicas or its route are not healthy, or do not answer.
InspectedUnhealthy ==
  /\ At("inspect") /\ fence <= worker.job
  /\ SaveWithdrawal(worker.job)
  /\ worker' = Failed
  /\ UNCHANGED <<fence, candidates, portalVars, deployerVars>>

CommitOutcome ==
  LET d == worker.job IN
  /\ At("commit") /\ job[d].state = "running"
  /\ job' = [job EXCEPT ![d] = [@ EXCEPT !.state = worker.outcome]]
  /\ worker' = Resting
  /\ UNCHANGED <<release, settings, late, deleting, op, fence, candidates, deployerVars>>

\* A timeout, an error or the worker's end: nothing is undone.
GiveUp ==
  /\ ~At("idle")
  /\ worker' = Failed
  /\ UNCHANGED <<op, fence, candidates, portalVars, deployerVars>>

\* The operator starts the worker with another configuration.
Reconfigure ==
  /\ At("idle")
  /\ candidates' \in Flag \ {candidates}
  /\ UNCHANGED <<op, fence, worker, portalVars, deployerVars>>

-----------------------------------------------------------------------------
(* The deployer (external), as the fleet worker relies on it: a request    *)
(* has one outcome, and one that is being recovered no longer activates.   *)

\* A submission is recorded unless its identity is known.
HandleDeploy(d) ==
  /\ [call |-> "deploy", job |-> d] \in wire
  /\ wire' = wire \ {[call |-> "deploy", job |-> d]}
  /\ IF req[d] = "none"
     THEN req' = [req EXCEPT ![d] = "pending"] /\ latest' = d
     ELSE UNCHANGED <<req, latest>>
  /\ UNCHANGED <<served, portalVars, workerVars>>

\* The candidate is activated, or not ready yet; nothing happens to another.
HandleAdvance(d) ==
  /\ [call |-> "advance", job |-> d] \in wire
  /\ wire' = wire \ {[call |-> "advance", job |-> d]}
  /\ \/ req[d] = "pending" /\ req' = [req EXCEPT ![d] = "applied"] /\ served' = d
     \/ UNCHANGED <<req, served>>
  /\ UNCHANGED <<latest, portalVars, workerVars>>

\* The previous workload is restored, at once or after another call.
HandleRecover(d) ==
  /\ [call |-> "recover", job |-> d] \in wire
  /\ wire' = wire \ {[call |-> "recover", job |-> d]}
  /\ \/ req[d] = "pending" /\ req' = [req EXCEPT ![d] = "stopping"]
     \/ req[d] \in {"pending", "stopping"} /\ req' = [req EXCEPT ![d] = "withdrawn"]
     \/ req[d] \notin {"pending", "stopping"} /\ UNCHANGED req
  /\ UNCHANGED <<latest, served, portalVars, workerVars>>

\* The same, and an unknown identity is recorded as withdrawn.
HandleWithdraw(d) ==
  /\ [call |-> "withdraw", job |-> d] \in wire
  /\ wire' = wire \ {[call |-> "withdraw", job |-> d]}
  /\ \/ req[d] \in {"none", "pending"} /\ req' = [req EXCEPT ![d] = "stopping"]
     \/ req[d] \in {"none", "pending", "stopping"} /\ req' = [req EXCEPT ![d] = "withdrawn"]
     \/ req[d] \in {"applied", "withdrawn"} /\ UNCHANGED req
  /\ latest' = IF req[d] = "none" THEN d ELSE latest
  /\ UNCHANGED <<served, portalVars, workerVars>>

Handle(d) == HandleDeploy(d) \/ HandleAdvance(d) \/ HandleRecover(d) \/ HandleWithdraw(d)

\* Without candidate operations the deployer finishes a request by itself.
DeployerSettles(d) ==
  /\ req[d] = "pending" /\ op[d].mode = "no"
  /\ \/ req' = [req EXCEPT ![d] = "applied"] /\ served' = d
     \/ req' = [req EXCEPT ![d] = "withdrawn"] /\ UNCHANGED served
  /\ UNCHANGED <<wire, latest, portalVars, workerVars>>

\* A call is lost; a worker that waits for it gets an error.
Lose(m) ==
  /\ m \in wire
  /\ wire' = wire \ {m}
  /\ IF At("await") /\ worker.call = m.call /\ worker.job = m.job
     THEN worker' = Failed ELSE UNCHANGED worker
  /\ UNCHANGED <<op, fence, candidates, portalVars, req, latest, served>>

-----------------------------------------------------------------------------

WorkerStep ==
  \/ \E d \in Jobs : DispatchContainerDeployment(d) \/ ReconcileContainerDeployment(d)
  \/ SaveOperation \/ SaveFence \/ RejectBeforeSubmission \/ SaveDispatched
  \/ DeployAppTracked \/ DeployAnswered
  \/ NothingToAdvance \/ AdvanceContainerRuntime \/ AdvanceAnswered
  \/ InspectContainerRuntime \/ CommitOutcome

Fault == GiveUp \/ LookupFails \/ InspectedUnhealthy \/ \E m \in Message : Lose(m)

Next ==
  \/ CreateSettings \/ DeleteContainerSettings
  \/ \E r \in Releases : ResolveImage(r) \/ SaveRelease(r) \/ PrepareFails(r)
  \/ \E d \in Jobs, r \in Releases : RequestContainerDeployment(d, r)
  \/ \E d \in Jobs : CancelContainerDeployment(d)
  \/ DeleteProject \/ DeadlinePasses
  \/ WorkerStep \/ Fault \/ Reconfigure
  \/ \E d \in Jobs : Handle(d) \/ DeployerSettles(d)

Spec == Init /\ [][Next]_vars

\* The worker polls, time passes, and the deployer answers what reaches it.
Fairness ==
  /\ WF_vars(WorkerStep)
  /\ WF_vars(DeadlinePasses)
  /\ \A d \in Jobs : WF_vars(Handle(d))

FairSpec == Spec /\ Fairness

-----------------------------------------------------------------------------
(* Properties.                                                             *)

\* A job recorded as failed or cancelled is not served, and nothing that is
\* still under way to the deployer can activate it.
FailedNeverActivates ==
  \A d \in Jobs : job[d].state \in {"failed", "cancelled"} =>
    /\ served # d
    /\ req[d] \in {"none", "withdrawn"}
    /\ req[d] = "none" => [call |-> "deploy", job |-> d] \notin wire

\* The app runs the job the portal calls active, unless a job that is still
\* recorded as running was activated and will be reconciled.
PortalFollowsDeployer ==
  served # LatestSucceeded => served # NoJob /\ job[served].state = "running"

\* In the end candidate operations are enabled, and no pass of the worker is
\* cut short by an error or by an app that is not healthy.
Quiet == <>[](candidates = "yes") /\ <>[](worker.error = "no")

\* A candidate that was dispatched gets its outcome, or proof that it was never
\* submitted, once the app is healthy and calls get through.
DeploymentsSettle ==
  Quiet => \A d \in Jobs :
    (job[d].state = "running" /\ op[d].mode = "yes") ~>
      (job[d].state # "running" \/ op[d].stage = "not_submitted")

\* A job that was rejected before submission is settled, so that the next one
\* can be requested: "Reconciliation can make that attempt retryable
\* immediately, without waiting for its activation deadline"
\* (docs/launch/registry-image-deployment.md).
RejectedIsRetryable ==
  Quiet => \A d \in Jobs : op[d].stage = "not_submitted" ~> job[d].state # "running"
=============================================================================
