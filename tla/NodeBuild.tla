----------------------------- MODULE NodeBuild -----------------------------
(***************************************************************************)
(* Builds of one Node project (internal/portal/node_build*.go and          *)
(* RetainNodeRelease): a build is requested, claimed once, prepared under  *)
(* a lease, dispatched at most once, and concluded from evidence that its  *)
(* execution is retired.  Any number of workers call WorkNodeBuild; each   *)
(* step is one transaction or one call to the executor, which keeps        *)
(* ExecutionContract.                                                      *)
(***************************************************************************)
EXTENDS ExecutionContract, Naturals, FiniteSets

CONSTANTS
  Workers,
  NoBuild,
  MaxReleases   \* the code keeps ten releases of a project

ASSUME BuildAssumption ==
  /\ NoBuild \notin Builds
  /\ MaxReleases \in Nat

VARIABLES
  job,       \* node_builds
  releases,  \* node_releases, by the build that made them
  wire,      \* submissions under way to the executor
  worker,    \* where each WorkNodeBuild is
  access,    \* what the submitter may do: build, only finish, nothing
  deleting   \* "yes" once deletion of the project was requested

portalVars == <<job, releases, wire, worker, access, deleting>>
vars == <<portalVars, exec>>

Flag == {"yes", "no"}

Job == [state  : {"none", "queued", "running", "succeeded", "failed", "cancelled"},
        lease  : {"none", "held", "expired"},
        bundle : Flag,
        intent : Flag]

\* lease is what observeNodeBuild read of it.
Worker == [pc    : {"idle", "prepare", "dispatch", "await", "inspect", "artifact", "retain",
                    "recheck", "conclude"},
           build : Builds \cup {NoBuild},
           lease : {"none", "held", "expired"}]

Resting == [pc |-> "idle", build |-> NoBuild, lease |-> "none"]

TypeOK ==
  /\ ExecTypeOK
  /\ job \in [Builds -> Job]
  /\ releases \subseteq Builds
  /\ wire \subseteq Builds
  /\ worker \in [Workers -> Worker]
  /\ access \in {"full", "unpaid", "revoked"}
  /\ deleting \in Flag
  /\ \A w \in Workers : worker[w].build = NoBuild <=> worker[w].pc = "idle"

Init ==
  /\ ExecInit
  /\ job = [b \in Builds |-> [state |-> "none", lease |-> "none", bundle |-> "no", intent |-> "no"]]
  /\ releases = {} /\ wire = {}
  /\ worker = [w \in Workers |-> Resting]
  /\ access = "full" /\ deleting = "no"

-----------------------------------------------------------------------------
(* What users and operators do.                                            *)

Pending(b) == job[b].state \in {"queued", "running"}

\* The builds once b has another state and lease.
Moved(b, state, lease) ==
  [job EXCEPT ![b] = [state |-> state, lease |-> lease, bundle |-> @.bundle, intent |-> @.intent]]

\* nodeBuildActor: the submitter is still an owner or developer.
Allowed == access # "revoked"

\* The same with the hosting plan paid for.
MayBuild == access = "full"

RequestNodeBuild(b) ==
  /\ deleting = "no" /\ MayBuild
  /\ job[b].state = "none"
  /\ ~\E c \in Builds : Pending(c)
  /\ job' = [job EXCEPT ![b] = [@ EXCEPT !.state = "queued"]]
  /\ UNCHANGED <<releases, wire, worker, access, deleting, exec>>

CancelNodeBuild(b) ==
  /\ deleting = "no" /\ Allowed
  /\ job[b].state = "queued"
  /\ job' = [job EXCEPT ![b] = [@ EXCEPT !.state = "cancelled"]]
  /\ UNCHANGED <<releases, wire, worker, access, deleting, exec>>

\* The release is not deployed, see NodeDeployment.
DeleteNodeRelease(b) ==
  /\ deleting = "no" /\ Allowed
  /\ b \in releases
  /\ releases' = releases \ {b}
  /\ UNCHANGED <<job, wire, worker, access, deleting, exec>>

DeleteProject ==
  /\ deleting = "no"
  /\ ~\E b \in Builds : Pending(b)
  /\ deleting' = "yes"
  /\ UNCHANGED <<job, releases, wire, worker, access, exec>>

AccessChanges ==
  /\ access' \in {"full", "unpaid", "revoked"} \ {access}
  /\ UNCHANGED <<job, releases, wire, worker, deleting, exec>>

-----------------------------------------------------------------------------
(* Preparing and dispatching.  Renewing a lease leaves it held; a renewal  *)
(* that is refused ends the preparation (PreparationRefused).              *)

LeaseExpires(b) ==
  /\ job[b].lease = "held"
  /\ job' = [job EXCEPT ![b] = [@ EXCEPT !.lease = "expired"]]
  /\ UNCHANGED <<releases, wire, worker, access, deleting, exec>>

ClaimNodeBuild(w, b) ==
  /\ worker[w].pc = "idle"
  /\ job[b].state = "queued" /\ MayBuild
  /\ job' = Moved(b, "running", "held")
  /\ worker' = [worker EXCEPT ![w] = [pc |-> "prepare", build |-> b, lease |-> "none"]]
  /\ UNCHANGED <<releases, wire, access, deleting, exec>>

\* leasedNodeBuild, for the one worker that was given the lease.
Leased(b) == job[b].state = "running" /\ job[b].lease = "held" /\ Allowed

\* DownloadBundle, BindNodeBuildDependencies and the renewal at the handoff.
BindNodeBuildDependencies(w) ==
  LET b == worker[w].build
  IN /\ worker[w].pc = "prepare"
     /\ Leased(b)
     /\ job' = [job EXCEPT ![b] = [@ EXCEPT !.bundle = "yes"]]
     /\ worker' = [worker EXCEPT ![w] = [@ EXCEPT !.pc = "dispatch"]]
     /\ UNCHANGED <<releases, wire, access, deleting, exec>>

\* The intent is committed and the lease extended to the deadline, then the one
\* submission is made.
DispatchNodeBuild(w) ==
  LET b == worker[w].build
  IN /\ worker[w].pc = "dispatch"
     /\ Leased(b) /\ MayBuild
     /\ job[b].bundle = "yes" /\ job[b].intent = "no"
     /\ job' = [job EXCEPT ![b] = [@ EXCEPT !.intent = "yes"]]
     /\ wire' = wire \cup {b}
     /\ worker' = [worker EXCEPT ![w] = [@ EXCEPT !.pc = "await"]]
     /\ UNCHANGED <<releases, access, deleting, exec>>

\* A renewal or one of the checks fails.
PreparationRefused(w) ==
  /\ \/ worker[w].pc = "prepare" /\ ~ Leased(worker[w].build)
     \/ worker[w].pc = "dispatch" /\ ~ (Leased(worker[w].build) /\ MayBuild)
  /\ worker' = [worker EXCEPT ![w] = Resting]
  /\ UNCHANGED <<job, releases, wire, access, deleting, exec>>

Deliver(b) ==
  /\ b \in wire
  /\ Accept(b)
  /\ wire' = wire \ {b}
  /\ UNCHANGED <<job, releases, worker, access, deleting>>

\* Lost on the way, never sent because the worker stopped, or refused.
Lose(b) ==
  /\ b \in wire
  /\ wire' = wire \ {b}
  /\ UNCHANGED <<job, releases, worker, access, deleting, exec>>

\* The call fails or runs out of time, perhaps with the request still under way.
SubmissionFails(w) ==
  /\ worker[w].pc = "await"
  /\ worker' = [worker EXCEPT ![w] = Resting]
  /\ UNCHANGED <<job, releases, wire, access, deleting, exec>>

-----------------------------------------------------------------------------
(* Observing and concluding.                                               *)

\* Mutant: the intent is not looked at.
FailExpired(b) ==
  /\ job[b].state = "running" /\ job[b].lease = "expired"
  /\ job' = Moved(b, "failed", "none")
  /\ UNCHANGED <<releases, wire, worker, access, deleting, exec>>

\* Mutant: a build whose dependencies are bound is left to its worker.
FailUnbound(b) ==
  /\ job[b].state = "running" /\ job[b].lease = "expired" /\ job[b].bundle = "no"
  /\ job' = Moved(b, "failed", "none")
  /\ UNCHANGED <<releases, wire, worker, access, deleting, exec>>

\* A preparation that outlived its lease is fenced and failed.
FailUnsubmittedNodeBuild(b) ==
  /\ job[b].state = "running" /\ job[b].lease = "expired" /\ job[b].intent = "no"
  /\ job' = Moved(b, "failed", "none")
  /\ UNCHANGED <<releases, wire, worker, access, deleting, exec>>

\* Another worker's poll, or the dispatching worker once it was answered.
ObserveNodeBuild(w, b) ==
  /\ \/ worker[w].pc = "idle"
     \/ worker[w].pc = "await" /\ worker[w].build = b /\ exec[b] # "none"
  /\ job[b].state = "running" /\ job[b].intent = "yes"
  /\ worker' = [worker EXCEPT ![w] = [pc |-> "inspect", build |-> b, lease |-> job[b].lease]]
  /\ UNCHANGED <<job, releases, wire, access, deleting, exec>>

InspectNodeExecution(w) ==
  LET b == worker[w].build
  IN /\ worker[w].pc = "inspect"
     /\ worker' = [worker EXCEPT ![w] =
          IF exec[b] = "succeeded" THEN [@ EXCEPT !.pc = "artifact"]
          ELSE IF exec[b] = "failed" /\ @.lease = "expired" THEN [@ EXCEPT !.pc = "recheck"]
          ELSE Resting]
     /\ UNCHANGED <<job, releases, wire, access, deleting, exec>>

\* The first half of RetainNodeRelease: the archive is read outside a
\* transaction.
ReadNodeArtifact(w) ==
  LET b == worker[w].build
  IN /\ worker[w].pc = "artifact"
     /\ worker' = [worker EXCEPT ![w] =
          IF job[b].state = "running" /\ exec[b] = "succeeded"
          THEN [@ EXCEPT !.pc = "retain"] ELSE Resting]
     /\ UNCHANGED <<job, releases, wire, access, deleting, exec>>

HasRoom == Cardinality(releases) < MaxReleases

\* The second half: output of a submitter who lost permission is discarded.
RetainNodeRelease(w) ==
  LET b == worker[w].build
  IN /\ worker[w].pc = "retain"
     /\ job[b].state = "running"
     /\ Allowed => HasRoom
     /\ job' = Moved(b, IF Allowed THEN "succeeded" ELSE "cancelled", "none")
     /\ releases' = IF Allowed THEN releases \cup {b} ELSE releases
     /\ worker' = [worker EXCEPT ![w] = Resting]
     /\ UNCHANGED <<wire, access, deleting, exec>>

\* Already concluded, or over the quota.
RetainRefused(w) ==
  /\ worker[w].pc = "retain"
  /\ job[worker[w].build].state # "running" \/ (Allowed /\ ~HasRoom)
  /\ worker' = [worker EXCEPT ![w] = Resting]
  /\ UNCHANGED <<job, releases, wire, access, deleting, exec>>

\* The first half of ReconcileNodeBuildFailure, with its own inspection.
RecheckFailure(w) ==
  LET b == worker[w].build
  IN /\ worker[w].pc = "recheck"
     /\ worker' = [worker EXCEPT ![w] =
          IF job[b].state = "running" /\ job[b].lease = "expired" /\ exec[b] = "failed"
          THEN [@ EXCEPT !.pc = "conclude"] ELSE Resting]
     /\ UNCHANGED <<job, releases, wire, access, deleting, exec>>

ReconcileNodeBuildFailure(w) ==
  LET b == worker[w].build
  IN /\ worker[w].pc = "conclude"
     /\ job' = IF job[b].state = "running" /\ job[b].lease = "expired"
               THEN Moved(b, "failed", "none") ELSE job
     /\ worker' = [worker EXCEPT ![w] = Resting]
     /\ UNCHANGED <<releases, wire, access, deleting, exec>>

\* The worker stops, or an error ends WorkNodeBuild; the lease token is lost.
GiveUp(w) ==
  /\ worker[w].pc # "idle"
  /\ worker' = [worker EXCEPT ![w] = Resting]
  /\ UNCHANGED <<job, releases, wire, access, deleting, exec>>

-----------------------------------------------------------------------------

UserStep ==
  \/ \E b \in Builds : RequestNodeBuild(b) \/ CancelNodeBuild(b) \/ DeleteNodeRelease(b)
  \/ DeleteProject
  \/ AccessChanges

WorkerStep(w) ==
  \/ \E b \in Builds : ClaimNodeBuild(w, b) \/ ObserveNodeBuild(w, b)
  \/ BindNodeBuildDependencies(w) \/ DispatchNodeBuild(w)
  \/ PreparationRefused(w) \/ SubmissionFails(w)
  \/ InspectNodeExecution(w)
  \/ ReadNodeArtifact(w) \/ RetainNodeRelease(w) \/ RetainRefused(w)
  \/ RecheckFailure(w) \/ ReconcileNodeBuildFailure(w)

ExecutorStep(b) == (Launch(b) \/ Retire(b)) /\ UNCHANGED portalVars

Next ==
  \/ UserStep
  \/ \E w \in Workers : WorkerStep(w) \/ GiveUp(w)
  \/ \E b \in Builds :
       LeaseExpires(b) \/ FailUnsubmittedNodeBuild(b) \/ Deliver(b) \/ Lose(b) \/ ExecutorStep(b)

Spec == Init /\ [][Next]_vars

\* Workers poll, clocks advance, and the executor stops what runs past its
\* deadline (ContainerBuild's ExecutionsRetire).
Fairness ==
  /\ \A w \in Workers : WF_vars(WorkerStep(w))
  /\ \A b \in Builds :
       /\ WF_vars(LeaseExpires(b)) /\ WF_vars(FailUnsubmittedNodeBuild(b))
       /\ WF_vars(Retire(b) /\ UNCHANGED portalVars)

FairSpec == Spec /\ Fairness

-----------------------------------------------------------------------------
(* Properties.                                                             *)

\* Customer code of build b runs, or may still begin to.
Live(b) == b \in wire \/ exec[b] \in {"accepted", "running"}

\* A project never has two executions that run or may still run: neither an
\* expired lease, nor a lost answer, nor a submission that is still under way
\* lets a second build start (DispatchNodeBuild, failUnsubmittedNodeBuild,
\* ReconcileNodeBuildFailure).
OneLiveExecution == \A b, c \in Builds : Live(b) /\ Live(c) => b = c

\* A claimed build is dispatched or fails, and one whose execution began is
\* concluded, once errors stop and the project has room for a release. A build
\* whose submission was lost is left to the operator, as the code says; one whose
\* output a reboot took before it was read fails each read, an error that does not
\* stop (WorkNodeBuild, PendingNodeBuildExecution, RetainNodeRelease).
BuildsSettle ==
  (<>[][\A w \in Workers : GiveUp(w) => WorkerStep(w)]_vars /\ <>[]HasRoom) =>
    \A b \in Builds :
      []<>(job[b].state = "running" =>
             job[b].intent = "yes" /\ exec[b] \notin {"running"} \cup Retired)
=============================================================================
