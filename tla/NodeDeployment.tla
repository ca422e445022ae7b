-------------------------- MODULE NodeDeployment ---------------------------
(***************************************************************************)
(* Deployments of one Node project (internal/portal/node_deployment*.go,   *)
(* node_releases.go): a retained release is requested, claimed once,       *)
(* dispatched once, and its outcome recorded from what the runtime reports.*)
(* Any number of workers call WorkNodeDeployment; each of its steps is one *)
(* transaction or one call to the runtime, which keeps RuntimeContract.    *)
(*                                                                         *)
(* Deployments are numbered by their revision, which is also the operation *)
(* (a deployment is claimed once).                                         *)
(***************************************************************************)
EXTENDS RuntimeContract

CONSTANTS
  Releases,  \* builds of the project that succeeded
  NoRelease,
  Workers

ASSUME DeploymentAssumption ==
  /\ MaxOp \in Nat
  /\ NoRelease \notin Releases

VARIABLES
  job,       \* node_deployments
  refs,      \* deployments with a row in node_deployment_releases
  active,    \* node_active_deployments
  archive,   \* node_releases; a deleted one is not built again
  wire,      \* submissions under way to the runtime
  worker,    \* where each WorkNodeDeployment is
  allowed,   \* "yes" while the submitter's role and the hosting plan permit work
  deleting,  \* "yes" once deletion of the project was requested
  healthy    \* "yes" while the active release answers a fresh health check

portalVars == <<job, refs, active, archive, wire, worker, allowed, deleting, healthy>>
vars == <<portalVars, runtimeVars>>

Flag == {"yes", "no"}

Job == [state   : {"none", "queued", "running", "succeeded", "failed", "cancelled"},
        release : Releases \cup {NoRelease},
        lease   : {"none", "held", "expired"},
        intent  : Flag]

\* A deployment nobody has claimed.
Row(state, r) == [state |-> state, release |-> r, lease |-> "none", intent |-> "no"]

\* What the runtime reported: the outcome and the active operation.
Worker == [pc      : {"idle", "dispatch", "submit", "await", "inspect", "commit"},
           job     : Ops \cup {NoOp},
           outcome : {"none", "active", "failed"},
           seen    : Ops \cup {NoOp}]

Doing(pc, d) == [pc |-> pc, job |-> d, outcome |-> "none", seen |-> NoOp]

Resting == Doing("idle", NoOp)

TypeOK ==
  /\ RuntimeTypeOK
  /\ job \in [Ops -> Job]
  /\ refs \subseteq Ops
  /\ active \in Ops \cup {NoOp}
  /\ archive \in [Releases -> {"none", "kept", "deleted"}]
  /\ wire \subseteq Ops
  /\ worker \in [Workers -> Worker]
  /\ allowed \in Flag /\ deleting \in Flag /\ healthy \in Flag
  /\ \A d \in Ops : job[d].release = NoRelease <=> job[d].state = "none"
  /\ \A w \in Workers : worker[w].job = NoOp <=> worker[w].pc = "idle"

Init ==
  /\ RuntimeInit
  /\ job = [d \in Ops |-> Row("none", NoRelease)]
  /\ refs = {} /\ active = NoOp
  /\ archive = [r \in Releases |-> "none"]
  /\ wire = {}
  /\ worker = [w \in Workers |-> Resting]
  /\ allowed = "yes" /\ deleting = "no" /\ healthy = "yes"

-----------------------------------------------------------------------------
(* What users do.                                                          *)

Pending(d) == job[d].state \in {"queued", "running"}

Kept(r) == archive[r] = "kept"

\* The deployments once d has another state and lease.
Moved(d, state, lease) ==
  [job EXCEPT ![d] = [state |-> state, release |-> @.release, lease |-> lease, intent |-> @.intent]]

\* A build succeeds and its release is retained; a project with a build in hand
\* is not deleted.
RetainNodeRelease(r) ==
  /\ deleting = "no"
  /\ archive[r] = "none"
  /\ archive' = [archive EXCEPT ![r] = "kept"]
  /\ UNCHANGED <<job, refs, active, wire, worker, allowed, deleting, healthy, runtimeVars>>

\* Mutant: only pending deployments hold a release back.
DeletePending(r) ==
  /\ deleting = "no"
  /\ Kept(r)
  /\ ~\E d \in refs : Pending(d) /\ job[d].release = r
  /\ archive' = [archive EXCEPT ![r] = "deleted"]
  /\ UNCHANGED <<job, refs, active, wire, worker, allowed, deleting, healthy, runtimeVars>>

DeleteNodeRelease(r) ==
  /\ deleting = "no"
  /\ Kept(r)
  /\ ~\E d \in refs : job[d].release = r
  /\ ~(active # NoOp /\ job[active].release = r)
  /\ archive' = [archive EXCEPT ![r] = "deleted"]
  /\ UNCHANGED <<job, refs, active, wire, worker, allowed, deleting, healthy, runtimeVars>>

\* max(revision) + 1 over every deployment the project ever had.
IsNextRevision(d) == \A e \in Ops : job[e].state # "none" <=> e < d

RequestNodeDeployment(d, r) ==
  /\ deleting = "no" /\ allowed = "yes"
  /\ Kept(r)
  /\ ~\E e \in Ops : Pending(e)
  /\ IsNextRevision(d)
  /\ job' = [job EXCEPT ![d] = Row("queued", r)]
  /\ refs' = refs \cup {d}
  /\ UNCHANGED <<active, archive, wire, worker, allowed, deleting, healthy, runtimeVars>>

\* Mutant: a running deployment is cancelled too.
CancelRunning(d) ==
  /\ deleting = "no"
  /\ Pending(d)
  /\ job' = [job EXCEPT ![d] = [@ EXCEPT !.state = "cancelled"]]
  /\ refs' = refs \ {d}
  /\ UNCHANGED <<active, archive, wire, worker, allowed, deleting, healthy, runtimeVars>>

CancelNodeDeployment(d) ==
  /\ deleting = "no"
  /\ job[d].state = "queued"
  /\ job' = [job EXCEPT ![d] = [@ EXCEPT !.state = "cancelled"]]
  /\ refs' = refs \ {d}
  /\ UNCHANGED <<active, archive, wire, worker, allowed, deleting, healthy, runtimeVars>>

DeleteProject ==
  /\ deleting = "no"
  /\ ~\E d \in Ops : Pending(d)
  /\ deleting' = "yes"
  /\ UNCHANGED <<job, refs, active, archive, wire, worker, allowed, healthy, runtimeVars>>

\* The submitter's role, the account and the plan change at any time.
AccessChanges ==
  /\ allowed' \in Flag \ {allowed}
  /\ UNCHANGED <<job, refs, active, archive, wire, worker, deleting, healthy, runtimeVars>>

-----------------------------------------------------------------------------
(* WorkNodeDeployment.                                                     *)

Holds(w, pc) == worker[w].pc = pc

Release(w) == worker' = [worker EXCEPT ![w] = Resting]

\* A queued deployment is claimed, never one that is running.
ClaimNodeDeployment(w, d) ==
  /\ Holds(w, "idle")
  /\ job[d].state = "queued"
  /\ allowed = "yes"
  /\ Kept(job[d].release) /\ d \in refs
  /\ job' = Moved(d, "running", "held")
  /\ worker' = [worker EXCEPT ![w] = Doing("dispatch", d)]
  /\ UNCHANGED <<refs, active, archive, wire, allowed, deleting, healthy, runtimeVars>>

LeaseExpires(d) ==
  /\ job[d].lease = "held"
  /\ job' = [job EXCEPT ![d] = [@ EXCEPT !.lease = "expired"]]
  /\ UNCHANGED <<refs, active, archive, wire, worker, allowed, deleting, healthy, runtimeVars>>

MayDispatch(d) ==
  /\ job[d].state = "running" /\ job[d].lease = "held" /\ job[d].intent = "no"
  /\ allowed = "yes"
  /\ Kept(job[d].release) /\ d \in refs

\* The intent is committed before the one attempt to submit, and the lease is
\* extended.
DispatchNodeDeployment(w) ==
  LET d == worker[w].job IN
  /\ Holds(w, "dispatch")
  /\ MayDispatch(d)
  /\ job' = [job EXCEPT ![d] = [@ EXCEPT !.intent = "yes"]]
  /\ worker' = [worker EXCEPT ![w] = Doing("submit", d)]
  /\ UNCHANGED <<refs, active, archive, wire, allowed, deleting, healthy, runtimeVars>>

\* Refused, the claimed deployment stays running without an intent.
DispatchRefused(w) ==
  /\ Holds(w, "dispatch")
  /\ ~MayDispatch(worker[w].job)
  /\ Release(w)
  /\ UNCHANGED <<job, refs, active, archive, wire, allowed, deleting, healthy, runtimeVars>>

Submit(w) ==
  /\ Holds(w, "submit")
  /\ wire' = wire \cup {worker[w].job}
  /\ worker' = [worker EXCEPT ![w] = Doing("await", worker[w].job)]
  /\ UNCHANGED <<job, refs, active, archive, allowed, deleting, healthy, runtimeVars>>

\* The submission arrives; it may still do so after the worker gave up.
Deliver(o) ==
  /\ o \in wire
  /\ wire' = wire \ {o}
  /\ Accept(o)
  /\ UNCHANGED <<job, refs, active, archive, worker, allowed, deleting, healthy>>

\* It is lost, or refused (late, invalid, or the inbox is full).
Lose(o) ==
  /\ o \in wire
  /\ wire' = wire \ {o}
  /\ UNCHANGED <<job, refs, active, archive, worker, allowed, deleting, healthy, runtimeVars>>

\* The answer: accepted, and the outcome is looked at, or not.
Answered(w) ==
  /\ Holds(w, "await")
  /\ worker[w].job \notin wire
  /\ IF stage[worker[w].job] = "none"
     THEN Release(w)
     ELSE worker' = [worker EXCEPT ![w] = Doing("inspect", worker[w].job)]
  /\ UNCHANGED <<job, refs, active, archive, wire, allowed, deleting, healthy, runtimeVars>>

\* Mutant: only a worker's own, unexpired work is looked at.
ObserveLeased(w, d) ==
  /\ Holds(w, "idle")
  /\ job[d].state = "running" /\ job[d].lease = "held"
  /\ Kept(job[d].release)
  /\ worker' = [worker EXCEPT ![w] = Doing("inspect", d)]
  /\ UNCHANGED <<job, refs, active, archive, wire, allowed, deleting, healthy, runtimeVars>>

\* ReconcileNodeDeployment: the running deployment is read ...
Observe(w, d) ==
  /\ Holds(w, "idle")
  /\ job[d].state = "running"
  /\ Kept(job[d].release)
  /\ worker' = [worker EXCEPT ![w] = Doing("inspect", d)]
  /\ UNCHANGED <<job, refs, active, archive, wire, allowed, deleting, healthy, runtimeVars>>

\* What a report on operation o establishes.
Outcome(o) ==
  IF stage[o] # "settled" \/ route.fence # o THEN "none"
  ELSE IF route.status = "active" /\ route.active = o /\ healthy = "yes" THEN "active"
  ELSE IF route.status = "failed" THEN "failed"
  ELSE "none"

\* ... the runtime is asked, outside any transaction ...
InspectNodeRuntime(w) ==
  LET d == worker[w].job IN
  /\ Holds(w, "inspect")
  /\ IF Outcome(d) = "none"
     THEN Release(w)
     ELSE worker' = [worker EXCEPT ![w] = [pc |-> "commit", job |-> d, outcome |-> Outcome(d),
                                              seen |-> route.active]]
  /\ UNCHANGED <<job, refs, active, archive, wire, allowed, deleting, healthy, runtimeVars>>

\* ... and the outcome recorded if the deployment is still running.  A failure
\* must leave the route the portal has recorded.
ReconcileNodeDeployment(w) ==
  LET d == worker[w].job IN
  /\ Holds(w, "commit")
  /\ job[d].state = "running"
  /\ IF worker[w].outcome = "active"
     THEN /\ job' = Moved(d, "succeeded", "none")
          /\ active' = d
          /\ refs' = IF active = d THEN refs ELSE refs \ {active}
     ELSE /\ worker[w].seen = active
          /\ job' = Moved(d, "failed", "none")
          /\ refs' = refs \ {d}
          /\ UNCHANGED active
  /\ Release(w)
  /\ UNCHANGED <<archive, wire, allowed, deleting, healthy, runtimeVars>>

\* The deployment has its outcome already, or the report does not fit it.
ReconcileRefused(w) ==
  /\ Holds(w, "commit")
  /\ \/ job[worker[w].job].state # "running"
     \/ worker[w].outcome = "failed" /\ worker[w].seen # active
  /\ Release(w)
  /\ UNCHANGED <<job, refs, active, archive, wire, allowed, deleting, healthy, runtimeVars>>

\* A timeout, an error or the worker's end: nothing is undone.
GiveUp(w) ==
  /\ ~Holds(w, "idle")
  /\ Release(w)
  /\ UNCHANGED <<job, refs, active, archive, wire, allowed, deleting, healthy, runtimeVars>>

-----------------------------------------------------------------------------
(* The runtime.                                                            *)

RuntimeWorks == RuntimeStep /\ UNCHANGED portalVars

HealthChanges ==
  /\ healthy' \in Flag \ {healthy}
  /\ UNCHANGED <<job, refs, active, archive, wire, worker, allowed, deleting, runtimeVars>>

WorkerStep(w) ==
  \/ \E d \in Ops : ClaimNodeDeployment(w, d) \/ Observe(w, d)
  \/ DispatchNodeDeployment(w) \/ DispatchRefused(w) \/ Submit(w) \/ Answered(w)
  \/ InspectNodeRuntime(w) \/ ReconcileNodeDeployment(w) \/ ReconcileRefused(w)

Next ==
  \/ \E r \in Releases : RetainNodeRelease(r) \/ DeleteNodeRelease(r)
  \/ \E d \in Ops, r \in Releases : RequestNodeDeployment(d, r)
  \/ \E d \in Ops : CancelNodeDeployment(d) \/ LeaseExpires(d) \/ Deliver(d) \/ Lose(d)
  \/ DeleteProject \/ AccessChanges
  \/ \E w \in Workers : WorkerStep(w) \/ GiveUp(w)
  \/ RuntimeWorks \/ HealthChanges

Spec == Init /\ [][Next]_vars

\* Workers poll, and the runtime settles what it has accepted.
Fairness == (\A w \in Workers : WF_vars(WorkerStep(w))) /\ WF_vars(RuntimeWorks)

LiveSpec == Spec /\ Fairness

-----------------------------------------------------------------------------
(* Properties.                                                             *)

\* A deployment that failed or was cancelled is not served, nothing of it is
\* under way, and the runtime can no longer bring it up.
FailedIsFinal ==
  \A d \in Ops : job[d].state \in {"failed", "cancelled"} =>
    /\ route.active # d
    /\ d \notin wire
    /\ stage[d] # "accepted"

\* What the portal calls active is what the runtime serves, unless the
\* runtime's operation is still recorded as running and will be reconciled; and
\* what it calls failed or cancelled never comes up again (FailedIsFinal).
PortalFollowsRuntime ==
  /\ route.active # active => route.active # NoOp /\ job[route.active].state = "running"
  /\ FailedIsFinal

\* The release that is served, and the one a pending deployment needs, is kept
\* for as long as that lasts.
NeededIsRetained ==
  /\ route.active # NoOp => Kept(job[route.active].release)
  /\ \A d \in Ops : Pending(d) => Kept(job[d].release) /\ d \in refs

\* A dispatched deployment that the runtime has accepted gets its outcome, if
\* the active release stays healthy and workers stop failing.
DeploymentsSettle ==
  (<>[](healthy = "yes") /\ <>[][\A w \in Workers : GiveUp(w) => WorkerStep(w)]_vars) =>
    \A d \in Ops : []<>(stage[d] # "none" => job[d].state \in {"succeeded", "failed"})
=============================================================================
