-------------------------- MODULE DeploymentProofs --------------------------
(***************************************************************************)
(* Proofs about NodeDeployment, GitHubLink and GitHubPipeline, for every   *)
(* number of revisions, releases, workers, attempts, pushes and processes. *)
(***************************************************************************)
EXTENDS NodeDeployment, GitHubLink, GitHubPipeline, TLAPS

-----------------------------------------------------------------------------
(* NodeDeployment: the inductive invariant.                                *)

\* The runtime has accepted what its route names, the route is on its fence or
\* behind it, and a failure is not published of the operation it serves.
RouteInv ==
  /\ route.fence # NoOp => stage[route.fence] # "none"
  /\ route.active <= route.fence
  /\ route.active # NoOp => stage[route.active] # "none"
  /\ route.status = "failed" => route.active # route.fence

\* The one submission of a deployment follows its intent: it is still to be
\* made by one worker, under way, or with the runtime.
SubmissionInv ==
  /\ \A d \in Ops : stage[d] # "none" \/ d \in wire => job[d].intent = "yes"
  /\ \A d \in wire : stage[d] = "none"
  /\ \A w \in Workers : worker[w].pc = "submit" =>
       LET d == worker[w].job IN
       /\ job[d].intent = "yes" /\ stage[d] = "none" /\ d \notin wire
       /\ \A v \in Workers : worker[v].pc = "submit" /\ worker[v].job = d => v = w

\* Deployments are made one after the other, and one is concluded from what the
\* runtime has settled.
QueueInv ==
  /\ \A d, e \in Ops : Pending(d) /\ job[e].state # "none" => e <= d
  /\ \A d \in Ops : job[d].intent = "yes" => job[d].state \in {"running", "succeeded", "failed"}
  /\ \A d \in Ops : job[d].state \in {"succeeded", "failed"} => stage[d] = "settled"
  /\ \A d \in Ops : job[d].state = "failed" => route.active # d
  /\ active # NoOp => job[active].state = "succeeded"

\* What a worker was told stays true for as long as no later operation is
\* fenced, and so for as long as the deployment is running.
ReportInv ==
  \A w \in Workers : worker[w].pc = "commit" =>
    LET d == worker[w].job IN
    /\ worker[w].outcome # "none"
    /\ stage[d] = "settled"
    /\ d <= route.fence
    /\ route.active # d \/ worker[w].outcome = "active"
    /\ route.fence = d =>
         IF worker[w].outcome = "active"
         THEN route.active = d
         ELSE route.active = worker[w].seen

FollowInv == route.active # active => route.active # NoOp /\ job[route.active].state = "running"

DeploymentInv ==
  /\ TypeOK
  /\ RouteInv
  /\ SubmissionInv
  /\ QueueInv
  /\ ReportInv
  /\ FollowInv
  /\ NeededIsRetained

-----------------------------------------------------------------------------
(* NodeDeployment: every step preserves the invariant.                     *)

LEMMA OpsAreNumbers == Ops \subseteq Nat /\ NoOp \in Nat /\ NoOp \notin Ops
BY DeploymentAssumption DEF Ops, NoOp

LEMMA InitInv == Init => DeploymentInv
BY OpsAreNumbers
   DEF Init, RuntimeInit, DeploymentInv, TypeOK, RuntimeTypeOK, RouteInv, SubmissionInv, QueueInv,
       ReportInv, FollowInv, NeededIsRetained, Job, Flag, Row, Worker, Resting, Doing, Pending, NoOp

LEMMA StutterInv == DeploymentInv /\ UNCHANGED vars => DeploymentInv'
BY DEF DeploymentInv, TypeOK, RuntimeTypeOK, RouteInv, SubmissionInv, QueueInv, ReportInv,
       FollowInv, NeededIsRetained, Pending, Kept, vars, portalVars, runtimeVars

\* Only the access, the health or the wish to delete the project changes.
LEMMA SurroundingsInv ==
  ASSUME DeploymentInv, DeleteProject \/ AccessChanges \/ HealthChanges
  PROVE  DeploymentInv'
BY DEF DeleteProject, AccessChanges, HealthChanges, DeploymentInv, TypeOK, RuntimeTypeOK, RouteInv,
       SubmissionInv, QueueInv, ReportInv, FollowInv, NeededIsRetained, Pending, Kept, runtimeVars,
       Flag

\* A release that is served or needed is referred to, and so is not deleted.
LEMMA ArchiveInv ==
  ASSUME DeploymentInv, NEW r \in Releases, RetainNodeRelease(r) \/ DeleteNodeRelease(r)
  PROVE  DeploymentInv'
<1> USE DEF DeploymentInv
<1>1. UNCHANGED <<job, refs, active, wire, worker, allowed, deleting, healthy, stage, route>>
  BY DEF RetainNodeRelease, DeleteNodeRelease, runtimeVars
<1>2. \A d \in Ops : Pending(d) \/ d = route.active => Kept(job[d].release)'
  <2> SUFFICES ASSUME NEW d \in Ops, Pending(d) \/ d = route.active
               PROVE  Kept(job[d].release)'
    OBVIOUS
  <2>1. Kept(job[d].release)
    BY OpsAreNumbers DEF NeededIsRetained
  <2>2. job[d].release \in Releases
    BY DeploymentAssumption, OpsAreNumbers, <2>1
       DEF NeededIsRetained, TypeOK, RuntimeTypeOK, Job, RouteInv, SubmissionInv, QueueInv, Pending
  <2>3. CASE RetainNodeRelease(r)
    BY <1>1, <2>1, <2>2, <2>3 DEF RetainNodeRelease, Kept, TypeOK
  <2>4. CASE DeleteNodeRelease(r)
    <3>1. job[d].release # r
      BY <2>4, OpsAreNumbers DEF DeleteNodeRelease, NeededIsRetained, FollowInv, Pending
    <3> QED
      BY <1>1, <2>1, <2>2, <2>4, <3>1 DEF DeleteNodeRelease, Kept, TypeOK
  <2> QED
    BY <2>3, <2>4
<1>3. TypeOK'
  BY <1>1 DEF RetainNodeRelease, DeleteNodeRelease, TypeOK, RuntimeTypeOK
<1>4. NeededIsRetained'
  BY <1>1, <1>2 DEF NeededIsRetained, Pending, TypeOK, RuntimeTypeOK
<1> QED
  BY <1>1, <1>3, <1>4 DEF RouteInv, SubmissionInv, QueueInv, ReportInv, FollowInv, Pending

\* What is recorded of one deployment does not change another.
LEMMA JobMoved ==
  ASSUME TypeOK, NEW d \in Ops, job[d].state # "none",
         NEW s \in {"running", "succeeded", "failed"}, NEW l \in {"none", "held", "expired"},
         job' = Moved(d, s, l)
  PROVE  /\ job' \in [Ops -> Job]
         /\ job'[d].state = s
         /\ job'[d].release = job[d].release /\ job'[d].intent = job[d].intent
         /\ \A e \in Ops \ {d} : job'[e] = job[e]
         /\ \A e \in Ops : job'[e].release = NoRelease <=> job'[e].state = "none"
<1> DEFINE row == [state |-> s, release |-> job[d].release, lease |-> l, intent |-> job[d].intent]
<1>1. row \in Job /\ job[d].release # NoRelease
  BY DEF Job, TypeOK
<1>2. job' = [job EXCEPT ![d] = row]
  BY DEF Moved, TypeOK
<1>3. row.state = s /\ row.release = job[d].release /\ row.intent = job[d].intent
  OBVIOUS
<1> HIDE DEF row
<1>4. /\ job' \in [Ops -> Job] /\ job'[d] = row
      /\ \A e \in Ops \ {d} : job'[e] = job[e]
  BY <1>1, <1>2 DEF TypeOK
<1> QED
  BY <1>1, <1>3, <1>4 DEF TypeOK

\* A revision is requested after every other deployment was concluded.
LEMMA RequestInv ==
  ASSUME DeploymentInv, NEW d \in Ops, NEW r \in Releases, RequestNodeDeployment(d, r)
  PROVE  DeploymentInv'
<1> USE DEF DeploymentInv, RequestNodeDeployment
<1>1. /\ UNCHANGED <<active, archive, wire, worker, allowed, deleting, healthy, stage, route>>
      /\ refs' = refs \cup {d}
  BY DEF runtimeVars
<1>2. job[d].state = "none" /\ \A e \in Ops : job[e].state # "none" => e < d
  BY OpsAreNumbers DEF IsNextRevision
<1>3. job[d].intent = "no" /\ stage[d] = "none" /\ d \notin wire
  BY <1>2 DEF QueueInv, SubmissionInv, TypeOK, Job, Flag
<1>4. /\ job' \in [Ops -> Job]
      /\ job'[d].state = "queued" /\ job'[d].release = r /\ job'[d].intent = "no"
      /\ \A e \in Ops \ {d} : job'[e] = job[e]
  BY DEF TypeOK, Row, Job, Flag
<1>5. \A e \in Ops : job'[e].release = NoRelease <=> job'[e].state = "none"
  BY <1>4, DeploymentAssumption DEF TypeOK
<1>6. d # active /\ d # route.active
  BY <1>2, <1>3, OpsAreNumbers DEF QueueInv, RouteInv
<1>7. \A w \in Workers : worker[w].pc \in {"submit", "commit"} =>
        worker[w].job \in Ops /\ worker[w].job # d
  BY <1>3 DEF SubmissionInv, ReportInv, TypeOK, Worker
<1>8. TypeOK'
  BY <1>1, <1>4, <1>5 DEF TypeOK, RuntimeTypeOK
<1>9. RouteInv'
  BY <1>1 DEF RouteInv
<1>10. SubmissionInv'
  BY <1>1, <1>3, <1>4, <1>5, <1>7 DEF SubmissionInv
<1>11. QueueInv'
  <2>1. \A c, e \in Ops : Pending(c)' /\ job'[e].state # "none" => e <= c
    BY <1>2, <1>4, <1>5, OpsAreNumbers DEF Pending
  <2>2. active' # NoOp => job'[active'].state = "succeeded"
    BY <1>1, <1>4, <1>5, <1>6 DEF QueueInv, TypeOK
  <2> QED
    BY <1>1, <1>4, <1>5, <2>1, <2>2 DEF QueueInv
<1>12. ReportInv'
  BY <1>1 DEF ReportInv
<1>13. FollowInv'
  BY <1>1, <1>4, <1>5, <1>6, OpsAreNumbers DEF FollowInv, TypeOK, RuntimeTypeOK
<1>14. NeededIsRetained'
  BY <1>1, <1>4, <1>5, <1>6 DEF NeededIsRetained, Pending, Kept, TypeOK, RuntimeTypeOK
<1> QED
  BY <1>8, <1>9, <1>10, <1>11, <1>12, <1>13, <1>14

\* A queued deployment was not submitted; an expired lease changes nothing else.
LEMMA CancelInv ==
  ASSUME DeploymentInv, NEW d \in Ops, CancelNodeDeployment(d)
  PROVE  DeploymentInv'
<1> USE DEF DeploymentInv, CancelNodeDeployment
<1>1. /\ UNCHANGED <<active, archive, wire, worker, allowed, deleting, healthy, stage, route>>
      /\ refs' = refs \ {d} /\ job[d].state = "queued"
  BY DEF runtimeVars
<1>2. /\ job' \in [Ops -> Job]
      /\ job'[d].state = "cancelled"
      /\ job'[d].release = job[d].release /\ job'[d].intent = job[d].intent
      /\ \A e \in Ops \ {d} : job'[e] = job[e]
  BY DEF TypeOK, Job
<1>3. job[d].intent # "yes" /\ stage[d] = "none" /\ d # active /\ d # route.active
  BY <1>1, OpsAreNumbers DEF QueueInv, SubmissionInv, RouteInv, TypeOK
<1>4. TypeOK'
  BY <1>1, <1>2 DEF TypeOK, RuntimeTypeOK
<1>5. RouteInv' /\ ReportInv'
  BY <1>1 DEF RouteInv, ReportInv
<1>6. SubmissionInv'
  <2>1. \A e \in Ops : job'[e].intent = job[e].intent
    BY <1>2
  <2>2. \A w \in Workers : worker[w].pc = "submit" => worker[w].job \in Ops
    BY DEF TypeOK, Worker
  <2> QED
    BY <1>1, <2>1, <2>2 DEF SubmissionInv, TypeOK
<1>7. QueueInv'
  <2>1. \A e \in Ops : /\ Pending(e)' => Pending(e)
                       /\ job'[e].state # "none" => job[e].state # "none"
    BY <1>1, <1>2 DEF Pending
  <2>2. active # NoOp => job'[active].state = "succeeded"
    BY <1>1, <1>2, <1>3 DEF QueueInv, TypeOK
  <2> QED
    BY <1>1, <1>2, <1>3, <2>1, <2>2 DEF QueueInv
<1>8. FollowInv'
  BY <1>1, <1>2, <1>3, OpsAreNumbers DEF FollowInv, TypeOK, RuntimeTypeOK
<1>9. NeededIsRetained'
  BY <1>1, <1>2, <1>3, OpsAreNumbers DEF NeededIsRetained, Pending, Kept, TypeOK, RuntimeTypeOK
<1> QED
  BY <1>4, <1>5, <1>6, <1>7, <1>8, <1>9

LEMMA LeaseInv ==
  ASSUME DeploymentInv, NEW d \in Ops, LeaseExpires(d)
  PROVE  DeploymentInv'
<1> USE DEF DeploymentInv, LeaseExpires
<1>1. UNCHANGED <<refs, active, archive, wire, worker, allowed, deleting, healthy, stage, route>>
  BY DEF runtimeVars
<1>2. job' \in [Ops -> Job]
  BY DEF TypeOK, Job
<1>3. \A e \in Ops : /\ job'[e].state = job[e].state
                     /\ job'[e].release = job[e].release /\ job'[e].intent = job[e].intent
  BY DEF TypeOK, Job
<1>4. \A e \in Ops : Pending(e)' <=> Pending(e)
  BY <1>3 DEF Pending
<1>5. TypeOK'
  BY <1>1, <1>2, <1>3 DEF TypeOK, RuntimeTypeOK
<1>6. RouteInv' /\ ReportInv'
  BY <1>1 DEF RouteInv, ReportInv
<1>7. SubmissionInv'
  <2>1. \A w \in Workers : worker[w].pc = "submit" => worker[w].job \in Ops
    BY DEF TypeOK, Worker
  <2> QED
    BY <1>1, <1>3, <2>1 DEF SubmissionInv, TypeOK
<1>8. QueueInv'
  BY <1>1, <1>3, <1>4 DEF QueueInv, TypeOK
<1>9. FollowInv'
  BY <1>1, <1>3, OpsAreNumbers DEF FollowInv, TypeOK, RuntimeTypeOK
<1>10. NeededIsRetained'
  BY <1>1, <1>3, <1>4, OpsAreNumbers DEF NeededIsRetained, Kept, TypeOK, RuntimeTypeOK
<1> QED
  BY <1>5, <1>6, <1>7, <1>8, <1>9, <1>10

\* A worker moves to a step that neither submits nor records.
LEMMA WorkerMoves ==
  ASSUME DeploymentInv, NEW w \in Workers, NEW x \in Worker, x.job = NoOp <=> x.pc = "idle",
         x.pc \notin {"submit", "commit"},
         worker' = [worker EXCEPT ![w] = x],
         UNCHANGED <<job, refs, active, archive, wire, allowed, deleting, healthy, stage, route>>
  PROVE  DeploymentInv'
<1> USE DEF DeploymentInv
<1>1. worker'[w] = x /\ \A v \in Workers \ {w} : worker'[v] = worker[v]
  BY DEF TypeOK
<1>2. TypeOK'
  BY <1>1 DEF TypeOK, RuntimeTypeOK
<1>3. SubmissionInv'
  BY <1>1 DEF SubmissionInv
<1>4. ReportInv'
  BY <1>1 DEF ReportInv
<1> QED
  BY <1>2, <1>3, <1>4 DEF RouteInv, QueueInv, FollowInv, NeededIsRetained, Pending, Kept

LEMMA RestingIsIdle == Resting \in Worker /\ Resting.job = NoOp /\ Resting.pc = "idle"
BY DEF Resting, Doing, Worker

LEMMA IdleInv ==
  ASSUME DeploymentInv, NEW w \in Workers,
         \/ DispatchRefused(w) \/ Answered(w) \/ ReconcileRefused(w) \/ GiveUp(w)
         \/ \E d \in Ops : Observe(w, d)
  PROVE  DeploymentInv'
<1>1. UNCHANGED <<job, refs, active, archive, wire, allowed, deleting, healthy, stage, route>>
  BY DEF DispatchRefused, Answered, ReconcileRefused, GiveUp, Observe, runtimeVars
<1>2. CASE worker' = [worker EXCEPT ![w] = Resting]
  BY <1>1, <1>2, RestingIsIdle, WorkerMoves
<1>3. ASSUME NEW d \in Ops, worker' = [worker EXCEPT ![w] = Doing("inspect", d)]
      PROVE  DeploymentInv'
  <2>1. /\ Doing("inspect", d) \in Worker
        /\ Doing("inspect", d).job = d /\ Doing("inspect", d).pc = "inspect"
    BY DEF Doing, Worker
  <2> QED
    BY <1>1, <1>3, <2>1, WorkerMoves, OpsAreNumbers
<1>4. CASE Answered(w)
  <2>1. worker[w].job \in Ops
    BY <1>4 DEF Answered, Holds, DeploymentInv, TypeOK, Worker
  <2> QED
    BY <1>2, <1>3, <1>4, <2>1 DEF Answered, Release
<1> QED
  BY <1>2, <1>3, <1>4 DEF DispatchRefused, ReconcileRefused, GiveUp, Observe, Release

\* The claim, and the intent of a claimed deployment.
LEMMA ClaimInv ==
  ASSUME DeploymentInv, NEW w \in Workers, NEW d \in Ops, ClaimNodeDeployment(w, d)
  PROVE  DeploymentInv'
<1> USE DEF DeploymentInv, ClaimNodeDeployment
<1>1. /\ UNCHANGED <<refs, active, archive, wire, allowed, deleting, healthy, stage, route>>
      /\ job[d].state = "queued"
  BY DEF runtimeVars
<1>2. /\ job' \in [Ops -> Job] /\ job'[d].state = "running"
      /\ job'[d].release = job[d].release /\ job'[d].intent = job[d].intent
      /\ \A e \in Ops \ {d} : job'[e] = job[e]
      /\ \A e \in Ops : job'[e].release = NoRelease <=> job'[e].state = "none"
  BY <1>1, JobMoved
<1>3. /\ Doing("dispatch", d) \in Worker
      /\ Doing("dispatch", d).job = d /\ Doing("dispatch", d).pc = "dispatch"
  BY DEF Doing, Worker
<1>4. /\ worker' \in [Workers -> Worker] /\ worker'[w] = Doing("dispatch", d)
      /\ \A v \in Workers \ {w} : worker'[v] = worker[v]
  BY <1>3 DEF TypeOK
<1>5. \A e \in Ops : /\ Pending(e)' <=> Pending(e)
                     /\ job'[e].state # "none" <=> job[e].state # "none"
                     /\ job'[e].release = job[e].release /\ job'[e].intent = job[e].intent
  BY <1>1, <1>2 DEF Pending
<1>6. d # active
  BY <1>1, OpsAreNumbers DEF QueueInv
<1>7. TypeOK'
  BY <1>1, <1>2, <1>3, <1>4, OpsAreNumbers DEF TypeOK, RuntimeTypeOK
<1>8. RouteInv' /\ ReportInv'
  BY <1>1, <1>3, <1>4 DEF RouteInv, ReportInv
<1>9. SubmissionInv'
  <2>1. \A v \in Workers : worker[v].pc = "submit" => worker[v].job \in Ops
    BY DEF TypeOK, Worker
  <2> QED
    BY <1>1, <1>3, <1>4, <1>5, <2>1 DEF SubmissionInv, TypeOK
<1>10. QueueInv'
  <2>1. active # NoOp => job'[active].state = "succeeded"
    BY <1>2, <1>6 DEF QueueInv, TypeOK
  <2> QED
    BY <1>1, <1>2, <1>5, <2>1 DEF QueueInv
<1>11. FollowInv'
  BY <1>1, <1>2, OpsAreNumbers DEF FollowInv, TypeOK, RuntimeTypeOK
<1>12. NeededIsRetained'
  <2>1. route.active # NoOp => route.active \in Ops
    BY DEF TypeOK, RuntimeTypeOK
  <2> QED
    BY <1>1, <1>5, <2>1 DEF NeededIsRetained, Kept
<1> QED
  BY <1>7, <1>8, <1>9, <1>10, <1>11, <1>12

LEMMA DispatchInv ==
  ASSUME DeploymentInv, NEW w \in Workers, DispatchNodeDeployment(w)
  PROVE  DeploymentInv'
<1> USE DEF DeploymentInv
<1> DEFINE d == worker[w].job
<1>1. d \in Ops
  BY DEF DispatchNodeDeployment, Holds, TypeOK, Worker
<1>2. /\ UNCHANGED <<refs, active, archive, wire, allowed, deleting, healthy, stage, route>>
      /\ job[d].state = "running" /\ job[d].intent = "no"
      /\ job' = [job EXCEPT ![d] = [@ EXCEPT !.intent = "yes"]]
      /\ worker' = [worker EXCEPT ![w] = Doing("submit", d)]
  BY DEF DispatchNodeDeployment, MayDispatch, runtimeVars
<1>3. stage[d] = "none" /\ d \notin wire
  BY <1>1, <1>2 DEF SubmissionInv
<1> HIDE DEF d
<1>4. /\ job' \in [Ops -> Job] /\ job'[d].intent = "yes"
      /\ \A e \in Ops \ {d} : job'[e] = job[e]
      /\ \A e \in Ops : job'[e].state = job[e].state /\ job'[e].release = job[e].release
  BY <1>1, <1>2 DEF TypeOK, Job, Flag
<1>5. /\ Doing("submit", d) \in Worker
      /\ Doing("submit", d).job = d /\ Doing("submit", d).pc = "submit"
  BY <1>1 DEF Doing, Worker
<1>6. /\ worker' \in [Workers -> Worker] /\ worker'[w] = Doing("submit", d)
      /\ \A v \in Workers \ {w} : worker'[v] = worker[v]
  BY <1>2, <1>5 DEF TypeOK
<1>7. \A e \in Ops : Pending(e)' <=> Pending(e)
  BY <1>4 DEF Pending
<1>8. TypeOK'
  BY <1>1, <1>2, <1>4, <1>5, <1>6, OpsAreNumbers DEF TypeOK, RuntimeTypeOK
<1>9. RouteInv' /\ ReportInv'
  BY <1>2, <1>5, <1>6 DEF RouteInv, ReportInv
<1>10. SubmissionInv'
  <2>1. \A v \in Workers : worker[v].pc = "submit" => worker[v].job \in Ops /\ worker[v].job # d
    BY <1>2 DEF SubmissionInv, TypeOK, Worker
  <2>2. \A e \in Ops : job[e].intent = "yes" => job'[e].intent = "yes"
    BY <1>4
  <2> QED
    BY <1>1, <1>2, <1>3, <1>4, <1>5, <1>6, <2>1, <2>2 DEF SubmissionInv, TypeOK
<1>11. QueueInv'
  BY <1>1, <1>2, <1>4, <1>7 DEF QueueInv, TypeOK
<1>12. FollowInv'
  BY <1>2, <1>4 DEF FollowInv, TypeOK, RuntimeTypeOK
<1>13. NeededIsRetained'
  <2>1. route.active # NoOp => route.active \in Ops
    BY DEF TypeOK, RuntimeTypeOK
  <2> QED
    BY <1>2, <1>4, <1>7, <2>1 DEF NeededIsRetained, Kept
<1> QED
  BY <1>8, <1>9, <1>10, <1>11, <1>12, <1>13

LEMMA SubmitInv ==
  ASSUME DeploymentInv, NEW w \in Workers, Submit(w)
  PROVE  DeploymentInv'
<1> USE DEF DeploymentInv
<1> DEFINE d == worker[w].job
<1>1. d \in Ops
  BY DEF Submit, Holds, TypeOK, Worker
<1>2. /\ UNCHANGED <<job, refs, active, archive, allowed, deleting, healthy, stage, route>>
      /\ worker[w].pc = "submit" /\ wire' = wire \cup {d}
      /\ worker' = [worker EXCEPT ![w] = Doing("await", d)]
  BY DEF Submit, Holds, runtimeVars
<1>3. job[d].intent = "yes" /\ stage[d] = "none" /\ d \notin wire
  BY <1>2 DEF SubmissionInv
<1>4. \A v \in Workers \ {w} : worker[v].pc = "submit" => worker[v].job # d
  BY <1>2 DEF SubmissionInv
<1> HIDE DEF d
<1>5. /\ Doing("await", d) \in Worker
      /\ Doing("await", d).job = d /\ Doing("await", d).pc = "await"
  BY <1>1 DEF Doing, Worker
<1>6. /\ worker' \in [Workers -> Worker] /\ worker'[w] = Doing("await", d)
      /\ \A v \in Workers \ {w} : worker'[v] = worker[v]
  BY <1>2, <1>5 DEF TypeOK
<1>7. TypeOK'
  BY <1>1, <1>2, <1>5, <1>6, OpsAreNumbers DEF TypeOK, RuntimeTypeOK
<1>8. SubmissionInv'
  <2>1. \A v \in Workers : worker'[v].pc = "submit" => v # w /\ worker'[v] = worker[v]
    BY <1>5, <1>6
  <2> QED
    BY <1>2, <1>3, <1>4, <2>1 DEF SubmissionInv
<1>9. ReportInv'
  BY <1>2, <1>5, <1>6 DEF ReportInv
<1> QED
  BY <1>2, <1>7, <1>8, <1>9 DEF RouteInv, QueueInv, FollowInv, NeededIsRetained, Pending, Kept

\* A submission arrives, once, or is lost.
LEMMA WireInv ==
  ASSUME DeploymentInv, NEW o \in Ops, Deliver(o) \/ Lose(o)
  PROVE  DeploymentInv'
<1> USE DEF DeploymentInv
<1>1. /\ UNCHANGED <<job, refs, active, archive, worker, allowed, deleting, healthy, route>>
      /\ o \in wire /\ wire' = wire \ {o}
  BY DEF Deliver, Accept, Lose, runtimeVars
<1>2. /\ stage[o] = "none" /\ job[o].intent = "yes"
      /\ stage' \in [Ops -> {"none", "accepted", "settled"}]
      /\ \A p \in Ops \ {o} : stage'[p] = stage[p]
  BY <1>1 DEF Deliver, Accept, Lose, runtimeVars, SubmissionInv, TypeOK, RuntimeTypeOK
<1>3. TypeOK'
  BY <1>1, <1>2 DEF TypeOK, RuntimeTypeOK
<1>4. RouteInv'
  BY <1>1, <1>2, OpsAreNumbers DEF RouteInv, TypeOK, RuntimeTypeOK
<1>5. SubmissionInv'
  <2>1. \A w \in Workers : worker[w].pc = "submit" => worker[w].job \in Ops /\ worker[w].job # o
    BY <1>1 DEF SubmissionInv, TypeOK, Worker
  <2> QED
    BY <1>1, <1>2, <2>1 DEF SubmissionInv, TypeOK
<1>6. QueueInv'
  BY <1>1, <1>2 DEF QueueInv, Pending
<1>7. ReportInv'
  <2>1. \A w \in Workers : worker[w].pc = "commit" => worker[w].job \in Ops /\ worker[w].job # o
    BY <1>2 DEF ReportInv, TypeOK, Worker
  <2> QED
    BY <1>1, <1>2, <2>1 DEF ReportInv
<1> QED
  BY <1>1, <1>3, <1>4, <1>5, <1>6, <1>7 DEF FollowInv, NeededIsRetained, Pending, Kept

\* The runtime works on what it has accepted, and that is a running deployment:
\* what is concluded it has settled.
LEMMA RuntimeInv ==
  ASSUME DeploymentInv, RuntimeWorks
  PROVE  DeploymentInv'
<1> USE DEF DeploymentInv
<1>1. UNCHANGED <<job, refs, active, archive, wire, worker, allowed, deleting, healthy>>
  BY DEF RuntimeWorks, portalVars
<1>2. PICK o \in Ops : Fence(o) \/ Switch(o) \/ Refuse(o) \/ Close(o)
  BY DEF RuntimeWorks, RuntimeStep
<1>3. stage[o] = "accepted" /\ job[o].intent = "yes" /\ job[o].state = "running"
  BY <1>2 DEF Fence, Switch, Refuse, Close, SubmissionInv, QueueInv
<1>4. /\ \A e \in Ops : stage[e] # "none" => job[e].state # "none"
      /\ \A e \in Ops : stage[e] # "none" => e <= o
  <2>1. \A e \in Ops : stage[e] # "none" => job[e].state # "none"
    BY DEF SubmissionInv, QueueInv
  <2> QED
    BY <1>3, <2>1 DEF QueueInv, Pending
<1>5. /\ route.fence \in Nat /\ route.active \in Nat /\ o \in Nat
      /\ route.fence \in Ops \cup {NoOp} /\ route.active \in Ops \cup {NoOp}
      /\ route = [fence |-> route.fence, status |-> route.status, active |-> route.active]
  BY OpsAreNumbers DEF TypeOK, RuntimeTypeOK
<1>6. \A w \in Workers : worker[w].pc = "commit" => worker[w].job \in Ops /\ worker[w].job # o
  BY <1>3 DEF ReportInv, TypeOK, Worker
<1>7. CASE Close(o)
  <2>1. /\ UNCHANGED route
        /\ stage' \in [Ops -> {"none", "accepted", "settled"}] /\ stage'[o] = "settled"
        /\ \A p \in Ops \ {o} : stage'[p] = stage[p]
    BY <1>7 DEF Close, TypeOK, RuntimeTypeOK
  <2>2. \A p \in Ops : stage'[p] = "none" <=> stage[p] = "none"
    BY <1>3, <2>1
  <2>3. TypeOK'
    BY <1>1, <2>1 DEF TypeOK, RuntimeTypeOK
  <2>4. RouteInv'
    BY <1>5, <2>1, <2>2 DEF RouteInv
  <2>5. SubmissionInv'
    <3>1. \A w \in Workers : worker[w].pc = "submit" => worker[w].job \in Ops
      BY DEF TypeOK, Worker
    <3> QED
      BY <1>1, <2>2, <3>1 DEF SubmissionInv, TypeOK
  <2>6. QueueInv'
    BY <1>1, <2>1 DEF QueueInv, Pending
  <2>7. ReportInv'
    BY <1>1, <1>6, <2>1 DEF ReportInv
  <2> QED
    BY <1>1, <2>1, <2>3, <2>4, <2>5, <2>6, <2>7 DEF FollowInv, NeededIsRetained, Pending, Kept
<1>8. CASE Fence(o) \/ Switch(o) \/ Refuse(o)
  <2>1. UNCHANGED stage
    BY <1>8 DEF Fence, Switch, Refuse
  <2>2. /\ route'.fence = o /\ route.fence <= o
        /\ route'.active = route.active \/ (Switch(o) /\ route'.active = o)
        /\ route'.status \in {"pending", "active", "failed"}
        /\ route'.status = "failed" => route'.active # o
        /\ route' = [fence |-> route'.fence, status |-> route'.status, active |-> route'.active]
    BY <1>5, <1>8 DEF Fence, Switch, Refuse
  <2>3. TypeOK'
    <3>1. route' \in [fence : Ops \cup {NoOp},
                      status : {"none", "pending", "active", "failed"}, active : Ops \cup {NoOp}]
      BY <1>5, <2>2
    <3> QED
      BY <1>1, <2>1, <3>1 DEF TypeOK, RuntimeTypeOK
  <2>4. RouteInv'
    BY <1>3, <1>5, <2>1, <2>2 DEF RouteInv
  <2>5. QueueInv'
    BY <1>1, <1>3, <2>1, <2>2 DEF QueueInv, Pending
  <2>6. ReportInv'
    <3>1. \A w \in Workers : worker[w].pc = "commit" => worker[w].job < o
      <4>1. \A w \in Workers : worker[w].pc = "commit" => worker[w].job <= o
        BY <1>5, <2>2, <1>6, OpsAreNumbers DEF ReportInv
      <4> QED
        BY <1>5, <1>6, <4>1, OpsAreNumbers
    <3>2. \A w \in Workers : worker[w].pc = "commit" => worker[w].job \in Nat
      BY <1>6, OpsAreNumbers
    <3> QED
      BY <1>1, <1>5, <2>1, <2>2, <3>1, <3>2 DEF ReportInv
  <2>7. FollowInv'
    BY <1>1, <1>3, <2>2, OpsAreNumbers DEF FollowInv
  <2>8. NeededIsRetained'
    BY <1>1, <1>3, <2>2 DEF NeededIsRetained, Pending, Kept
  <2> QED
    BY <1>1, <2>1, <2>3, <2>4, <2>5, <2>6, <2>7, <2>8 DEF SubmissionInv
<1> QED
  BY <1>2, <1>7, <1>8

\* The report is read: it is about a settled operation on the runtime's fence.
LEMMA InspectInv ==
  ASSUME DeploymentInv, NEW w \in Workers, InspectNodeRuntime(w)
  PROVE  DeploymentInv'
<1> USE DEF DeploymentInv
<1> DEFINE d == worker[w].job
           x == [pc |-> "commit", job |-> d, outcome |-> Outcome(d), seen |-> route.active]
<1>1. d \in Ops
  BY DEF InspectNodeRuntime, Holds, TypeOK, Worker
<1>2. UNCHANGED <<job, refs, active, archive, wire, allowed, deleting, healthy, stage, route>>
  BY DEF InspectNodeRuntime, runtimeVars
<1>3. CASE Outcome(d) = "none"
  BY <1>2, <1>3, RestingIsIdle, WorkerMoves DEF InspectNodeRuntime, Release
<1>4. CASE Outcome(d) # "none"
  <2>1. worker' = [worker EXCEPT ![w] = x]
    BY <1>4 DEF InspectNodeRuntime
  <2>2. stage[d] = "settled" /\ route.fence = d /\ Outcome(d) \in {"active", "failed"}
    BY <1>4 DEF Outcome
  <2>3. Outcome(d) = "active" => route.active = d
    BY DEF Outcome
  <2>4. Outcome(d) = "failed" => route.status = "failed" /\ route.active # d
    BY <2>2 DEF Outcome, RouteInv
  <2>5. /\ x \in Worker /\ x.pc = "commit" /\ x.job = d
        /\ x.outcome = Outcome(d) /\ x.seen = route.active
    BY <1>1, <2>2 DEF Worker, TypeOK, RuntimeTypeOK
  <2> HIDE DEF x, d
  <2>6. /\ worker' \in [Workers -> Worker] /\ worker'[w] = x
        /\ \A v \in Workers \ {w} : worker'[v] = worker[v]
    BY <2>1, <2>5 DEF TypeOK
  <2>7. TypeOK'
    BY <1>1, <1>2, <2>5, <2>6, OpsAreNumbers DEF TypeOK, RuntimeTypeOK
  <2>8. SubmissionInv'
    BY <1>2, <2>5, <2>6 DEF SubmissionInv
  <2>9. ReportInv'
    BY <1>1, <1>2, <2>2, <2>3, <2>4, <2>5, <2>6, OpsAreNumbers DEF ReportInv
  <2> QED
    BY <1>2, <2>7, <2>8, <2>9 DEF RouteInv, QueueInv, FollowInv, NeededIsRetained, Pending, Kept
<1> QED
  BY <1>3, <1>4

\* While the deployment is running nothing later was submitted, so that the
\* report still tells what the runtime serves.
LEMMA ReconcileInv ==
  ASSUME DeploymentInv, NEW w \in Workers, ReconcileNodeDeployment(w)
  PROVE  DeploymentInv'
<1> USE DEF DeploymentInv
<1> DEFINE d == worker[w].job
<1>1. /\ d \in Ops /\ worker[w].pc = "commit" /\ job[d].state = "running"
      /\ UNCHANGED <<archive, wire, allowed, deleting, healthy, stage, route>>
      /\ worker' = [worker EXCEPT ![w] = Resting]
  BY DEF ReconcileNodeDeployment, Release, Holds, TypeOK, Worker, runtimeVars
<1>2. /\ worker[w].outcome \in {"active", "failed"}
      /\ stage[d] = "settled" /\ d <= route.fence
  BY <1>1 DEF ReportInv, TypeOK, Worker
<1>3. route.fence = d
  <2>1. route.fence \in Ops /\ d \in Nat /\ route.fence \in Nat
    BY <1>1, <1>2, OpsAreNumbers DEF TypeOK, RuntimeTypeOK, NoOp, Ops
  <2>2. stage[route.fence] # "none"
    BY <2>1, OpsAreNumbers DEF RouteInv
  <2>3. job[route.fence].state # "none"
    BY <2>1, <2>2 DEF SubmissionInv, QueueInv
  <2>4. route.fence <= d
    BY <1>1, <2>1, <2>3 DEF QueueInv, Pending
  <2> QED
    BY <1>2, <2>1, <2>4
<1>4. /\ worker[w].outcome = "active" => route.active = d
      /\ worker[w].outcome = "failed" => route.active = worker[w].seen /\ route.active # d
  BY <1>1, <1>2, <1>3 DEF ReportInv
<1>5. \A e \in Ops \ {d} : ~Pending(e)
  BY <1>1, OpsAreNumbers DEF QueueInv, Pending
<1>6. d # active
  BY <1>1, OpsAreNumbers DEF QueueInv
<1> DEFINE s == IF worker[w].outcome = "active" THEN "succeeded" ELSE "failed"
<1>7. /\ job' = Moved(d, s, "none") /\ s \in {"succeeded", "failed"}
      /\ s = "succeeded" => active' = d /\ route.active = d
      /\ s = "failed" => active' = active /\ route.active = active /\ route.active # d
  BY <1>2, <1>4 DEF ReconcileNodeDeployment
<1>8. refs' \subseteq refs
  BY DEF ReconcileNodeDeployment
<1> HIDE DEF d, s
<1>9. /\ job' \in [Ops -> Job] /\ job'[d].state = s
      /\ job'[d].release = job[d].release /\ job'[d].intent = job[d].intent
      /\ \A e \in Ops \ {d} : job'[e] = job[e]
      /\ \A e \in Ops : job'[e].release = NoRelease <=> job'[e].state = "none"
  BY <1>1, <1>7, JobMoved
<1>10. /\ worker' \in [Workers -> Worker] /\ worker'[w] = Resting
       /\ \A v \in Workers \ {w} : worker'[v] = worker[v]
  BY <1>1, RestingIsIdle DEF TypeOK
<1>11. \A e \in Ops : ~Pending(e)'
  BY <1>5, <1>7, <1>9 DEF Pending
<1>12. TypeOK'
  BY <1>1, <1>7, <1>8, <1>9, <1>10, RestingIsIdle DEF TypeOK, RuntimeTypeOK
<1>13. RouteInv' /\ ReportInv'
  BY <1>1, <1>10, RestingIsIdle DEF RouteInv, ReportInv
<1>14. SubmissionInv'
  <2>1. \A v \in Workers : worker[v].pc = "submit" => worker[v].job \in Ops
    BY DEF TypeOK, Worker
  <2>2. \A e \in Ops : job'[e].intent = job[e].intent
    BY <1>9
  <2> QED
    BY <1>1, <1>10, <2>1, <2>2, RestingIsIdle DEF SubmissionInv, TypeOK
<1>15. QueueInv'
  <2>1. active' # NoOp => job'[active'].state = "succeeded"
    BY <1>1, <1>6, <1>7, <1>9 DEF QueueInv, TypeOK
  <2>2. \A e \in Ops : job'[e].intent = "yes" => job'[e].state \in {"running", "succeeded", "failed"}
    BY <1>7, <1>9 DEF QueueInv
  <2>3. \A e \in Ops : job'[e].state \in {"succeeded", "failed"} => stage'[e] = "settled"
    BY <1>1, <1>2, <1>9 DEF QueueInv
  <2>4. \A e \in Ops : job'[e].state = "failed" => route'.active # e
    BY <1>1, <1>7, <1>9 DEF QueueInv
  <2> QED
    BY <1>11, <2>1, <2>2, <2>3, <2>4 DEF QueueInv
<1>16. FollowInv'
  BY <1>1, <1>7 DEF FollowInv
<1>17. NeededIsRetained'
  <2>1. route.active # NoOp => route.active \in Ops
    BY DEF TypeOK, RuntimeTypeOK
  <2>2. \A e \in Ops : job'[e].release = job[e].release
    BY <1>9
  <2> QED
    BY <1>1, <1>11, <2>1, <2>2 DEF NeededIsRetained, Kept
<1> QED
  BY <1>12, <1>13, <1>14, <1>15, <1>16, <1>17

LEMMA StepInv == DeploymentInv /\ [Next]_vars => DeploymentInv'
BY StutterInv, SurroundingsInv, ArchiveInv, RequestInv, CancelInv, LeaseInv, IdleInv, ClaimInv,
   DispatchInv, SubmitInv, WireInv, RuntimeInv, InspectInv, ReconcileInv
   DEF Next, WorkerStep

-----------------------------------------------------------------------------
(* NodeDeployment: the theorems.                                           *)

\* The invariant holds whatever the workers, the network, the users and the
\* runtime do, in any order.
THEOREM Invariance == Spec => []DeploymentInv
BY InitInv, StepInv, PTL DEF Spec

\* The variables keep their types (node_deployments and the rest of
\* NodeDeployment's state).
THEOREM TypeCorrect == Spec => []TypeOK
BY Invariance, PTL DEF DeploymentInv

\* The portal records as active what the runtime serves, or the deployment that
\* is served is still running and will be reconciled; what failed or was
\* cancelled never comes up (WorkNodeDeployment, ReconcileNodeDeployment,
\* CancelNodeDeployment).
THEOREM RecordFollowsRuntime == Spec => []PortalFollowsRuntime
<1>1. DeploymentInv => PortalFollowsRuntime
  <2> SUFFICES ASSUME DeploymentInv
               PROVE  PortalFollowsRuntime
    OBVIOUS
  <2>1. ASSUME NEW d \in Ops, job[d].state \in {"failed", "cancelled"}
        PROVE  route.active # d /\ d \notin wire /\ stage[d] # "accepted"
    <3>1. CASE job[d].state = "failed"
      BY <3>1 DEF DeploymentInv, QueueInv, SubmissionInv
    <3>2. CASE job[d].state = "cancelled"
      BY <3>2, OpsAreNumbers DEF DeploymentInv, QueueInv, SubmissionInv, RouteInv
    <3> QED
      BY <2>1, <3>1, <3>2
  <2> QED
    BY <2>1 DEF DeploymentInv, FollowInv, PortalFollowsRuntime, FailedIsFinal
<1> QED
  BY <1>1, Invariance, PTL

\* The release that is served and the one that a pending deployment needs are
\* kept for as long as that lasts (DeleteNodeRelease, node_deployment_releases).
THEOREM RetainsNeeded == Spec => []NeededIsRetained
BY Invariance, PTL DEF DeploymentInv

-----------------------------------------------------------------------------
(* GitHubLink: a stored state or receipt is that of the attempt which may  *)
(* still connect.                                                          *)

LinkInv ==
  /\ linkState \in Links \cup {NoLink} /\ completion \in Links \cup {NoLink}
  /\ begun \in 0 .. MaxLinks /\ revision \in Nat
  /\ linkState # NoLink => linkState = entitled /\ completion = NoLink
  /\ completion # NoLink => completion = entitled

LEMMA LinkInitInv == LinkInit => LinkInv
BY LinkAssumption DEF LinkInit, LinkInv, Links, NoLink

LEMMA LinkStepInv == LinkInv /\ [LinkNext]_linkVars => LinkInv'
<1> SUFFICES ASSUME LinkInv, [LinkNext]_linkVars
             PROVE  LinkInv'
  OBVIOUS
<1> USE LinkAssumption DEF LinkInv, Links, NoLink
<1>1. CASE BeginGitHubLink
  BY <1>1 DEF BeginGitHubLink
<1>2. CASE DisconnectProject \/ LinkExpires \/ PortalRestarts
  BY <1>2 DEF DisconnectProject, LinkExpires, PortalRestarts
<1>3. ASSUME NEW k \in Links,
             \/ TakeCallback(k) \/ ConsumeGitHubLink(k) \/ KeepSelection(k)
             \/ ReadSelection(k) \/ ForgetSelection(k) \/ ProviderFails(k)
      PROVE  LinkInv'
  BY <1>3 DEF TakeCallback, ConsumeGitHubLink, KeepSelection, ReadSelection, ForgetSelection,
              ProviderFails
<1>4. ASSUME NEW k \in Links, SaveConnection(k)
      PROVE  LinkInv'
  BY <1>4 DEF SaveConnection, CompletionOf
<1>5. CASE UNCHANGED linkVars
  BY <1>5 DEF linkVars
<1> QED
  BY <1>1, <1>2, <1>3, <1>4, <1>5 DEF LinkNext

\* A connection is saved only from the attempt that was started last, if nobody
\* disconnected the project since, and once: a late answer of GitHub neither
\* replaces nor restores a connection (SaveGitHubConnection).
THEOREM LateLinksLose == LinkSpec => LateLinkLoses
<1>1. LinkInv /\ [LinkNext]_linkVars =>
        [\A k \in Links : revision' # revision /\ connected' = k => entitled = k]_linkVars
  <2> SUFFICES ASSUME LinkInv, LinkNext, NEW j \in Links, revision' # revision, connected' = j
               PROVE  entitled = j
    OBVIOUS
  <2> USE LinkAssumption DEF Links, NoLink
  <2>1. ASSUME NEW k \in Links, SaveConnection(k)
        PROVE  entitled = j
    BY <2>1 DEF SaveConnection, CompletionOf, LinkInv
  <2>2. CASE DisconnectProject
    BY <2>2 DEF DisconnectProject
  <2> QED
    BY <2>1, <2>2 DEF LinkNext, BeginGitHubLink, LinkExpires, PortalRestarts, TakeCallback,
         ConsumeGitHubLink, KeepSelection, ReadSelection, ForgetSelection, ProviderFails
<1> QED
  BY <1>1, LinkInitInv, LinkStepInv, PTL DEF LinkSpec, LateLinkLoses

-----------------------------------------------------------------------------
(* GitHubPipeline: the inductive invariant.                                *)

\* What exists of a push exists because of what came before it: no import
\* without an imported event, no pipeline without its import, no submitted job
\* without its pipeline.
ChainInv ==
  /\ \A n \in receipts : n <= Len(branch)
  /\ \A n \in Pushes : /\ event[n].state # "none" => n \in receipts
                       /\ import[n].state # "none" => event[n].state = "imported"
                       /\ pipe[n] # "none" => import[n].state = "succeeded"
                       /\ pub[n] # "none" => pipe[n] # "none"

\* One pipeline is active, and only an active one has a job under way.
PipesInv ==
  /\ \A m, n \in Pushes : pipe[m] \in Active /\ pipe[n] \in Active => m = n
  /\ \A n \in Pushes : pub[n] \in Unfinished => pipe[n] \in Active
  /\ \A n \in Pushes : pipe[n] = "succeeded" => pub[n] = "succeeded"
  /\ live # Manual => import[live].state = "succeeded"

\* The import of a push is of its commit, and what was stored is what is pinned.
PinInv ==
  /\ \A n \in Pushes : import[n].state # "none" => import[n].commit = branch[n] /\ branch[n] # Gone
  /\ \A i \in Jobs : import[i].state = "succeeded" => import[i].upload = import[i].commit

\* Once the newest push was deployed, what is deployed after it is of the same
\* commit.
DeployedInv ==
  pub[Len(branch)] = "succeeded" =>
    /\ live # Manual => import[live].upload = Tip
    /\ \A m \in Pushes : pub[m] \in Unfinished => import[m].upload = Tip

\* What a process has in hand.  Its push was stored, and if it is pruned meanwhile
\* it does not come back; what it fetches is what is pinned; and the head it was
\* told is that of the newest push, if that is the one it asked for, or if the
\* newest was deployed before it asked.
SoundTask(t) ==
  /\ t.job \in {"push", "pipe"} => t.n # Manual
  /\ t.job # "idle" /\ t.n # Manual => t.n \in receipts
  /\ t.job \in {"pin", "fetch"} /\ t.n = Manual => import[t.n].state # "none"
  /\ t.job \in {"pin", "fetch", "pipe"} /\ t.n # Manual => event[t.n].state \in {"none", "imported"}
  /\ t.job = "fetch" => t.head # Gone /\ (import[t.n].state # "none" => import[t.n].commit = t.head)
  /\ t.job = "push" => t.head # Gone
  /\ t.job \in {"push", "pipe"} /\ t.n = Len(branch) /\ t.head # Gone => t.head = Tip
  /\ t.job = "pipe" => pipe[t.n] # "none" \/ event[t.n].state = "none"
  /\ t.job = "pipe" /\ t.head # Gone /\ pipe[t.n] \in Active /\ pub[t.n] = "none"
       /\ pub[Len(branch)] = "succeeded" => t.head = Tip

TaskInv == \A w \in Processes : SoundTask(task[w])

PipelineInv ==
  /\ PipelineTypeOK
  /\ ChainInv
  /\ PipesInv
  /\ PinInv
  /\ DeployedInv
  /\ NewestIsNotSuperseded
  /\ TaskInv

-----------------------------------------------------------------------------
(* GitHubPipeline: what a step does to the rows preserves the invariant,   *)
(* whichever step it is.                                                   *)

\* What is said of the rows, and the tasks that stay sound.
RowsInv == ChainInv /\ PipesInv /\ PinInv /\ DeployedInv /\ NewestIsNotSuperseded

LEMMA PushNumbers ==
  /\ Manual \notin Pushes /\ Jobs = {Manual} \cup Pushes /\ Pushes \subseteq Nat
  /\ Gone \in Heads /\ Manual = 0
  /\ PipelineTypeOK =>
            /\ Len(branch) \in Pushes /\ Tip = branch[Len(branch)] /\ Tip \in Heads
            /\ \A n \in Nat : n >= 1 /\ n <= Len(branch) => n \in Pushes /\ branch[n] \in Heads
<1>1. Manual \notin Pushes /\ Jobs = {Manual} \cup Pushes /\ Pushes \subseteq Nat /\ Gone \in Heads
      /\ Manual = 0
  BY PipelineAssumption DEF Manual, Pushes, Jobs, Heads
<1>2. ASSUME PipelineTypeOK
      PROVE  /\ Len(branch) \in Pushes /\ Tip = branch[Len(branch)] /\ Tip \in Heads
             /\ \A n \in Nat : n >= 1 /\ n <= Len(branch) => n \in Pushes /\ branch[n] \in Heads
  <2>1. branch \in Seq(Heads) /\ Len(branch) \in Pushes
    BY <1>2 DEF PipelineTypeOK
  <2>2. Len(branch) \in Nat /\ Len(branch) >= 1 /\ Len(branch) <= MaxPushes /\ MaxPushes \in Nat
    BY <2>1, PipelineAssumption DEF Pushes
  <2>3. \A n \in 1 .. Len(branch) : branch[n] \in Heads
    BY <2>1
  <2> QED
    BY <2>1, <2>2, <2>3 DEF Tip, Last, Pushes
<1> QED
  BY <1>1, <1>2

\* A step of which the rows show nothing.
LEMMA QuietMoves ==
  ASSUME PipelineInv,
         UNCHANGED <<branch, receipts, pipe, pub, live>>,
         \A n \in Pushes : event'[n].state = event[n].state /\ event'[n].error = event[n].error,
         \A i \in Jobs : /\ import'[i].state = import[i].state
                         /\ import'[i].commit = import[i].commit
                         /\ import'[i].upload = import[i].upload
  PROVE  RowsInv' /\ \A t \in Tasks : SoundTask(t) => SoundTask(t)'
<1> USE PushNumbers
<1>0. Tip' = Tip /\ Len(branch) \in Pushes /\ live \in Jobs
  BY DEF Tip, PipelineInv, PipelineTypeOK
<1>1. ChainInv' BY DEF PipelineInv, ChainInv
<1>2. PipesInv' BY <1>0 DEF PipelineInv, PipesInv
<1>3. PinInv' BY DEF PipelineInv, PinInv
<1>4. DeployedInv' BY <1>0 DEF PipelineInv, DeployedInv
<1>5. NewestIsNotSuperseded' BY <1>0 DEF PipelineInv, NewestIsNotSuperseded
<1>6. ASSUME NEW t \in Tasks, SoundTask(t) PROVE SoundTask(t)'
  BY <1>0, <1>6 DEF SoundTask, Tasks
<1> QED BY <1>1, <1>2, <1>3, <1>4, <1>5, <1>6 DEF RowsInv

\* The branch moves: nothing is known yet of the new push.
LEMMA BranchMoves ==
  ASSUME PipelineInv, NEW h \in Heads, Len(branch) < MaxPushes, branch' = Append(branch, h),
         UNCHANGED <<receipts, event, import, pipe, pub, live>>
  PROVE  RowsInv' /\ \A t \in Tasks : SoundTask(t) => SoundTask(t)'
<1> USE PushNumbers
<1>0. /\ Len(branch) \in Pushes /\ Len(branch)' = Len(branch) + 1 /\ Tip' = h /\ live \in Jobs
      /\ Len(branch)' \in Pushes
      /\ \A n \in Pushes : n <= Len(branch) => branch'[n] = branch[n]
  BY PipelineAssumption DEF Tip, Last, PipelineInv, PipelineTypeOK, Pushes
<1>1. ChainInv' BY <1>0 DEF PipelineInv, ChainInv, PipelineTypeOK
<1>a. Len(branch)' \notin receipts BY <1>0 DEF PipelineInv, ChainInv
<1>b. /\ event[Len(branch)'].state = "none" /\ import[Len(branch)'].state = "none"
      /\ pipe[Len(branch)'] = "none" /\ pub[Len(branch)'] = "none"
  BY <1>0, <1>a DEF PipelineInv, ChainInv
<1>2. PipesInv' BY <1>0 DEF PipelineInv, PipesInv
<1>3. PinInv'
  <2>1. \A n \in Pushes : import[n].state # "none" => n <= Len(branch)
    BY DEF PipelineInv, ChainInv
  <2> QED BY <1>0, <2>1 DEF PipelineInv, PinInv
<1>4. DeployedInv' BY <1>0, <1>b DEF DeployedInv
<1>5. NewestIsNotSuperseded' BY <1>0, <1>b DEF NewestIsNotSuperseded
<1>6. ASSUME NEW t \in Tasks, SoundTask(t) PROVE SoundTask(t)'
  <2>1. t.job \in {"push", "pipe"} => t.n # Len(branch)'
    BY <1>6, <1>a DEF SoundTask
  <2> QED BY <1>0, <1>b, <1>6, <2>1 DEF SoundTask, Tasks
<1> QED BY <1>1, <1>2, <1>3, <1>4, <1>5, <1>6 DEF RowsInv

\* A push is stored.
LEMMA ReceiptMoves ==
  ASSUME PipelineInv, NEW n \in Pushes, n <= Len(branch), n \notin receipts,
         receipts' = receipts \cup {n},
         UNCHANGED <<branch, import, pipe, pub, live>>,
         event'[n].state = "pending",
         \A m \in Pushes : m # n => event'[m] = event[m]
  PROVE  RowsInv' /\ \A t \in Tasks : SoundTask(t) => SoundTask(t)'
<1> USE PushNumbers
<1>0. Tip' = Tip /\ Len(branch) \in Pushes /\ live \in Jobs
  BY DEF Tip, PipelineInv, PipelineTypeOK
<1>a. /\ event[n].state = "none" /\ import[n].state = "none" /\ pipe[n] = "none"
      /\ pub[n] = "none"
  BY DEF PipelineInv, ChainInv
<1>1. ChainInv' BY <1>a DEF PipelineInv, ChainInv
<1>2. PipesInv' BY <1>0 DEF PipelineInv, PipesInv
<1>3. PinInv' BY DEF PipelineInv, PinInv
<1>4. DeployedInv' BY <1>0 DEF PipelineInv, DeployedInv
<1>5. NewestIsNotSuperseded' BY <1>0, <1>a DEF PipelineInv, NewestIsNotSuperseded
<1>6. ASSUME NEW t \in Tasks, SoundTask(t) PROVE SoundTask(t)'
  BY <1>0, <1>6, <1>a DEF SoundTask, Tasks
<1> QED BY <1>1, <1>2, <1>3, <1>4, <1>5, <1>6 DEF RowsInv

\* A settled push is pruned; it is not the one the website shows.
LEMMA PruneMoves ==
  ASSUME PipelineInv, NEW n \in Pushes, pipe[n] \notin Active, live # n,
         UNCHANGED <<branch, receipts, live>>,
         event'[n].state = "none", import'[n].state = "none",
         pipe'[n] = "none", pub'[n] = "none",
         \A m \in Pushes : m # n => event'[m] = event[m] /\ pipe'[m] = pipe[m],
         \A j \in Jobs : j # n => import'[j] = import[j] /\ pub'[j] = pub[j]
  PROVE  RowsInv' /\ \A t \in Tasks : SoundTask(t) => SoundTask(t)'
<1> USE PushNumbers
<1>0. Tip' = Tip /\ Len(branch) \in Pushes /\ live \in Jobs
  BY DEF Tip, PipelineInv, PipelineTypeOK
<1>1. ChainInv' BY DEF PipelineInv, ChainInv
<1>2. PipesInv' BY <1>0 DEF PipelineInv, PipesInv, Active, Unfinished
<1>3. PinInv' BY DEF PipelineInv, PinInv
<1>4. DeployedInv' BY <1>0 DEF PipelineInv, DeployedInv, Unfinished
<1>5. NewestIsNotSuperseded' BY <1>0 DEF PipelineInv, NewestIsNotSuperseded
<1>6. ASSUME NEW t \in Tasks, SoundTask(t) PROVE SoundTask(t)'
  BY <1>0, <1>6 DEF SoundTask, Tasks, Active
<1> QED BY <1>1, <1>2, <1>3, <1>4, <1>5, <1>6 DEF RowsInv

\* A push is worked on, or settled without an import.
LEMMA EventMoves ==
  ASSUME PipelineInv, NEW n \in Pushes, event[n].state \in {"pending", "running"},
         UNCHANGED <<branch, receipts, import, pipe, pub, live>>,
         event'[n].state \in {"running", "failed", "skipped"},
         event'[n].state = "skipped" /\ event'[n].error = "none" /\ n = Len(branch) => Tip = Gone,
         \A m \in Pushes : m # n => event'[m] = event[m]
  PROVE  RowsInv' /\ \A t \in Tasks : SoundTask(t) => SoundTask(t)'
<1> USE PushNumbers
<1>0. Tip' = Tip /\ Len(branch) \in Pushes /\ live \in Jobs
  BY DEF Tip, PipelineInv, PipelineTypeOK
<1>1. ChainInv' BY DEF PipelineInv, ChainInv
<1>2. PipesInv' BY <1>0 DEF PipelineInv, PipesInv
<1>3. PinInv' BY DEF PipelineInv, PinInv
<1>4. DeployedInv' BY <1>0 DEF PipelineInv, DeployedInv
<1>5. NewestIsNotSuperseded' BY <1>0 DEF PipelineInv, NewestIsNotSuperseded
<1>6. ASSUME NEW t \in Tasks, SoundTask(t) PROVE SoundTask(t)'
  BY <1>0, <1>6 DEF SoundTask, Tasks
<1> QED BY <1>1, <1>2, <1>3, <1>4, <1>5, <1>6 DEF RowsInv

\* A push gets its import, of the commit that was pushed.
LEMMA ImportedMoves ==
  ASSUME PipelineInv, NEW n \in Pushes, event[n].state = "running", branch[n] # Gone,
         UNCHANGED <<branch, receipts, pipe, pub, live>>,
         event'[n].state = "imported", import'[n].state = "queued",
         import'[n].commit = branch[n],
         \A m \in Pushes : m # n => event'[m] = event[m],
         \A i \in Jobs : i # n => import'[i] = import[i]
  PROVE  RowsInv' /\ \A t \in Tasks : SoundTask(t) => SoundTask(t)'
<1> USE PushNumbers
<1>0. Tip' = Tip /\ Len(branch) \in Pushes /\ live \in Jobs
  BY DEF Tip, PipelineInv, PipelineTypeOK
<1>a. import[n].state = "none" /\ pipe[n] = "none" /\ pub[n] = "none"
  BY DEF PipelineInv, ChainInv
<1>1. ChainInv' BY <1>a DEF PipelineInv, ChainInv
<1>2. PipesInv' BY <1>0, <1>a DEF PipelineInv, PipesInv
<1>3. PinInv' BY <1>a DEF PipelineInv, PinInv
<1>4. DeployedInv' BY <1>0, <1>a DEF PipelineInv, PipesInv, DeployedInv, Unfinished
<1>5. NewestIsNotSuperseded' BY <1>0 DEF PipelineInv, NewestIsNotSuperseded
<1>6. ASSUME NEW t \in Tasks, SoundTask(t) PROVE SoundTask(t)'
  BY <1>0, <1>6, <1>a DEF SoundTask, Tasks
<1> QED BY <1>1, <1>2, <1>3, <1>4, <1>5, <1>6 DEF RowsInv

\* An import that is under way goes on or ends; the owner's own may start.
LEMMA ImportMoves ==
  ASSUME PipelineInv, NEW i \in Jobs,
         import[i].state \in Unfinished \/ (i = Manual /\ import[i].state = "none"),
         UNCHANGED <<branch, receipts, event, pipe, pub, live>>,
         import'[i].state # "none",
         i # Manual \/ (import[i].state # "none" /\ import[i].commit # Gone)
           => import'[i].commit = import[i].commit,
         import'[i].state = "succeeded" => import'[i].upload = import'[i].commit,
         \A j \in Jobs : j # i => import'[j] = import[j]
  PROVE  RowsInv' /\ \A t \in Tasks : SoundTask(t) => SoundTask(t)'
<1> USE PushNumbers
<1>0. Tip' = Tip /\ Len(branch) \in Pushes /\ live \in Jobs
  BY DEF Tip, PipelineInv, PipelineTypeOK
<1>a. i # Manual => /\ import[i].state \in Unfinished /\ import[i].state # "none"
                    /\ import[i].state # "succeeded"
                    /\ pipe[i] = "none" /\ pub[i] = "none" /\ live # i
  BY DEF PipelineInv, ChainInv, PipesInv, Unfinished
<1>1. ChainInv' BY <1>a DEF PipelineInv, ChainInv
<1>2. PipesInv' BY <1>0, <1>a DEF PipelineInv, PipesInv
<1>3. PinInv' BY <1>a DEF PipelineInv, PinInv
<1>4. DeployedInv' BY <1>0, <1>a DEF PipelineInv, DeployedInv, Unfinished
<1>5. NewestIsNotSuperseded' BY <1>0 DEF PipelineInv, NewestIsNotSuperseded
<1>6. ASSUME NEW t \in Tasks, SoundTask(t) PROVE SoundTask(t)'
  <2>1. t.n \in Jobs /\ (t.n # Manual => t.n \in Pushes) BY DEF Tasks
  <2>2. CASE t.n # i
    BY <1>0, <1>6, <2>1, <2>2 DEF SoundTask
  <2>3. CASE t.n = i
    BY <1>0, <1>6, <1>a, <2>1, <2>3 DEF SoundTask
  <2> QED BY <2>2, <2>3
<1> QED BY <1>1, <1>2, <1>3, <1>4, <1>5, <1>6 DEF RowsInv

\* A pipeline starts for an imported push, when none is active.
LEMMA StartMoves ==
  ASSUME PipelineInv, NEW n \in Pushes, \A m \in Pushes : pipe[m] \notin Active,
         import[n].state = "succeeded", pipe[n] = "none", pipe'[n] = "waiting",
         UNCHANGED <<branch, receipts, event, import, pub, live>>,
         \A m \in Pushes : m # n => pipe'[m] = pipe[m]
  PROVE  RowsInv' /\ \A t \in Tasks : SoundTask(t) => SoundTask(t)'
<1> USE PushNumbers
<1>0. Tip' = Tip /\ Len(branch) \in Pushes /\ live \in Jobs
  BY DEF Tip, PipelineInv, PipelineTypeOK
<1>a. event[n].state = "imported"
  BY DEF PipelineInv, ChainInv
<1>1. ChainInv' BY DEF PipelineInv, ChainInv
<1>2. PipesInv' BY <1>0 DEF PipelineInv, PipesInv
<1>3. PinInv' BY DEF PipelineInv, PinInv
<1>4. DeployedInv' BY <1>0 DEF PipelineInv, DeployedInv
<1>5. NewestIsNotSuperseded' BY <1>0 DEF PipelineInv, NewestIsNotSuperseded
<1>6. ASSUME NEW t \in Tasks, SoundTask(t) PROVE SoundTask(t)'
  BY <1>0, <1>6, <1>a DEF SoundTask, Tasks
<1> QED BY <1>1, <1>2, <1>3, <1>4, <1>5, <1>6 DEF RowsInv

\* The active pipeline goes on or ends.
LEMMA PipeMoves ==
  ASSUME PipelineInv, NEW n \in Pushes, pipe[n] \in Active, pipe'[n] # "none",
         pipe'[n] \in Active \/ pub[n] \notin Unfinished,
         pipe'[n] = "succeeded" => pub[n] = "succeeded",
         pipe'[n] = "superseded" /\ n = Len(branch) => Tip = Gone,
         UNCHANGED <<branch, receipts, event, import, pub, live>>,
         \A m \in Pushes : m # n => pipe'[m] = pipe[m]
  PROVE  RowsInv' /\ \A t \in Tasks : SoundTask(t) => SoundTask(t)'
<1> USE PushNumbers
<1>0. Tip' = Tip /\ Len(branch) \in Pushes /\ live \in Jobs
  BY DEF Tip, PipelineInv, PipelineTypeOK
<1>1. ChainInv' BY DEF PipelineInv, ChainInv, Active
<1>2. PipesInv' BY <1>0 DEF PipelineInv, PipesInv
<1>3. PinInv' BY DEF PipelineInv, PinInv
<1>4. DeployedInv' BY <1>0 DEF PipelineInv, DeployedInv
<1>5. NewestIsNotSuperseded' BY <1>0 DEF PipelineInv, NewestIsNotSuperseded
<1>6. ASSUME NEW t \in Tasks, SoundTask(t) PROVE SoundTask(t)'
  BY <1>0, <1>6 DEF SoundTask, Tasks
<1> QED BY <1>1, <1>2, <1>3, <1>4, <1>5, <1>6 DEF RowsInv

\* The active pipeline submits its publication.
LEMMA SubmitMoves ==
  ASSUME PipelineInv, NEW n \in Pushes, pipe[n] \in Active, pub[n] = "none",
         pipe'[n] = "publishing", pub'[n] = "queued",
         pub[Len(branch)] = "succeeded" => import[n].upload = Tip,
         UNCHANGED <<branch, receipts, event, import, live>>,
         \A m \in Pushes : m # n => pipe'[m] = pipe[m],
         \A j \in Jobs : j # n => pub'[j] = pub[j]
  PROVE  RowsInv' /\ \A t \in Tasks : SoundTask(t) => SoundTask(t)'
<1> USE PushNumbers
<1>0. Tip' = Tip /\ Len(branch) \in Pushes /\ live \in Jobs
  BY DEF Tip, PipelineInv, PipelineTypeOK
<1>1. ChainInv' BY DEF PipelineInv, ChainInv, Active
<1>2. PipesInv' BY <1>0 DEF PipelineInv, PipesInv, Active
<1>3. PinInv' BY DEF PipelineInv, PinInv
<1>4. DeployedInv' BY <1>0 DEF PipelineInv, DeployedInv
<1>5. NewestIsNotSuperseded' BY <1>0 DEF PipelineInv, NewestIsNotSuperseded
<1>6. ASSUME NEW t \in Tasks, SoundTask(t) PROVE SoundTask(t)'
  BY <1>0, <1>6 DEF SoundTask, Tasks
<1> QED BY <1>1, <1>2, <1>3, <1>4, <1>5, <1>6 DEF RowsInv

\* A publication moves on or ends, or the owner's own is requested.
LEMMA PublicationMoves ==
  ASSUME PipelineInv, NEW j \in Jobs, j = Manual \/ pub[j] \in Unfinished, pub'[j] # "none",
         IF pub'[j] = "succeeded" THEN live' = j ELSE live' = live,
         UNCHANGED <<branch, receipts, event, import, pipe>>,
         \A i \in Jobs : i # j => pub'[i] = pub[i]
  PROVE  RowsInv' /\ \A t \in Tasks : SoundTask(t) => SoundTask(t)'
<1> USE PushNumbers
<1>0. Tip' = Tip /\ Len(branch) \in Pushes /\ live \in Jobs
  BY DEF Tip, PipelineInv, PipelineTypeOK
<1>a. j # Manual => /\ pub[j] \in Unfinished /\ pub[j] # "none" /\ pub[j] # "succeeded"
                    /\ pipe[j] \in Active /\ pipe[j] # "none" /\ pipe[j] # "succeeded"
                    /\ import[j].state = "succeeded" /\ import[j].upload = branch[j]
  BY DEF PipelineInv, ChainInv, PipesInv, PinInv, Unfinished, Active
<1>b. \A m \in Pushes : m # j /\ j # Manual => pub[m] \notin Unfinished
  BY <1>a DEF PipelineInv, PipesInv
<1>1. ChainInv' BY <1>a DEF PipelineInv, ChainInv
<1>2. PipesInv' BY <1>0, <1>a DEF PipelineInv, PipesInv
<1>3. PinInv' BY DEF PipelineInv, PinInv
<1>4. DeployedInv'
  <2>1. CASE j = Manual
    BY <2>1, <1>0 DEF PipelineInv, DeployedInv
  <2>2. CASE j # Manual /\ j = Len(branch)
    BY <2>2, <1>0, <1>a, <1>b DEF PipelineInv, DeployedInv, Unfinished
  <2>3. CASE j # Manual /\ j # Len(branch)
    BY <2>3, <1>0, <1>a DEF PipelineInv, DeployedInv
  <2> QED BY <2>1, <2>2, <2>3
<1>5. NewestIsNotSuperseded' BY <1>0 DEF PipelineInv, NewestIsNotSuperseded
<1>6. ASSUME NEW t \in Tasks, SoundTask(t) PROVE SoundTask(t)'
  BY <1>0, <1>6, <1>a DEF SoundTask, Tasks, PipelineInv, PipesInv
<1> QED BY <1>1, <1>2, <1>3, <1>4, <1>5, <1>6 DEF RowsInv

-----------------------------------------------------------------------------
(* GitHubPipeline: types.                                                  *)

LEMMA Rows ==
  /\ \A s, e, a, l, r : /\ Event(s, e, a, l, r).state = s /\ Event(s, e, a, l, r).error = e
                        /\ Event(s, e, a, l, r).attempts = a /\ Event(s, e, a, l, r).lease = l
                        /\ Event(s, e, a, l, r).rev = r
  /\ \A s, a, l, r, c, u : /\ Import(s, a, l, r, c, u).state = s
                           /\ Import(s, a, l, r, c, u).attempts = a
                           /\ Import(s, a, l, r, c, u).lease = l /\ Import(s, a, l, r, c, u).rev = r
                           /\ Import(s, a, l, r, c, u).commit = c
                           /\ Import(s, a, l, r, c, u).upload = u
  /\ \A j, n, h : Task(j, n, h).job = j /\ Task(j, n, h).n = n /\ Task(j, n, h).head = h
  /\ \A e, s, x : Finished(e, s, x).state = s /\ Finished(e, s, x).error = x
  /\ \A i, s, u : /\ Ended(i, s, u).state = s /\ Ended(i, s, u).commit = i.commit
                  /\ Ended(i, s, u).upload = u
  /\ \A c : NewImport(c).state = "queued" /\ NewImport(c).commit = c
BY DEF Event, Import, Task, Finished, Ended, NewImport

LEMMA EventType ==
  ASSUME NEW s \in {"none", "pending", "running", "skipped", "failed", "imported"},
         NEW x \in {"none", "unavailable"}, NEW a \in 0 .. MaxAttempts,
         NEW l \in Processes \cup {Nobody}, NEW r \in Nat
  PROVE  Event(s, x, a, l, r) \in Events
BY DEF Event, Events

LEMMA ImportType ==
  ASSUME NEW s \in {"none", "queued", "running", "succeeded", "failed"},
         NEW a \in 0 .. MaxAttempts, NEW l \in Processes \cup {Nobody}, NEW r \in Nat,
         NEW c \in Heads, NEW u \in Heads
  PROVE  Import(s, a, l, r, c, u) \in Imports
BY DEF Import, Imports

LEMMA TaskType ==
  ASSUME NEW j \in {"idle", "push", "pin", "fetch", "pipe"}, NEW n \in Jobs, NEW h \in Heads
  PROVE  Task(j, n, h) \in Tasks
BY DEF Task, Tasks

LEMMA RowTypes ==
  /\ NoEvent \in Events /\ NoImport \in Imports /\ Idle \in Tasks /\ Idle.job = "idle"
  /\ \A e \in Events, s \in {"skipped", "failed", "imported"}, x \in {"none", "unavailable"} :
       Finished(e, s, x) \in Events
  /\ \A i \in Imports, s \in {"succeeded", "failed"}, u \in Heads : Ended(i, s, u) \in Imports
<1>1. 0 \in 0 .. MaxAttempts /\ Nobody \in Processes \cup {Nobody} /\ 0 \in Nat
      /\ Gone \in Heads /\ Manual \in Jobs
  BY PipelineAssumption, PushNumbers
<1>2. NoEvent \in Events
  BY <1>1, EventType DEF NoEvent
<1>3. NoImport \in Imports
  BY <1>1, ImportType DEF NoImport
<1>4. Idle \in Tasks /\ Idle.job = "idle"
  BY <1>1, TaskType DEF Idle, Task
<1>5. ASSUME NEW e \in Events, NEW s \in {"skipped", "failed", "imported"},
             NEW x \in {"none", "unavailable"}
      PROVE  Finished(e, s, x) \in Events
  <2>1. e.rev \in Nat
    BY DEF Events
  <2> QED BY <1>1, <2>1, EventType DEF Finished
<1>6. ASSUME NEW i \in Imports, NEW s \in {"succeeded", "failed"}, NEW u \in Heads
      PROVE  Ended(i, s, u) \in Imports
  <2>1. i.rev \in Nat /\ i.commit \in Heads
    BY DEF Imports
  <2> QED BY <1>1, <2>1, ImportType DEF Ended
<1> QED
  BY <1>2, <1>3, <1>4, <1>5, <1>6

LEMMA QueueTypes ==
  ASSUME NEW q \in Seq(Pushes), NEW n \in Pushes
  PROVE  /\ \A p \in DOMAIN q : RemoveAt(q, p) \in Seq(Pushes)
         /\ \A p \in 1 .. Len(q) + 1 : InsertAt(q, p, n) \in Seq(Pushes)
<1>1. ASSUME NEW p \in DOMAIN q PROVE RemoveAt(q, p) \in Seq(Pushes)
  <2>1. p \in 1 .. Len(q) /\ Len(q) \in Nat
    OBVIOUS
  <2>2. SubSeq(q, 1, p - 1) \in Seq(Pushes)
    BY <2>1
  <2>3. SubSeq(q, p + 1, Len(q)) \in Seq(Pushes)
    BY <2>1
  <2> QED BY <2>2, <2>3 DEF RemoveAt
<1>2. ASSUME NEW p \in 1 .. Len(q) + 1 PROVE InsertAt(q, p, n) \in Seq(Pushes)
  <2>1. Len(q) \in Nat
    OBVIOUS
  <2>2. SubSeq(q, 1, p - 1) \in Seq(Pushes)
    BY <2>1
  <2>3. SubSeq(q, p, Len(q)) \in Seq(Pushes)
    BY <2>1
  <2>4. <<n>> \in Seq(Pushes)
    OBVIOUS
  <2> QED BY <2>2, <2>3, <2>4 DEF InsertAt
<1> QED BY <1>1, <1>2

LEMMA PipelineTypes ==
  PipelineInv /\ [PipelineNext]_pipelineVars => PipelineTypeOK'
<1> SUFFICES ASSUME PipelineInv, PipelineTypeOK, [PipelineNext]_pipelineVars
             PROVE  PipelineTypeOK'
  BY DEF PipelineInv
<1>a. /\ branch \in Seq(Heads) /\ Len(branch) \in Pushes /\ Tip \in Heads
      /\ \A n \in Pushes : n <= Len(branch) => branch[n] \in Heads
  <2>1. \A n \in Pushes : n \in Nat /\ n >= 1
    BY PipelineAssumption DEF Pushes
  <2> QED BY <2>1, PushNumbers DEF PipelineTypeOK
<1>b. /\ queue \in Seq(Pushes) /\ receipts \subseteq Pushes
      /\ conn \in [rev : Nat, mode : {"auto", "manual", "off"}] /\ conn.rev \in Nat
      /\ event \in [Pushes -> Events] /\ import \in [Jobs -> Imports]
      /\ task \in [Processes -> Tasks] /\ owner \in BOOLEAN /\ hosting \in BOOLEAN
  BY DEF PipelineTypeOK
<1>c. /\ pipe \in [Pushes -> {"none", "succeeded", "failed", "cancelled", "superseded"} \cup Active]
      /\ build \in [Pushes -> {"none", "succeeded", "failed", "cancelled"} \cup Unfinished]
      /\ pub \in [Jobs -> {"none", "succeeded", "failed", "cancelled"} \cup Unfinished]
      /\ live \in Jobs /\ kind \in {"static", "node"} /\ changes \in 0 .. MaxChanges
  BY DEF PipelineTypeOK
<1>d. /\ Manual \in Jobs /\ Pushes \subseteq Jobs /\ Gone \in Heads /\ Idle \in Tasks
      /\ NoEvent \in Events /\ NoImport \in Imports
      /\ Nobody \in Processes \cup {Nobody} /\ 0 \in 0 .. MaxAttempts
      /\ MaxChanges \in Nat /\ MaxAttempts \in Nat
  <2>1. MaxChanges \in Nat /\ MaxAttempts \in Nat
    BY PipelineAssumption
  <2>2. 0 \in 0 .. MaxAttempts
    BY <2>1
  <2>3. Manual \in Jobs /\ Pushes \subseteq Jobs /\ Gone \in Heads
    BY PushNumbers
  <2> QED BY <2>1, <2>2, <2>3, RowTypes
<1>1. CASE Push
  BY <1>1, PipelineAssumption
     DEF Push, PipelineTypeOK, Pushes, inbox, jobs
<1>2. CASE SaveGitHubConnection \/ DisconnectGitHub \/ SetGitHubAutoDeploy
  BY <1>2
     DEF SaveGitHubConnection, DisconnectGitHub, SetGitHubAutoDeploy, Reconnected,
         Change, PipelineTypeOK, inbox, jobs
<1>3. CASE OwnerLeaves \/ HostingChanges
  <2>1. changes' \in 0 .. MaxChanges
    BY <1>3, <1>c, <1>d DEF OwnerLeaves, HostingChanges, Change
  <2>2. owner' \in BOOLEAN /\ hosting' \in BOOLEAN
    BY <1>3, <1>b DEF OwnerLeaves, HostingChanges
  <2> QED
    BY <1>3, <2>1, <2>2 DEF OwnerLeaves, HostingChanges, PipelineTypeOK, inbox, jobs
<1>4. CASE RequestGitHubImport
  <2>1. NewImport(Gone) \in Imports
    BY <1>b, <1>d, ImportType DEF NewImport
  <2>2. import' \in [Jobs -> Imports]
    BY <1>4, <1>b, <1>d, <2>1 DEF RequestGitHubImport
  <2>3. changes' \in 0 .. MaxChanges
    BY <1>4, <1>c, <1>d DEF RequestGitHubImport, Change
  <2> QED
    BY <1>4, <2>2, <2>3 DEF RequestGitHubImport, PipelineTypeOK, world, inbox, jobs
<1>5. CASE RequestPublication
  <2>1. changes' \in 0 .. MaxChanges
    BY <1>5, <1>c, <1>d DEF RequestPublication, Change
  <2>2. pub' \in [Jobs -> {"none", "succeeded", "failed", "cancelled"} \cup Unfinished]
    BY <1>5, <1>c DEF RequestPublication, Unfinished
  <2> QED
    BY <1>5, <2>1, <2>2 DEF RequestPublication, PipelineTypeOK, world, inbox
<1>6. ASSUME NEW n \in Pushes, AcceptGitHubPush(n)
      PROVE  PipelineTypeOK'
  <2>1. Event("pending", "none", 0, Nobody, conn.rev) \in Events
    BY <1>b, <1>d, EventType
  <2>2. PICK p \in {Len(queue), Len(queue) + 1} \ {0} : queue' = InsertAt(queue, p, n)
    BY <1>6 DEF AcceptGitHubPush
  <2>3. p \in 1 .. Len(queue) + 1
    BY <1>a, <1>b, <1>c, <1>d
  <2>4. queue' \in Seq(Pushes)
    BY <2>2, <2>3, <1>b, QueueTypes
  <2>5. event' \in [Pushes -> Events]
    BY <2>1, <1>b, <1>6 DEF AcceptGitHubPush
  <2> QED
    BY <1>6, <2>4, <2>5 DEF AcceptGitHubPush, PipelineTypeOK, world, jobs
<1>7. ASSUME NEW n \in Pushes, PruneGitHubHistory(n)
      PROVE  PipelineTypeOK'
  <2>1. queue' \in Seq(Pushes)
    BY <1>7, <1>b, QueueTypes DEF PruneGitHubHistory
  <2>2. event' \in [Pushes -> Events]
    BY <1>7, <1>b, <1>d DEF PruneGitHubHistory
  <2>3. import' \in [Jobs -> Imports]
    BY <1>7, <1>b, <1>d DEF PruneGitHubHistory
  <2> QED
    BY <1>7, <2>1, <2>2, <2>3 DEF PruneGitHubHistory, PipelineTypeOK, world
<1>8. ASSUME NEW n \in Pushes, PushLeaseExpires(n)
      PROVE  PipelineTypeOK'
  <2>1. [event[n] EXCEPT !.lease = Nobody] \in Events
    BY <1>a, <1>b, <1>c, <1>d DEF Events
  <2>2. event' \in [Pushes -> Events]
    BY <1>8, <1>b, <2>1 DEF PushLeaseExpires
  <2> QED
    BY <1>8, <2>2 DEF PushLeaseExpires, PipelineTypeOK, world, jobs
<1>9. ASSUME NEW n \in Pushes, ClaimNodeBuild(n) \/ FinishNodeBuild(n) \/ CancelNodeBuild(n)
      PROVE  PipelineTypeOK'
  BY <1>9 DEF ClaimNodeBuild, FinishNodeBuild, CancelNodeBuild, PipelineTypeOK, world, inbox,
              Unfinished
<1>10. ASSUME NEW j \in Jobs, ImportLeaseExpires(j)
       PROVE  PipelineTypeOK'
  <2>1. [import[j] EXCEPT !.lease = Nobody] \in Imports
    BY <1>a, <1>b, <1>c, <1>d DEF Imports
  <2>2. import' \in [Jobs -> Imports]
    BY <1>10, <1>b, <2>1 DEF ImportLeaseExpires
  <2> QED
    BY <1>10, <2>2 DEF ImportLeaseExpires, PipelineTypeOK, world, inbox, jobs
<1>11. ASSUME NEW j \in Jobs, ClaimPublication(j) \/ FinishPublication(j) \/ CancelDeployment(j)
       PROVE  PipelineTypeOK'
  BY <1>11 DEF ClaimPublication, FinishPublication, CancelDeployment, PipelineTypeOK, world,
               inbox, Unfinished
<1>12. ASSUME NEW w \in Processes, ClaimGitHubPush(w)
       PROVE  PipelineTypeOK'
  <2>1. PICK n \in Pushes :
          \/ event' = [event EXCEPT ![n] = Finished(@, "failed", "unavailable")] /\ UNCHANGED task
          \/ event' = [event EXCEPT ![n] = Finished(@, "skipped", "none")] /\ UNCHANGED task
          \/ event' = [event EXCEPT ![n] = Finished(@, "skipped", "unavailable")] /\ UNCHANGED task
          \/ /\ ~(event[n].attempts >= MaxAttempts)
             /\ event' = [event EXCEPT ![n] = Event("running", @.error, @.attempts + 1, w, @.rev)]
             /\ task' = [task EXCEPT ![w] = IF Tip = Gone THEN Idle ELSE Task("push", n, Tip)]
    BY <1>12 DEF ClaimGitHubPush
  <2>2. ~(event[n].attempts >= MaxAttempts)
          => Event("running", event[n].error, event[n].attempts + 1, w, event[n].rev) \in Events
    <3>1. event[n] \in Events
      BY <1>b
    <3>2. /\ event[n].error \in {"none", "unavailable"} /\ event[n].rev \in Nat
          /\ event[n].attempts \in 0 .. MaxAttempts
      BY <3>1 DEF Events
    <3>3. ~(event[n].attempts >= MaxAttempts) => event[n].attempts + 1 \in 0 .. MaxAttempts
      <4>1. MaxAttempts \in Nat
        BY <1>d
      <4>2. event[n].attempts \in Nat /\ event[n].attempts <= MaxAttempts
        BY <3>2, <4>1
      <4> QED BY <4>1, <4>2
    <3> QED BY <3>2, <3>3, EventType
  <2>3. Task("push", n, Tip) \in Tasks
    BY <1>a, <1>d, TaskType
  <2>4. task' \in [Processes -> Tasks]
    BY <2>1, <2>3, <1>b, <1>d
  <2>5. \E e \in Events : event' = [event EXCEPT ![n] = e]
    <3>1. event[n] \in Events
      BY <1>b
    <3>2. /\ Finished(event[n], "failed", "unavailable") \in Events
          /\ Finished(event[n], "skipped", "none") \in Events
          /\ Finished(event[n], "skipped", "unavailable") \in Events
      BY <3>1, RowTypes
    <3> QED BY <2>1, <2>2, <3>2
  <2>6. event' \in [Pushes -> Events]
    BY <2>5, <1>b
  <2> QED
    BY <1>12, <2>4, <2>6 DEF ClaimGitHubPush, PipelineTypeOK, world, jobs
<1>13. ASSUME NEW w \in Processes, CompleteGitHubPush(w)
       PROVE  PipelineTypeOK'
  <2> DEFINE n == task[w].n
  <2>1. n \in Pushes /\ n <= Len(branch)
    BY <1>13, <1>b, PushNumbers
       DEF CompleteGitHubPush, Tasks, PipelineInv, TaskInv, SoundTask, ChainInv
  <2>2. NewImport(branch[n]) \in Imports
    BY <2>1, <1>a, <1>b, <1>d, ImportType DEF NewImport
  <2>3. /\ \/ UNCHANGED event
           \/ event' = [event EXCEPT ![n] = Finished(@, "skipped", "none")]
           \/ event' = [event EXCEPT ![n] = Finished(@, "imported", "none")]
        /\ UNCHANGED import \/ import' = [import EXCEPT ![n] = NewImport(branch[n])]
        /\ task' = [task EXCEPT ![w] = Idle]
    BY <1>13 DEF CompleteGitHubPush
  <2> HIDE DEF n
  <2>4. /\ Finished(event[n], "skipped", "none") \in Events
        /\ Finished(event[n], "imported", "none") \in Events
    BY <2>1, <1>b, RowTypes
  <2>5. event' \in [Pushes -> Events]
    BY <2>1, <2>3, <2>4, <1>b
  <2>6. import' \in [Jobs -> Imports]
    BY <2>1, <2>2, <2>3, <1>b
  <2>7. task' \in [Processes -> Tasks]
    BY <2>3, <1>b, <1>d
  <2> QED
    BY <1>13, <2>5, <2>6, <2>7 DEF CompleteGitHubPush, PipelineTypeOK, world, jobs
<1>14. ASSUME NEW w \in Processes, ClaimGitHubImport(w)
       PROVE  PipelineTypeOK'
  <2>1. PICK i \in Jobs :
          \/ import' = [import EXCEPT ![i] = Ended(@, "failed", @.upload)] /\ UNCHANGED task
          \/ /\ ~(import[i].attempts >= MaxAttempts)
             /\ import' = [import EXCEPT ![i] = Import("running", @.attempts + 1, w, @.rev,
                                                       @.commit, @.upload)]
             /\ task' = [task EXCEPT ![w] = ImportTask(i)]
    BY <1>14 DEF ClaimGitHubImport, PendingImports
  <2>2. ~(import[i].attempts >= MaxAttempts)
          => Import("running", import[i].attempts + 1, w, import[i].rev, import[i].commit,
                    import[i].upload) \in Imports
    <3>1. import[i] \in Imports
      BY <1>b
    <3>2. /\ import[i].commit \in Heads /\ import[i].upload \in Heads /\ import[i].rev \in Nat
          /\ ~(import[i].attempts >= MaxAttempts) => import[i].attempts + 1 \in 0 .. MaxAttempts
      BY <3>1, <1>d DEF Imports
    <3> QED BY <3>2, ImportType
  <2>3. ImportTask(i) \in Tasks
    <3>1. import[i].commit \in Heads
      BY <1>b DEF Imports
    <3> QED BY <3>1, <1>a, TaskType DEF ImportTask
  <2>4. task' \in [Processes -> Tasks]
    BY <2>1, <2>3, <1>b
  <2>5. Ended(import[i], "failed", import[i].upload) \in Imports
    <3>1. import[i] \in Imports /\ import[i].upload \in Heads
      BY <1>b DEF Imports
    <3> QED BY <3>1, RowTypes
  <2>6. import' \in [Jobs -> Imports]
    BY <2>1, <2>2, <2>5, <1>b
  <2> QED
    BY <1>14, <2>4, <2>6 DEF ClaimGitHubImport, PipelineTypeOK, world, inbox, jobs
<1>15. ASSUME NEW w \in Processes, PinGitHubImportCommit(w)
       PROVE  PipelineTypeOK'
  <2> DEFINE i == task[w].n
  <2>1. i \in Jobs /\ task[w].head \in Heads /\ task[w] \in Tasks
    BY <1>b DEF Tasks
  <2>2. [task[w] EXCEPT !.job = "fetch"] \in Tasks
    BY <2>1 DEF Tasks
  <2>3. import[i] \in Imports
    BY <2>1, <1>b
  <2>4. /\ import' = [import EXCEPT ![i] = [@ EXCEPT !.commit = task[w].head]]
        /\ task' = [task EXCEPT ![w] = [@ EXCEPT !.job = "fetch"]]
    BY <1>15 DEF PinGitHubImportCommit
  <2> HIDE DEF i
  <2>5. [import[i] EXCEPT !.commit = task[w].head] \in Imports
    BY <2>1, <2>3 DEF Imports
  <2>6. import' \in [Jobs -> Imports]
    BY <2>1, <2>4, <2>5, <1>b
  <2>7. task' \in [Processes -> Tasks]
    BY <2>2, <2>4, <1>b
  <2> QED
    BY <1>15, <2>6, <2>7 DEF PinGitHubImportCommit, PipelineTypeOK, world, inbox, jobs
<1>16. ASSUME NEW w \in Processes, CompleteGitHubImport(w)
       PROVE  PipelineTypeOK'
  <2>1. task[w].n \in Jobs /\ task[w].head \in Heads
    BY <1>a, <1>b, <1>c, <1>d DEF Tasks
  <2>2. Ended(import[task[w].n], "succeeded", task[w].head) \in Imports
    BY <2>1, <1>b, RowTypes
  <2>3. import' \in [Jobs -> Imports]
    BY <1>16, <2>1, <2>2, <1>b DEF CompleteGitHubImport
  <2>4. task' \in [Processes -> Tasks]
    BY <1>16, <1>b, <1>d DEF CompleteGitHubImport
  <2> QED
    BY <1>16, <2>3, <2>4 DEF CompleteGitHubImport, PipelineTypeOK, world, inbox, jobs
<1>17. ASSUME NEW w \in Processes, FailGitHubImport(w)
       PROVE  PipelineTypeOK'
  <2>1. task[w].n \in Jobs
    BY <1>a, <1>b, <1>c, <1>d DEF Tasks
  <2>a. import[task[w].n] \in Imports /\ import[task[w].n].upload \in Heads
    BY <2>1, <1>b DEF Imports
  <2>2. Ended(import[task[w].n], "failed", import[task[w].n].upload) \in Imports
    BY <2>a, RowTypes
  <2>3. import' \in [Jobs -> Imports]
    BY <1>17, <2>1, <2>2, <1>b DEF FailGitHubImport
  <2>4. task' \in [Processes -> Tasks]
    BY <1>17, <1>b, <1>d DEF FailGitHubImport
  <2> QED
    BY <1>17, <2>3, <2>4 DEF FailGitHubImport, PipelineTypeOK, world, inbox, jobs
<1>18. ASSUME NEW w \in Processes, NextGitHubPipeline(w)
       PROVE  PipelineTypeOK'
  <2>1. PICK n \in Pushes : \/ task' = [task EXCEPT ![w] = Task("pipe", n, Gone)]
                            \/ task' = [task EXCEPT ![w] = Idle]
                            \/ task' = [task EXCEPT ![w] = Task("pipe", n, Tip)]
    BY <1>18 DEF NextGitHubPipeline
  <2>2. Task("pipe", n, Gone) \in Tasks /\ Task("pipe", n, Tip) \in Tasks
    BY <1>a, <1>d, TaskType
  <2>3. task' \in [Processes -> Tasks]
    BY <2>1, <2>2, <1>b, <1>d
  <2>4. UNCHANGED pipe \/ \E m \in Pushes : pipe' = [pipe EXCEPT ![m] = "waiting"]
    BY <1>18 DEF NextGitHubPipeline, Materialize
  <2> QED
    BY <1>18, <2>3, <2>4 DEF NextGitHubPipeline, PipelineTypeOK, world, inbox, Active
<1>19. ASSUME NEW w \in Processes, AdvanceGitHubPipeline(w)
       PROVE  PipelineTypeOK'
  <2> DEFINE n == task[w].n
  <2>1. n \in Pushes
    BY <1>19, <1>b DEF AdvanceGitHubPipeline, Tasks, PipelineInv, TaskInv, SoundTask
  <2>2. /\ UNCHANGED <<kind, branch, conn, owner, hosting, receipts, queue, event, import, live,
                      changes>>
        /\ task' = [task EXCEPT ![w] = Idle]
        /\ \/ UNCHANGED pipe
           \/ \E v \in {"succeeded", "failed", "cancelled", "superseded", "building",
                         "publishing"} : pipe' = [pipe EXCEPT ![n] = v]
        /\ UNCHANGED build \/ build' = [build EXCEPT ![n] = "queued"]
        /\ UNCHANGED pub \/ pub' = [pub EXCEPT ![n] = "queued"]
    BY <1>19 DEF AdvanceGitHubPipeline, world, inbox
  <2> HIDE DEF n
  <2>3. task' \in [Processes -> Tasks]
    BY <2>2, <1>b, <1>d
  <2>4. /\ pipe' \in [Pushes -> {"none", "succeeded", "failed", "cancelled", "superseded"}
                               \cup Active]
        /\ build' \in [Pushes -> {"none", "succeeded", "failed", "cancelled"} \cup Unfinished]
        /\ pub' \in [Jobs -> {"none", "succeeded", "failed", "cancelled"} \cup Unfinished]
    BY <2>1, <2>2, <1>c, <1>d DEF Active, Unfinished
  <2> QED
    BY <2>2, <2>3, <2>4 DEF PipelineTypeOK
<1>20. ASSUME NEW w \in Processes, Stop(w)
       PROVE  PipelineTypeOK'
  <2>1. task' \in [Processes -> Tasks]
    BY <1>20, <1>b, <1>d DEF Stop
  <2> QED BY <1>20, <2>1 DEF Stop, PipelineTypeOK, world, inbox, jobs
<1>21. CASE UNCHANGED pipelineVars
  BY <1>21 DEF pipelineVars, PipelineTypeOK
<1> QED
  BY <1>1, <1>2, <1>3, <1>4, <1>5, <1>6, <1>7, <1>8, <1>9, <1>10, <1>11, <1>12, <1>13, <1>14,
     <1>15, <1>16, <1>17, <1>18, <1>19, <1>20, <1>21 DEF PipelineNext, Process

-----------------------------------------------------------------------------
(* GitHubPipeline: every action preserves the invariant.                   *)

LEMMA PipelineFunctions ==
  ASSUME PipelineInv
  PROVE  /\ event \in [Pushes -> Events] /\ import \in [Jobs -> Imports]
         /\ task \in [Processes -> Tasks] /\ Idle \in Tasks
         /\ DOMAIN pipe = Pushes /\ DOMAIN pub = Jobs
         /\ \A w \in Processes : SoundTask(task[w])
BY RowTypes DEF PipelineInv, PipelineTypeOK, TaskInv

\* A process takes up a task, or puts one down, and no other task is broken.
LEMMA TasksMove ==
  ASSUME PipelineInv, \A t \in Tasks : SoundTask(t) => SoundTask(t)',
         NEW w \in Processes, NEW u \in Tasks, SoundTask(u)', task' = [task EXCEPT ![w] = u]
  PROVE  TaskInv'
<1>1. \A v \in Processes : /\ task'[v] = IF v = w THEN u ELSE task[v]
                           /\ task[v] \in Tasks /\ SoundTask(task[v])
  BY PipelineFunctions
<1>2. ASSUME NEW v \in Processes
      PROVE  \E t \in Tasks : task'[v] = t /\ SoundTask(t)'
  <2>1. PICK t \in Tasks : t = task[v]
    BY <1>1
  <2>2. SoundTask(t)
    BY <2>1, <1>1
  <2> QED BY <1>1, <2>1, <2>2
<1>3. ASSUME NEW v \in Processes
      PROVE  SoundTask(task[v])'
  <2>1. PICK t \in Tasks : task'[v] = t /\ SoundTask(t)'
    BY <1>2
  <2> QED BY <2>1 DEF SoundTask
<1> QED BY <1>3 DEF TaskInv

LEMMA TasksKept ==
  ASSUME PipelineInv, \A t \in Tasks : SoundTask(t) => SoundTask(t)', UNCHANGED task
  PROVE  TaskInv'
<1>1. ASSUME NEW v \in Processes
      PROVE  SoundTask(task[v])'
  <2>1. PICK t \in Tasks : t = task[v] /\ SoundTask(t)
    BY PipelineFunctions
  <2> QED BY <2>1 DEF SoundTask
<1> QED BY <1>1 DEF TaskInv

LEMMA TaskDone ==
  ASSUME PipelineInv, \A t \in Tasks : SoundTask(t) => SoundTask(t)',
         NEW w \in Processes, task' = [task EXCEPT ![w] = Idle]
  PROVE  TaskInv'
<1>1. Idle.job = "idle" /\ Idle \in Tasks
  BY RowTypes
<1>2. SoundTask(Idle)'
  BY <1>1 DEF SoundTask
<1> QED BY <1>1, <1>2, TasksMove

PipelineKept == RowsInv' /\ TaskInv'

LEMMA PushKept == PipelineInv /\ Push => PipelineKept
<1> SUFFICES ASSUME PipelineInv, Push PROVE PipelineKept
  OBVIOUS
<1>1. PICK h \in Heads : branch' = Append(branch, h)
  BY DEF Push
<1>2. /\ Len(branch) < MaxPushes
      /\ UNCHANGED <<receipts, event, import, pipe, pub, live, task>>
  BY DEF Push, inbox, jobs
<1> QED BY <1>1, <1>2, BranchMoves, TasksKept DEF PipelineKept

\* Steps of which the rows show nothing
LEMMA QuietKept ==
  ASSUME PipelineInv,
         \/ SaveGitHubConnection \/ DisconnectGitHub \/ SetGitHubAutoDeploy
         \/ OwnerLeaves \/ HostingChanges
         \/ \E n \in Pushes : ClaimNodeBuild(n) \/ FinishNodeBuild(n) \/ CancelNodeBuild(n)
         \/ UNCHANGED pipelineVars
  PROVE  PipelineKept
<1>1. UNCHANGED <<branch, receipts, event, import, pipe, pub, live, task>>
  BY DEF SaveGitHubConnection, DisconnectGitHub, SetGitHubAutoDeploy, Reconnected, OwnerLeaves,
         HostingChanges, ClaimNodeBuild, FinishNodeBuild, CancelNodeBuild, pipelineVars, world,
         inbox, jobs
<1> QED BY <1>1, QuietMoves, TasksKept DEF PipelineKept

LEMMA LeasesKept ==
  ASSUME PipelineInv,
         \/ \E n \in Pushes : PushLeaseExpires(n)
         \/ \E j \in Jobs : ImportLeaseExpires(j)
  PROVE  PipelineKept
<1>1. UNCHANGED <<branch, receipts, pipe, pub, live, task>>
  BY DEF PushLeaseExpires, ImportLeaseExpires, world, inbox, jobs
<1>2. \A n \in Pushes : event'[n].state = event[n].state /\ event'[n].error = event[n].error
  <2>1. CASE \E n \in Pushes : PushLeaseExpires(n)
    <3>1. PICK n \in Pushes : event' = [event EXCEPT ![n] = [@ EXCEPT !.lease = Nobody]]
      BY <2>1 DEF PushLeaseExpires
    <3>2. event[n] \in Events
      BY PipelineFunctions
    <3>3. \A m \in Pushes : event'[m] = IF m = n THEN [event[n] EXCEPT !.lease = Nobody]
                                      ELSE event[m]
      BY <3>1, PipelineFunctions
    <3> QED BY <3>2, <3>3 DEF Events
  <2>2. CASE \E j \in Jobs : ImportLeaseExpires(j)
    BY <2>2 DEF ImportLeaseExpires, inbox
  <2> QED BY <2>1, <2>2
<1>3. \A i \in Jobs : /\ import'[i].state = import[i].state
                      /\ import'[i].commit = import[i].commit
                      /\ import'[i].upload = import[i].upload
  BY PipelineFunctions DEF PushLeaseExpires, ImportLeaseExpires, Imports
<1> QED BY <1>1, <1>2, <1>3, QuietMoves, TasksKept DEF PipelineKept

LEMMA AcceptKept ==
  ASSUME PipelineInv, NEW n \in Pushes, AcceptGitHubPush(n)
  PROVE  PipelineKept
<1>1. /\ n <= Len(branch) /\ n \notin receipts /\ receipts' = receipts \cup {n}
      /\ UNCHANGED <<branch, import, pipe, pub, live, task>>
      /\ event' = [event EXCEPT ![n] = Event("pending", "none", 0, Nobody, conn.rev)]
  BY DEF AcceptGitHubPush, world, jobs
<1>2. event'[n].state = "pending" /\ \A m \in Pushes : m # n => event'[m] = event[m]
  BY <1>1, PipelineFunctions, Rows
<1> QED BY <1>1, <1>2, ReceiptMoves, TasksKept DEF PipelineKept

LEMMA PruneKept ==
  ASSUME PipelineInv, NEW n \in Pushes, PruneGitHubHistory(n)
  PROVE  PipelineKept
<1>1. /\ pipe[n] \notin Active /\ live # n
      /\ UNCHANGED <<branch, receipts, live, task>>
      /\ event' = [event EXCEPT ![n] = NoEvent] /\ import' = [import EXCEPT ![n] = NoImport]
      /\ pipe' = [pipe EXCEPT ![n] = "none"] /\ pub' = [pub EXCEPT ![n] = "none"]
  BY DEF PruneGitHubHistory, world
<1>2. n \in Jobs /\ NoEvent.state = "none" /\ NoImport.state = "none"
  BY PushNumbers, Rows DEF NoEvent, NoImport
<1>3. /\ event'[n].state = "none" /\ import'[n].state = "none"
      /\ pipe'[n] = "none" /\ pub'[n] = "none"
      /\ \A m \in Pushes : m # n => event'[m] = event[m] /\ pipe'[m] = pipe[m]
      /\ \A j \in Jobs : j # n => import'[j] = import[j] /\ pub'[j] = pub[j]
  BY <1>1, <1>2, PipelineFunctions
<1> QED BY <1>1, <1>3, PruneMoves, TasksKept DEF PipelineKept

LEMMA ClaimPushKept ==
  ASSUME PipelineInv, NEW w \in Processes, ClaimGitHubPush(w)
  PROVE  PipelineKept
<1>1. PICK n \in Pushes :
        /\ Oldest(n, Due)
        /\ \/ event' = [event EXCEPT ![n] = Finished(@, "failed", "unavailable")] /\ UNCHANGED task
           \/ /\ branch[n] = Gone
              /\ event' = [event EXCEPT ![n] = Finished(@, "skipped", "none")] /\ UNCHANGED task
           \/ /\ event' = [event EXCEPT ![n] = Finished(@, "skipped", "unavailable")]
              /\ UNCHANGED task
           \/ /\ event' = [event EXCEPT ![n] = Event("running", @.error, @.attempts + 1, w, @.rev)]
              /\ task' = [task EXCEPT ![w] = IF Tip = Gone THEN Idle ELSE Task("push", n, Tip)]
  BY DEF ClaimGitHubPush
<1>2. event[n].state \in {"pending", "running"}
  BY <1>1 DEF Oldest, Due
<1>3. UNCHANGED <<branch, receipts, import, pipe, pub, live>>
  BY DEF ClaimGitHubPush, world, jobs
<1>4. /\ event'[n].state \in {"running", "failed", "skipped"}
      /\ event'[n].state = "skipped" /\ event'[n].error = "none" => branch[n] = Gone
      /\ \A m \in Pushes : m # n => event'[m] = event[m]
  <2>1. /\ \/ event'[n] = Finished(event[n], "failed", "unavailable")
           \/ event'[n] = Finished(event[n], "skipped", "none") /\ branch[n] = Gone
           \/ event'[n] = Finished(event[n], "skipped", "unavailable")
           \/ event'[n] = Event("running", event[n].error, event[n].attempts + 1, w, event[n].rev)
        /\ \A m \in Pushes : m # n => event'[m] = event[m]
    BY <1>1, PipelineFunctions
  <2> QED BY <2>1, Rows
<1>5. n = Len(branch) => branch[n] = Tip
  BY PushNumbers DEF PipelineInv
<1>6. RowsInv' /\ \A t \in Tasks : SoundTask(t) => SoundTask(t)'
  BY <1>2, <1>3, <1>4, <1>5, EventMoves
<1>7. CASE UNCHANGED task
  BY <1>6, <1>7, TasksKept DEF PipelineKept
<1>8. CASE task' = [task EXCEPT ![w] = Idle]
  BY <1>6, <1>8, TaskDone DEF PipelineKept
<1>9. CASE Tip # Gone /\ task' = [task EXCEPT ![w] = Task("push", n, Tip)]
  <2>1. Tip \in Heads /\ n \in Jobs /\ Tip' = Tip
    BY PushNumbers, <1>3 DEF PipelineInv, Tip
  <2>2. Task("push", n, Tip) \in Tasks
    BY <2>1, TaskType
  <2>3. PICK u \in Tasks : u = Task("push", n, Tip)
    BY <2>2
  <2>4. u.job = "push" /\ u.n = n /\ u.head = Tip
    BY <2>3, Rows
  <2>5. n \in receipts
    BY <1>2 DEF PipelineInv, ChainInv
  <2>6. SoundTask(u)'
    BY <1>3, <1>9, <2>1, <2>4, <2>5, PushNumbers DEF SoundTask
  <2>7. TaskInv'
    BY <1>6, <1>9, <2>3, <2>6, TasksMove
  <2> QED BY <1>6, <2>7 DEF PipelineKept
<1> QED BY <1>1, <1>7, <1>8, <1>9

LEMMA CompletePushKept ==
  ASSUME PipelineInv, NEW w \in Processes, CompleteGitHubPush(w)
  PROVE  PipelineKept
<1> DEFINE n == task[w].n
<1>1. /\ task[w].job = "push" /\ task' = [task EXCEPT ![w] = Idle]
      /\ UNCHANGED <<branch, receipts, pipe, pub, live>>
  BY DEF CompleteGitHubPush, world, jobs
<1>2. n \in Pushes /\ task[w].head # Gone /\ (n = Len(branch) => task[w].head = Tip)
  BY <1>1, PipelineFunctions, PushNumbers DEF Tasks, SoundTask
<1>3. n = Len(branch) => branch[n] = Tip
  BY PushNumbers DEF PipelineInv
<1>4. CASE UNCHANGED <<event, import>>
  BY <1>1, <1>4, QuietMoves, TaskDone DEF PipelineKept
<1>5. CASE /\ event[n].state = "running" /\ Superseded(n, task[w].head)
           /\ event' = [event EXCEPT ![n] = Finished(@, "skipped", "none")] /\ UNCHANGED import
  <2>1. /\ event'[n].state = "skipped" /\ n # Len(branch)
        /\ \A m \in Pushes : m # n => event'[m] = event[m]
    <3>1. event'[n] = Finished(event[n], "skipped", "none")
          /\ \A m \in Pushes : m # n => event'[m] = event[m]
      BY <1>2, <1>5, PipelineFunctions
    <3>2. n # Len(branch)
      BY <1>2, <1>3, <1>5 DEF Superseded
    <3> QED BY <3>1, <3>2, Rows
  <2> QED BY <1>1, <1>2, <1>5, <2>1, EventMoves, TaskDone DEF PipelineKept
<1>6. CASE /\ event[n].state = "running" /\ ~Superseded(n, task[w].head)
           /\ event' = [event EXCEPT ![n] = Finished(@, "imported", "none")]
           /\ import' = IF import[n].state = "none"
                        THEN [import EXCEPT ![n] = NewImport(branch[n])] ELSE import
  <2>1. import[n].state = "none" /\ branch[n] # Gone /\ n \in Jobs
    BY <1>2, <1>6, PushNumbers DEF PipelineInv, ChainInv, Superseded
  <2>2. /\ event'[n].state = "imported" /\ import'[n].state = "queued"
        /\ import'[n].commit = branch[n]
        /\ \A m \in Pushes : m # n => event'[m] = event[m]
        /\ \A i \in Jobs : i # n => import'[i] = import[i]
    <3>1. /\ event'[n] = Finished(event[n], "imported", "none")
          /\ import'[n] = NewImport(branch[n])
          /\ \A m \in Pushes : m # n => event'[m] = event[m]
          /\ \A i \in Jobs : i # n => import'[i] = import[i]
      BY <1>2, <1>6, <2>1, PipelineFunctions
    <3> QED BY <3>1, Rows
  <2> QED BY <1>1, <1>2, <1>6, <2>1, <2>2, ImportedMoves, TaskDone DEF PipelineKept
<1> QED
  BY <1>4, <1>5, <1>6 DEF CompleteGitHubPush

LEMMA RequestImportKept ==
  ASSUME PipelineInv, RequestGitHubImport
  PROVE  PipelineKept
<1>1. /\ UNCHANGED <<branch, receipts, event, pipe, pub, live, task>>
      /\ import[Manual].state = "none" /\ import' = [import EXCEPT ![Manual] = NewImport(Gone)]
  BY DEF RequestGitHubImport, world, inbox, jobs
<1>2. Manual \in Jobs
  BY PushNumbers
<1>3. import'[Manual] = NewImport(Gone) /\ \A j \in Jobs : j # Manual => import'[j] = import[j]
  BY <1>1, <1>2, PipelineFunctions
<1>4. import'[Manual].state # "none" /\ import'[Manual].state # "succeeded"
  BY <1>3, Rows
<1> QED BY <1>1, <1>2, <1>3, <1>4, ImportMoves, TasksKept DEF PipelineKept

LEMMA ClaimImportKept ==
  ASSUME PipelineInv, NEW w \in Processes, ClaimGitHubImport(w)
  PROVE  PipelineKept
<1>1. PICK i \in Jobs :
        /\ import[i].state \in Unfinished
        /\ \/ /\ import' = [import EXCEPT ![i] = Ended(@, "failed", @.upload)]
              /\ UNCHANGED task
           \/ /\ import' = [import EXCEPT ![i] = Import("running", @.attempts + 1, w, @.rev,
                                                        @.commit, @.upload)]
              /\ task' = [task EXCEPT ![w] = ImportTask(i)]
  BY DEF ClaimGitHubImport, PendingImports
<1>2. UNCHANGED <<branch, receipts, event, pipe, pub, live>>
  BY DEF ClaimGitHubImport, world, inbox, jobs
<1>3. /\ import'[i].state # "none" /\ import'[i].state # "succeeded"
      /\ import'[i].commit = import[i].commit
      /\ \A j \in Jobs : j # i => import'[j] = import[j]
  <2>1. /\ \/ import'[i] = Ended(import[i], "failed", import[i].upload)
           \/ import'[i] = Import("running", import[i].attempts + 1, w, import[i].rev,
                                  import[i].commit, import[i].upload)
        /\ \A j \in Jobs : j # i => import'[j] = import[j]
    BY <1>1, PipelineFunctions
  <2> QED BY <2>1, Rows
<1>4. RowsInv' /\ \A t \in Tasks : SoundTask(t) => SoundTask(t)'
  BY <1>1, <1>2, <1>3, ImportMoves
<1>5. CASE UNCHANGED task
  BY <1>4, <1>5, TasksKept DEF PipelineKept
<1>6. CASE task' = [task EXCEPT ![w] = ImportTask(i)]
  <2>1. Tip \in Heads /\ import[i].commit \in Heads
    BY PushNumbers, PipelineFunctions DEF PipelineInv, Imports
  <2>2. ImportTask(i) \in Tasks
    BY <2>1, TaskType DEF ImportTask
  <2>3. PICK u \in Tasks : u = ImportTask(i)
    BY <2>2
  <2>4. /\ u.n = i
        /\ \/ u.job = "pin"
           \/ u.job = "fetch" /\ u.head # Gone /\ u.head = import[i].commit
    BY <2>3, Rows DEF ImportTask
  <2>5. /\ import[i].state # "none"
        /\ i # Manual => i \in receipts /\ event[i].state = "imported"
    BY <1>1, PushNumbers DEF PipelineInv, ChainInv, Unfinished
  <2>6. SoundTask(u)'
    BY <1>2, <1>3, <2>4, <2>5, PushNumbers DEF SoundTask
  <2>7. TaskInv'
    BY <1>4, <1>6, <2>3, <2>6, TasksMove
  <2> QED BY <1>4, <2>7 DEF PipelineKept
<1> QED BY <1>1, <1>5, <1>6

LEMMA PinKept ==
  ASSUME PipelineInv, NEW w \in Processes, PinGitHubImportCommit(w)
  PROVE  PipelineKept
<1> DEFINE i == task[w].n
<1>1. /\ task[w].job = "pin" /\ task[w].head # Gone
      /\ import[i].state = "running" /\ import[i].commit = Gone
      /\ import' = [import EXCEPT ![i] = [@ EXCEPT !.commit = task[w].head]]
      /\ task' = [task EXCEPT ![w] = [@ EXCEPT !.job = "fetch"]]
      /\ UNCHANGED <<branch, receipts, event, pipe, pub, live>>
  BY DEF PinGitHubImportCommit, HoldsImport, world, inbox, jobs
<1>2. i \in Jobs /\ task[w] \in Tasks /\ task[w].n = i
  BY PipelineFunctions DEF Tasks
<1> HIDE DEF i
<1>3. i = Manual
  BY <1>1, <1>2, PushNumbers DEF PipelineInv, PinInv
<1>4. /\ import'[i].state = "running" /\ import'[i].commit = task[w].head
      /\ \A j \in Jobs : j # i => import'[j] = import[j]
  BY <1>1, <1>2, PipelineFunctions DEF Imports
<1>5. RowsInv' /\ \A t \in Tasks : SoundTask(t) => SoundTask(t)'
  BY <1>1, <1>2, <1>3, <1>4, ImportMoves DEF Unfinished
<1>6. [task[w] EXCEPT !.job = "fetch"] \in Tasks
  BY <1>2 DEF Tasks
<1>7. PICK u \in Tasks : u = [task[w] EXCEPT !.job = "fetch"]
  BY <1>6
<1>8. u.job = "fetch" /\ u.n = i /\ u.head = task[w].head
  BY <1>2, <1>7 DEF Tasks
<1>9. SoundTask(u)'
  BY <1>1, <1>3, <1>4, <1>8 DEF SoundTask
<1>10. TaskInv'
  BY <1>1, <1>5, <1>7, <1>9, TasksMove
<1> QED BY <1>5, <1>10 DEF PipelineKept

LEMMA CompleteImportKept ==
  ASSUME PipelineInv, NEW w \in Processes, CompleteGitHubImport(w)
  PROVE  PipelineKept
<1> DEFINE i == task[w].n
<1>1. /\ task[w].job = "fetch" /\ import[i].state = "running"
      /\ import' = [import EXCEPT ![i] = Ended(@, "succeeded", task[w].head)]
      /\ task' = [task EXCEPT ![w] = Idle]
      /\ UNCHANGED <<branch, receipts, event, pipe, pub, live>>
  BY DEF CompleteGitHubImport, HoldsImport, world, inbox, jobs
<1>2. i \in Jobs /\ import[i].commit = task[w].head
  BY <1>1, PipelineFunctions DEF Tasks, SoundTask
<1> HIDE DEF i
<1>3. /\ import'[i] = Ended(import[i], "succeeded", task[w].head)
      /\ \A j \in Jobs : j # i => import'[j] = import[j]
  BY <1>1, <1>2, PipelineFunctions
<1>4. /\ import'[i].state = "succeeded" /\ import'[i].commit = import[i].commit
      /\ import'[i].upload = task[w].head
  BY <1>3, Rows
<1> QED BY <1>1, <1>2, <1>3, <1>4, ImportMoves, TaskDone DEF PipelineKept, Unfinished

LEMMA FailImportKept ==
  ASSUME PipelineInv, NEW w \in Processes, FailGitHubImport(w)
  PROVE  PipelineKept
<1> DEFINE i == task[w].n
<1>1. /\ task' = [task EXCEPT ![w] = Idle]
      /\ UNCHANGED <<branch, receipts, event, pipe, pub, live>>
      /\ \/ UNCHANGED import
         \/ /\ import[i].state = "running"
            /\ import' = [import EXCEPT ![i] = Ended(@, "failed", @.upload)]
  BY DEF FailGitHubImport, HoldsImport, world, inbox, jobs
<1>2. i \in Jobs
  BY <1>1, PipelineFunctions DEF Tasks
<1> HIDE DEF i
<1>3. CASE UNCHANGED import
  BY <1>1, <1>3, QuietMoves, TaskDone DEF PipelineKept
<1>4. CASE /\ import[i].state = "running"
           /\ import' = [import EXCEPT ![i] = Ended(@, "failed", @.upload)]
  <2>1. /\ import'[i] = Ended(import[i], "failed", import[i].upload)
        /\ \A j \in Jobs : j # i => import'[j] = import[j]
    BY <1>2, <1>4, PipelineFunctions
  <2>2. import'[i].state = "failed" /\ import'[i].commit = import[i].commit
    BY <2>1, Rows
  <2> QED BY <1>1, <1>2, <1>4, <2>1, <2>2, ImportMoves, TaskDone DEF PipelineKept, Unfinished
<1> QED BY <1>1, <1>3, <1>4

LEMMA NextPipelineKept ==
  ASSUME PipelineInv, NEW w \in Processes, NextGitHubPipeline(w)
  PROVE  PipelineKept
<1>1. Materialize /\ UNCHANGED <<branch, receipts, event, import, pub, live>>
  BY DEF NextGitHubPipeline, world, inbox
<1>2. RowsInv' /\ \A t \in Tasks : SoundTask(t) => SoundTask(t)'
  <2>1. CASE UNCHANGED pipe
    BY <1>1, <2>1, QuietMoves
  <2>2. CASE /\ \A m \in Pushes : pipe[m] \notin Active
             /\ \E n \in Pushes : /\ Oldest(n, ImportedWithoutPipeline)
                                  /\ pipe' = [pipe EXCEPT ![n] = "waiting"]
    <3>1. PICK n \in Pushes : /\ import[n].state = "succeeded" /\ pipe[n] = "none"
                              /\ pipe' = [pipe EXCEPT ![n] = "waiting"]
      BY <2>2 DEF Oldest, ImportedWithoutPipeline
    <3>2. pipe'[n] = "waiting" /\ \A m \in Pushes : m # n => pipe'[m] = pipe[m]
      BY <3>1 DEF PipelineInv, PipelineTypeOK
    <3> QED BY <1>1, <2>2, <3>1, <3>2, StartMoves
  <2> QED BY <1>1, <2>1, <2>2 DEF Materialize
<1>3. PICK n \in Pushes :
        /\ pipe'[n] \in Active
        /\ \/ task' = [task EXCEPT ![w] = Idle]
           \/ task' = [task EXCEPT ![w] = Task("pipe", n, Gone)]
           \/ task' = [task EXCEPT ![w] = Task("pipe", n, Tip)]
  BY DEF NextGitHubPipeline
<1>4. CASE task' = [task EXCEPT ![w] = Idle]
  BY <1>2, <1>4, TaskDone DEF PipelineKept
<1>5. ASSUME NEW h \in Heads, h = Gone \/ h = Tip, task' = [task EXCEPT ![w] = Task("pipe", n, h)]
      PROVE  PipelineKept
  <2>1. n \in Jobs /\ Tip' = Tip
    BY PushNumbers, <1>1 DEF Tip
  <2>2. Task("pipe", n, h) \in Tasks
    BY <2>1, TaskType
  <2>3. PICK u \in Tasks : u = Task("pipe", n, h)
    BY <2>2
  <2>4. u.job = "pipe" /\ u.n = n /\ u.head = h
    BY <2>3, Rows
  <2>5. pipe'[n] # "none"
    BY <1>3 DEF Active
  <2>6. n \in receipts' /\ event'[n].state = "imported"
    BY <1>2, <2>5 DEF RowsInv, ChainInv
  <2>7. SoundTask(u)'
    BY <1>5, <2>1, <2>4, <2>5, <2>6, PushNumbers DEF SoundTask
  <2>8. TaskInv'
    BY <1>2, <1>5, <2>3, <2>7, TasksMove
  <2> QED BY <1>2, <2>8 DEF PipelineKept
<1>6. Gone \in Heads /\ Tip \in Heads
  BY PushNumbers DEF PipelineInv
<1> QED BY <1>3, <1>4, <1>5, <1>6

LEMMA AdvanceKept ==
  ASSUME PipelineInv, NEW w \in Processes, AdvanceGitHubPipeline(w)
  PROVE  PipelineKept
<1> DEFINE n == task[w].n
           h == task[w].head
           v == Verdict(n, h)
<1>1. /\ task[w].job = "pipe" /\ task' = [task EXCEPT ![w] = Idle]
      /\ UNCHANGED <<branch, receipts, event, import, live>>
      /\ \/ v = "wait" /\ UNCHANGED <<pipe, pub>>
         \/ /\ v \in {"succeeded", "failed", "cancelled", "superseded"}
            /\ pipe' = [pipe EXCEPT ![n] = v] /\ UNCHANGED pub
         \/ v = "build" /\ pipe' = [pipe EXCEPT ![n] = "building"] /\ UNCHANGED pub
         \/ /\ v = "publish" /\ pipe' = [pipe EXCEPT ![n] = "publishing"]
            /\ pub' = [pub EXCEPT ![n] = "queued"]
         \/ /\ v \in {"build", "publish"} /\ pipe' = [pipe EXCEPT ![n] = "failed"]
            /\ UNCHANGED pub
  BY DEF AdvanceGitHubPipeline, world, inbox
<1>2. n \in Pushes /\ n \in Jobs
  BY <1>1, PipelineFunctions, PushNumbers DEF Tasks, SoundTask
<1>3. n = Len(branch) /\ h # Gone => h = Tip
  BY <1>1, PipelineFunctions DEF SoundTask
<1>4. h # Gone /\ pipe[n] \in Active /\ pub[n] = "none" /\ pub[Len(branch)] = "succeeded"
        => h = Tip
  BY <1>1, PipelineFunctions DEF SoundTask
<1>5. /\ Len(branch) \in Pushes /\ Tip = branch[Len(branch)]
      /\ pipe \in [Pushes -> {"none", "succeeded", "failed", "cancelled", "superseded"} \cup Active]
      /\ pub \in [Jobs -> {"none", "succeeded", "failed", "cancelled"} \cup Unfinished]
      /\ build \in [Pushes -> {"none", "succeeded", "failed", "cancelled"} \cup Unfinished]
  BY PushNumbers DEF PipelineInv, PipelineTypeOK
\* What the verdict stands for
<1>6. v # "wait" =>
        /\ pipe[n] \in Active
        /\ pub[n] \notin Unfinished
        /\ v = "succeeded" => pub[n] = "succeeded"
  BY <1>2, <1>5 DEF Verdict, Submitted, Unfinished
<1>7. v = "superseded" => h # Gone /\ h # branch[n]
  BY <1>2, <1>5 DEF Verdict, Submitted, Unfinished, Superseded
<1>8. v \in {"build", "publish"} =>
        pub[n] = "none" /\ h # Gone /\ h = branch[n] /\ PipelineCurrent(n)
  BY <1>2, <1>5 DEF Verdict, Submitted, Unfinished, Superseded
<1>9. v = "publish" => import[n].upload = branch[n]
  BY <1>2, <1>8, PushNumbers DEF PipelineInv, PinInv, PipelineCurrent
<1> HIDE DEF n, h, v
<1>10. CASE UNCHANGED <<pipe, pub>>
  BY <1>1, <1>10, QuietMoves, TaskDone DEF PipelineKept
<1>11. ASSUME NEW x, pipe' = [pipe EXCEPT ![n] = x], UNCHANGED pub, v # "wait",
              x \in {"building", "failed"} \/ x = v,
              v \in {"succeeded", "failed", "cancelled", "superseded", "build", "publish"},
              x \in {"succeeded", "failed", "cancelled", "superseded", "building"}
       PROVE  PipelineKept
  <2>1. pipe'[n] = x /\ \A m \in Pushes : m # n => pipe'[m] = pipe[m]
    BY <1>2, <1>5, <1>11
  <2>2. x \in Active \/ pub[n] \notin Unfinished
    BY <1>6, <1>11
  <2>3. x = "succeeded" => pub[n] = "succeeded"
    BY <1>6, <1>11
  <2>4. x = "superseded" => n # Len(branch)
    BY <1>3, <1>5, <1>7, <1>11
  <2> QED
    BY <1>1, <1>2, <1>6, <1>11, <2>1, <2>2, <2>3, <2>4, PipeMoves, TaskDone DEF PipelineKept
<1>12. CASE v = "publish" /\ pipe' = [pipe EXCEPT ![n] = "publishing"]
            /\ pub' = [pub EXCEPT ![n] = "queued"]
  <2>1. /\ pipe'[n] = "publishing" /\ pub'[n] = "queued"
        /\ \A m \in Pushes : m # n => pipe'[m] = pipe[m]
        /\ \A j \in Jobs : j # n => pub'[j] = pub[j]
    BY <1>2, <1>5, <1>12
  <2>2. pipe[n] \in Active /\ pub[n] = "none"
    BY <1>6, <1>8, <1>12
  <2>3. pub[Len(branch)] = "succeeded" => import[n].upload = Tip
    BY <1>4, <1>8, <1>9, <1>12, <2>2
  <2> QED BY <1>1, <1>2, <2>1, <2>2, <2>3, SubmitMoves, TaskDone DEF PipelineKept
<1> QED BY <1>1, <1>10, <1>11, <1>12

LEMMA PublicationKept ==
  ASSUME PipelineInv,
         RequestPublication
           \/ \E j \in Jobs : ClaimPublication(j) \/ FinishPublication(j) \/ CancelDeployment(j)
  PROVE  PipelineKept
<1>1. UNCHANGED <<branch, receipts, event, import, pipe, task>>
  BY DEF RequestPublication, ClaimPublication, FinishPublication, CancelDeployment, world, inbox
<1>2. PICK j \in Jobs, x \in {"queued", "running", "succeeded", "failed", "cancelled"} :
        /\ j = Manual \/ pub[j] \in Unfinished
        /\ pub' = [pub EXCEPT ![j] = x]
        /\ IF x = "succeeded" THEN live' = j ELSE live' = live
  BY PushNumbers
     DEF RequestPublication, ClaimPublication, FinishPublication, CancelDeployment, Unfinished
<1>3. pub'[j] = x /\ \A i \in Jobs : i # j => pub'[i] = pub[i]
  BY <1>2 DEF PipelineInv, PipelineTypeOK
<1> QED BY <1>1, <1>2, <1>3, PublicationMoves, TasksKept DEF PipelineKept

LEMMA StopKept ==
  ASSUME PipelineInv, NEW w \in Processes, Stop(w)
  PROVE  PipelineKept
<1>1. /\ task' = [task EXCEPT ![w] = Idle]
      /\ UNCHANGED <<branch, receipts, event, import, pipe, pub, live>>
  BY DEF Stop, world, inbox, jobs
<1> QED BY <1>1, QuietMoves, TaskDone DEF PipelineKept

LEMMA PipelineStep ==
  PipelineInv /\ [PipelineNext]_pipelineVars => PipelineInv'
<1> SUFFICES ASSUME PipelineInv, [PipelineNext]_pipelineVars PROVE PipelineInv'
  OBVIOUS
<1>1. PipelineTypeOK'
  BY PipelineTypes
<1>2. PipelineKept
  BY PushKept, QuietKept, LeasesKept, AcceptKept, PruneKept, ClaimPushKept, CompletePushKept,
     RequestImportKept, ClaimImportKept, PinKept, CompleteImportKept, FailImportKept,
     NextPipelineKept, AdvanceKept, PublicationKept, StopKept
     DEF PipelineNext, Process
<1> QED
  BY <1>1, <1>2 DEF PipelineInv, PipelineKept, RowsInv

LEMMA PipelineStart == PipelineInit => PipelineInv
<1> SUFFICES ASSUME PipelineInit PROVE PipelineInv
  OBVIOUS
<1>1. First \in Heads /\ 1 \in Pushes /\ Len(<<First>>) = 1 /\ <<First>> \in Seq(Heads)
  BY PipelineAssumption DEF Heads, Pushes
<1>2. /\ NoEvent.state = "none" /\ NoImport.state = "none" /\ Idle.job = "idle"
      /\ Manual \in Jobs
  BY Rows, PushNumbers DEF NoEvent, NoImport, Idle
<1>3. /\ \A n \in Pushes : /\ event[n].state = "none" /\ n \in Jobs
                           /\ pipe[n] = "none" /\ pub[n] = "none"
      /\ \A i \in Jobs : import[i].state = "none"
      /\ receipts = {} /\ live = Manual /\ Len(branch) = 1
      /\ \A w \in Processes : task[w].job = "idle"
  BY <1>1, <1>2, PushNumbers DEF PipelineInit
<1>4. PipelineTypeOK
  <2>1. 0 \in 0 .. MaxChanges
    BY PipelineAssumption
  <2> QED BY <1>1, <1>2, <2>1, RowTypes DEF PipelineInit, PipelineTypeOK
<1>5. ChainInv /\ PipesInv /\ PinInv
  BY <1>3 DEF ChainInv, PipesInv, PinInv, Active, Unfinished
<1>6. DeployedInv /\ NewestIsNotSuperseded
  BY <1>1, <1>3 DEF DeployedInv, NewestIsNotSuperseded
<1>7. TaskInv
  BY <1>3 DEF TaskInv, SoundTask
<1> QED
  BY <1>4, <1>5, <1>6, <1>7 DEF PipelineInv

\* The pushes, imports, pipelines and publications of a project, and what its
\* portal processes have in hand, stay consistent.
THEOREM PipelineInvariance == PipelineSpec => []PipelineInv
<1> QED
  BY PipelineStart, PipelineStep, PTL DEF PipelineSpec

\* Every row of the GitHub tables and every task of a process is of its type.
THEOREM PipelineTypeCorrect == PipelineSpec => []PipelineTypeOK
<1>1. PipelineInv => PipelineTypeOK
  BY DEF PipelineInv
<1> QED
  BY <1>1, PipelineInvariance, PTL

\* The newest push is never taken for superseded, however late, twice or out of
\* order the pushes arrive and however often a lease is lost (CompleteGitHubPush,
\* AdvanceGitHubPipeline).
THEOREM NewestPushCounts == PipelineSpec => []NewestIsNotSuperseded
<1>1. PipelineInv => NewestIsNotSuperseded
  BY DEF PipelineInv
<1> QED
  BY <1>1, PipelineInvariance, PTL

\* A website deployed from a branch shows the branch head once the newest push
\* has been deployed, and every import holds the commit that was pushed
\* (AdvanceGitHubPipeline, CompleteGitHubImport).
THEOREM BranchIsShown == PipelineSpec => []SiteFollowsBranch
<1>1. PipelineInv => SiteFollowsBranch
  <2> SUFFICES ASSUME PipelineInv PROVE SiteFollowsBranch
    OBVIOUS
  <2>1. ImportIsPinned
    BY PushNumbers DEF PipelineInv, PinInv, ImportIsPinned
  <2>2. Len(branch) \in Pushes
    BY PushNumbers DEF PipelineInv
  <2> QED
    BY <2>1, <2>2 DEF PipelineInv, PipesInv, DeployedInv, SiteFollowsBranch
<1> QED
  BY <1>1, PipelineInvariance, PTL
=============================================================================
