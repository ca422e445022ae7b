---------------------------- MODULE FleetRuntime ----------------------------
(***************************************************************************)
(* The fleet worker's runtime for websites and for Node projects           *)
(* (internal/fleetdeploy/fleet.go): an image is built from the archive and *)
(* handed to the deployer with an untracked DeployApp.  The worker has     *)
(* nothing but its own files to tell, after a restart, whether the call    *)
(* was made: the publication file of a website, an operation file and a    *)
(* revision fence of a Node project.  ContainerDeployment is its runtime   *)
(* for registry images.                                                    *)
(*                                                                         *)
(* One project; a revision stands for its operation.  The deployer is      *)
(* external: a call may be lost, and may arrive after the worker stopped.  *)
(***************************************************************************)
EXTENDS Naturals, Sequences

CONSTANTS
  MaxRevisions,   \* bound: revisions requested
  MaxFleetStops,  \* bound: times the worker stops or a pass fails
  Images,         \* what the image builder makes of the archives
  NoImage

ASSUME FleetAssumption == MaxRevisions \in Nat /\ MaxFleetStops \in Nat

Revisions == 1 .. MaxRevisions

VARIABLES
  kind,       \* Project.Kind: "static" or "node"
  asked,      \* the portal's publications or deployments, with their image
  expired,    \* "yes" once ActivateBefore of the running deployment is over
  saved,      \* <app>-publication.json
  record,     \* <app>-<operation>.json, by revision
  nodeFence,  \* <app>-fence.json
  pass,       \* where the worker's pass is; "down" while none holds the lock
  stops,      \* stops so far
  sending,    \* DeployApp calls under way
  app,        \* what the deployer reports of the app
  sent        \* ghost: the revisions sent, in order

filesVars == <<saved, record, nodeFence>>
fleetVars == <<kind, asked, expired, filesVars, pass, stops, sending, app, sent>>

Asked == [image : Images \cup {NoImage},
          state : {"none", "queued", "running", "succeeded", "failed"}]

Record == [stage    : {"none", "preparing", "dispatched"},
           previous : Images \cup {NoImage}]

Steps == {"down", "idle",
          "build", "look", "preflight", "send", "await", "check",
          "operation", "fence", "prepare", "inspect", "succeeded", "failed"}

FleetTypeOK ==
  /\ kind \in {"static", "node"}
  /\ asked \in [Revisions -> Asked]
  /\ expired \in {"yes", "no"}
  /\ saved \in [image : Images \cup {NoImage}, revision : Revisions \cup {0},
                dispatched : {"yes", "no"}]
  /\ record \in [Revisions -> Record]
  /\ nodeFence \in Revisions \cup {0}
  /\ pass \in [at : Steps, revision : Revisions \cup {0}]
  /\ stops \in 0 .. MaxFleetStops
  /\ sending \subseteq Revisions
  /\ app \in [image : Images \cup {NoImage}, health : {"none", "pending", "healthy", "failed"}]
  /\ sent \in Seq(Revisions)

Idle == [at |-> "idle", revision |-> 0]

FleetInit ==
  /\ kind \in {"static", "node"}
  /\ asked = [r \in Revisions |-> [image |-> NoImage, state |-> "none"]]
  /\ expired = "no"
  /\ saved = [image |-> NoImage, revision |-> 0, dispatched |-> "no"]
  /\ record = [r \in Revisions |-> [stage |-> "none", previous |-> NoImage]]
  /\ nodeFence = 0
  /\ pass = [Idle EXCEPT !.at = "down"]
  /\ stops = 0
  /\ sending = {}
  /\ app = [image |-> NoImage, health |-> "none"]
  /\ sent = << >>

-----------------------------------------------------------------------------
(* The portal.                                                             *)

\* A member publishes a release or asks for a deployment.  A website's next
\* publication may be requested when an earlier one was given up; a Node
\* project has one deployment at a time.
AskRevision(r, i) ==
  /\ asked[r].state = "none"
  /\ \A q \in Revisions : asked[q].state # "none" <=> q < r
  /\ kind = "node" => \A q \in Revisions : asked[q].state \notin {"queued", "running"}
  /\ asked' = [asked EXCEPT ![r] = [image |-> i, state |-> "queued"]]
  /\ UNCHANGED <<kind, expired, filesVars, pass, stops, sending, app, sent>>

ActivateBeforePasses ==
  /\ expired = "no"
  /\ kind = "node" /\ \E r \in Revisions : asked[r].state = "running"
  /\ expired' = "yes"
  /\ UNCHANGED <<kind, asked, filesVars, pass, stops, sending, app, sent>>

-----------------------------------------------------------------------------
(* The worker process.                                                     *)

\* The configuration is read and the lock taken: one worker at a time.
StartWorker ==
  /\ pass.at = "down"
  /\ pass' = Idle
  /\ UNCHANGED <<kind, asked, expired, filesVars, stops, sending, app, sent>>

\* The process ends anywhere; its files and its calls to the deployer remain.
StopWorker ==
  /\ pass.at # "down" /\ stops < MaxFleetStops
  /\ pass' = [Idle EXCEPT !.at = "down"]
  /\ stops' = stops + 1
  /\ UNCHANGED <<kind, asked, expired, filesVars, sending, app, sent>>

\* A step returns an error: a write, the builder, the preflight, a status, the
\* deadline of the call.  Nothing is undone.
PassFails ==
  /\ pass.at \notin {"down", "idle"} /\ stops < MaxFleetStops
  /\ pass' = Idle
  /\ stops' = stops + 1
  /\ UNCHANGED <<kind, asked, expired, filesVars, sending, app, sent>>

Go(s) == pass' = [pass EXCEPT !.at = s]

\* The app runs this image, and its latest deployment, replicas and route are
\* healthy.
Healthy(i) == app.image = i /\ app.health = "healthy"

\* DeployApp, after its preflight.
DeployApp ==
  /\ pass.at = "send"
  /\ sending' = sending \cup {pass.revision}
  /\ sent' = Append(sent, pass.revision)
  /\ Go("await")
  /\ UNCHANGED <<kind, asked, expired, filesVars, stops, app>>

\* The call returned.  A website's outcome is read from the app's status; a
\* Node deployment is left to reconciliation.
DeployReturns ==
  /\ pass.at = "await" /\ pass.revision \notin sending
  /\ IF kind = "static" THEN Go("check") ELSE pass' = Idle
  /\ UNCHANGED <<kind, asked, expired, filesVars, stops, sending, app, sent>>

\* What is reported to the portal is recorded there.
Report(s) ==
  /\ asked' = [asked EXCEPT ![pass.revision].state = s]
  /\ pass' = Idle

-----------------------------------------------------------------------------
(* Websites: publicationRuntime.Publish.                                   *)

\* Mutant: the state file does not tell whether the call was made.
ResumeUndispatched(r) ==
  IF saved.revision = r THEN "look" ELSE "build"

\* Where Publish goes on with a revision that is not older than the saved one.
Resume(r) ==
  IF saved.revision # r THEN "build"
  ELSE IF saved.dispatched = "yes" THEN "check" ELSE "look"

\* The publisher hands over a claimed publication, for the first time or again.
Publish(r) ==
  /\ kind = "static" /\ pass = Idle
  /\ asked[r].state \in {"queued", "running"}
  /\ saved.revision <= r
  /\ asked' = [asked EXCEPT ![r].state = "running"]
  /\ pass' = [at |-> Resume(r), revision |-> r]
  /\ UNCHANGED <<kind, expired, filesVars, stops, sending, app, sent>>

\* The image builder's answer: immutable, and the same for the same archive.
Built(r) == asked[r].image

\* The image is built and saved as not yet dispatched ...
SaveBuilt ==
  /\ pass.at = "build"
  /\ saved' = [image |-> Built(pass.revision), revision |-> pass.revision,
               dispatched |-> "no"]
  /\ Go("look")
  /\ UNCHANGED <<kind, asked, expired, record, nodeFence, stops, sending, app, sent>>

\* ... an app that already runs it is left alone ...
AlreadyServed ==
  /\ pass.at = "look" /\ Healthy(saved.image)
  /\ Report("succeeded")
  /\ UNCHANGED <<kind, expired, filesVars, stops, sending, app, sent>>

NotYetServed ==
  /\ pass.at = "look" /\ ~Healthy(saved.image)
  /\ Go("preflight")
  /\ UNCHANGED <<kind, asked, expired, filesVars, stops, sending, app, sent>>

\* ... and the dispatch is saved before the call.
SaveDispatch ==
  /\ kind = "static" /\ pass.at = "preflight"
  /\ saved' = [saved EXCEPT !.dispatched = "yes"]
  /\ Go("send")
  /\ UNCHANGED <<kind, asked, expired, record, nodeFence, stops, sending, app, sent>>

\* Once dispatched, only the app's status decides; otherwise the outcome is
\* unresolved and the publication retained.
CheckServed ==
  /\ pass.at = "check"
  /\ IF Healthy(saved.image) THEN Report("succeeded") ELSE pass' = Idle /\ UNCHANGED asked
  /\ UNCHANGED <<kind, expired, filesVars, stops, sending, app, sent>>

-----------------------------------------------------------------------------
(* Node projects: SubmitNodeRuntime and InspectNodeRuntime.                *)

\* The portal commits the deployment as running and submits it.
DispatchNode(r) ==
  /\ kind = "node" /\ pass = Idle
  /\ asked[r].state = "queued"
  /\ asked' = [asked EXCEPT ![r].state = "running"]
  /\ expired' = "no"
  /\ pass' = [at |-> "operation", revision |-> r]
  /\ UNCHANGED <<kind, filesVars, stops, sending, app, sent>>

HasPrior == \E r \in Revisions : asked[r].state = "succeeded"

\* The operation is saved with the image that it would replace ...
SaveNodeOperation ==
  LET r == pass.revision IN
  /\ pass.at = "operation"
  /\ record[r].stage = "none" /\ nodeFence <= r
  /\ record' = [record EXCEPT ![r] = [stage    |-> "preparing",
                                     previous |-> IF HasPrior THEN app.image ELSE NoImage]]
  /\ Go("fence")
  /\ UNCHANGED <<kind, asked, expired, saved, nodeFence, stops, sending, app, sent>>

\* ... then the fence.
SaveNodeFence ==
  /\ pass.at = "fence"
  /\ nodeFence' = pass.revision
  /\ Go("prepare")
  /\ UNCHANGED <<kind, asked, expired, saved, record, stops, sending, app, sent>>

\* The deadline is checked before the image is built and once more after the
\* preflight.
BuildNodeImage ==
  /\ pass.at = "prepare"
  /\ IF expired = "no" THEN Go("preflight") ELSE pass' = Idle
  /\ UNCHANGED <<kind, asked, expired, filesVars, stops, sending, app, sent>>

\* The stage is saved before the call.
SaveNodeDispatched ==
  /\ kind = "node" /\ pass.at = "preflight"
  /\ IF expired = "no"
     THEN record' = [record EXCEPT ![pass.revision].stage = "dispatched"] /\ Go("send")
     ELSE pass' = Idle /\ UNCHANGED record
  /\ UNCHANGED <<kind, asked, expired, saved, nodeFence, stops, sending, app, sent>>

\* The next pass, of this worker or of another, inspects a running deployment.
ReconcileNode(r) ==
  /\ kind = "node" /\ pass = Idle
  /\ asked[r].state = "running"
  /\ pass' = [at |-> "inspect", revision |-> r]
  /\ UNCHANGED <<kind, asked, expired, filesVars, stops, sending, app, sent>>

\* An operation that is still in preparation has failed, if the route it would
\* have replaced is healthy: only one worker runs, and it is not preparing it.
\* A dispatched one is active when the app runs its image, and pending until
\* then.  Without an operation file there is nothing to tell.
Inspected(r) ==
  IF /\ record[r].stage = "preparing"
     /\ record[r].previous # NoImage => Healthy(record[r].previous)
  THEN "failed"
  ELSE IF record[r].stage = "dispatched" /\ Healthy(Built(r)) THEN "succeeded" ELSE "idle"

InspectNode ==
  /\ pass.at = "inspect"
  /\ pass' = IF Inspected(pass.revision) = "idle" THEN Idle
             ELSE [pass EXCEPT !.at = Inspected(pass.revision)]
  /\ UNCHANGED <<kind, asked, expired, filesVars, stops, sending, app, sent>>

\* ReconcileNodeDeployment commits a settled observation.
CommitNode ==
  /\ pass.at \in {"succeeded", "failed"}
  /\ Report(pass.at)
  /\ UNCHANGED <<kind, expired, filesVars, stops, sending, app, sent>>

-----------------------------------------------------------------------------
(* The deployer (external).                                                *)

DeployArrives(r) ==
  /\ r \in sending
  /\ sending' = sending \ {r}
  /\ app' = [image |-> asked[r].image, health |-> "pending"]
  /\ UNCHANGED <<kind, asked, expired, filesVars, pass, stops, sent>>

CallLost(r) ==
  /\ r \in sending
  /\ sending' = sending \ {r}
  /\ UNCHANGED <<kind, asked, expired, filesVars, pass, stops, app, sent>>

\* A rollout ends; a healthy app may fail and recover.
AppHealth ==
  /\ app.health # "none"
  /\ \E h \in {"healthy", "failed"} : h # app.health /\ app' = [app EXCEPT !.health = h]
  /\ UNCHANGED <<kind, asked, expired, filesVars, pass, stops, sending, sent>>

FleetNext ==
  \/ \E r \in Revisions, i \in Images : AskRevision(r, i)
  \/ ActivateBeforePasses
  \/ StartWorker \/ StopWorker \/ PassFails
  \/ DeployApp \/ DeployReturns
  \/ \E r \in Revisions : Publish(r)
  \/ SaveBuilt \/ AlreadyServed \/ NotYetServed \/ SaveDispatch \/ CheckServed
  \/ \E r \in Revisions : DispatchNode(r) \/ ReconcileNode(r)
  \/ SaveNodeOperation \/ SaveNodeFence \/ BuildNodeImage \/ SaveNodeDispatched
  \/ InspectNode \/ CommitNode
  \/ \E r \in Revisions : DeployArrives(r) \/ CallLost(r)
  \/ AppHealth

FleetSpec == FleetInit /\ [][FleetNext]_fleetVars

-----------------------------------------------------------------------------
(* Properties.                                                             *)

\* A Node deployment that is reported as failed was never sent, so that no
\* late call can put it in place of the release that was reported as retained.
FailedWasNotSent ==
  \A r \in Revisions : asked[r].state = "failed" => \A n \in DOMAIN sent : sent[n] # r

\* Whatever the worker was doing when it stopped, a revision is sent to the
\* deployer at most once, and never after a newer one, for the untracked call
\* cannot be repeated safely; and what was reported as failed was not sent
\* (Deploy, recover).
SentOnceInOrder ==
  /\ \A m, n \in DOMAIN sent : m < n => sent[m] < sent[n]
  /\ FailedWasNotSent
=============================================================================
