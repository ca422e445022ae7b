---------------------------- MODULE FleetProofs ----------------------------
(***************************************************************************)
(* Proofs about FleetRuntime, for every number of revisions and stops, and *)
(* about ContainerDeployment, for every number of jobs, releases and calls *)
(* under way.                                                              *)
(***************************************************************************)
EXTENDS ContainerDeployment, FleetRuntime, TLAPS

-----------------------------------------------------------------------------
(* The inductive invariant.                                                *)

Unsent(r) == \A n \in DOMAIN sent : sent[n] # r

\* A pass is of one kind and about a revision; that of a Node project is about a
\* running deployment, for one that is settled is not taken up again.
PassInv ==
  /\ pass.at \notin {"down", "idle"} => pass.revision \in Revisions
  /\ pass.at \in {"build", "look", "check"} => kind = "static"
  /\ pass.at \in {"operation", "fence", "prepare", "inspect", "succeeded", "failed"}
       => kind = "node"
  /\ kind = "node" /\ pass.at \notin {"down", "idle"} => asked[pass.revision].state = "running"

\* The publication file of a website is about the newest revision that was
\* taken up, and says so before it is sent.
WebsiteInv ==
  kind = "static" =>
    /\ \A n \in DOMAIN sent :
         sent[n] <= saved.revision /\ (saved.dispatched = "no" => sent[n] # saved.revision)
    /\ pass.at = "build" => saved.revision < pass.revision
    /\ pass.at \in {"look", "preflight"} =>
         saved.revision = pass.revision /\ saved.dispatched = "no"
    /\ pass.at = "send" =>
         saved.revision = pass.revision /\ saved.dispatched = "yes" /\ Unsent(pass.revision)
    /\ \A r \in Revisions : asked[r].state # "failed"

\* The operation file of a Node deployment says so before it is sent, and the
\* fence is not below a revision that was.  What has failed was in preparation.
NodeInv ==
  kind = "node" =>
    /\ \A n \in DOMAIN sent : sent[n] <= nodeFence /\ record[sent[n]].stage = "dispatched"
    /\ pass.at \in {"fence", "prepare", "preflight", "failed"} =>
         record[pass.revision].stage = "preparing"
    /\ pass.at = "fence" => nodeFence <= pass.revision
    /\ pass.at \in {"prepare", "preflight", "send"} => nodeFence = pass.revision
    /\ pass.at = "send" => record[pass.revision].stage = "dispatched" /\ Unsent(pass.revision)
    /\ \A r \in Revisions : asked[r].state = "failed" => record[r].stage = "preparing"

InOrder == \A m, n \in DOMAIN sent : m < n => sent[m] < sent[n]

FleetInv ==
  /\ FleetTypeOK
  /\ PassInv
  /\ WebsiteInv
  /\ NodeInv
  /\ InOrder

-----------------------------------------------------------------------------
(* Every action preserves the invariant.                                   *)

\* A call appends to what was sent.
LEMMA Appended ==
  ASSUME NEW S, NEW s \in Seq(S), NEW e \in S
  PROVE  /\ Append(s, e) \in Seq(S)
         /\ DOMAIN s = 1 .. Len(s) /\ Len(s) \in Nat
         /\ DOMAIN Append(s, e) = 1 .. (Len(s) + 1)
         /\ \A n \in 1 .. Len(s) : Append(s, e)[n] = s[n]
         /\ Append(s, e)[Len(s) + 1] = e
OBVIOUS

LEMMA InitInv == FleetInit => FleetInv
BY FleetAssumption
   DEF FleetInit, FleetInv, FleetTypeOK, PassInv, WebsiteInv, NodeInv, InOrder, Unsent, Asked,
       Record, Steps, Idle, Revisions

LEMMA StutterInv == FleetInv /\ UNCHANGED fleetVars => FleetInv'
BY DEF FleetInv, FleetTypeOK, PassInv, WebsiteInv, NodeInv, InOrder, Unsent, fleetVars, filesVars

\* The portal: a revision that is asked for was in no state before.
LEMMA PortalInv ==
  ASSUME FleetInv,
         \/ \E r \in Revisions, i \in Images : AskRevision(r, i)
         \/ ActivateBeforePasses
  PROVE  FleetInv'
<1> USE DEF FleetInv
<1>1. ASSUME NEW r \in Revisions, NEW i \in Images, AskRevision(r, i)
      PROVE  FleetInv'
  <2> USE <1>1 DEF AskRevision, filesVars
  <2>1. FleetTypeOK'
    BY DEF FleetTypeOK, Asked
  <2>2. \A q \in Revisions : asked[q].state \in {"running", "failed"} =>
          q # r /\ asked'[q] = asked[q]
    BY DEF FleetTypeOK
  <2>3. asked'[r].state = "queued" /\ \A q \in Revisions \ {r} : asked'[q] = asked[q]
    BY DEF FleetTypeOK
  <2>4. PassInv' /\ InOrder'
    BY <2>2 DEF PassInv, InOrder
  <2>5. WebsiteInv' /\ NodeInv'
    BY <2>2, <2>3 DEF WebsiteInv, NodeInv, Unsent
  <2> QED
    BY <2>1, <2>4, <2>5
<1>2. CASE ActivateBeforePasses
  BY <1>2 DEF ActivateBeforePasses, filesVars, FleetTypeOK, PassInv, WebsiteInv, NodeInv, InOrder,
              Unsent
<1> QED
  BY <1>1, <1>2

\* The worker starts, stops, or gives a pass up: nothing is undone.
LEMMA PassEndsInv ==
  ASSUME FleetInv, pass'.at \in {"down", "idle"}, pass' \in [at : Steps, revision : Revisions \cup {0}],
         stops' \in 0 .. MaxFleetStops,
         UNCHANGED <<kind, asked, expired, filesVars, sending, app, sent>>
  PROVE  FleetInv'
BY DEF FleetInv, filesVars, FleetTypeOK, PassInv, WebsiteInv, NodeInv, InOrder, Unsent

LEMMA WorkerInv ==
  ASSUME FleetInv, StartWorker \/ StopWorker \/ PassFails
  PROVE  FleetInv'
<1>1. stops' \in 0 .. MaxFleetStops
  BY FleetAssumption DEF FleetInv, FleetTypeOK, StartWorker, StopWorker, PassFails
<1>2. pass'.at \in {"down", "idle"} /\ pass' \in [at : Steps, revision : Revisions \cup {0}]
  BY DEF StartWorker, StopWorker, PassFails, Idle, Steps
<1> QED
  BY <1>1, <1>2, PassEndsInv DEF StartWorker, StopWorker, PassFails

\* The call: everything sent before is older.
LEMMA DeployAppInv ==
  ASSUME FleetInv, DeployApp
  PROVE  FleetInv'
<1> USE DEF FleetInv, DeployApp
<1> DEFINE r == pass.revision
           k == Len(sent)
<1>1. r \in Revisions /\ r \in Nat
  BY FleetAssumption DEF PassInv, Revisions
<1>2. sent \in Seq(Revisions)
  BY DEF FleetTypeOK
<1>3. /\ sent' \in Seq(Revisions) /\ k \in Nat
      /\ DOMAIN sent = 1 .. k /\ DOMAIN sent' = 1 .. (k + 1)
      /\ \A n \in 1 .. k : sent'[n] = sent[n]
      /\ sent'[k + 1] = r
  BY <1>1, <1>2, Appended
<1>4. pass' = [at |-> "await", revision |-> r] /\ UNCHANGED <<kind, asked, saved, record, nodeFence>>
  BY DEF Go, FleetTypeOK, filesVars
<1>5. \A n \in 1 .. k : sent[n] \in Nat /\ sent[n] < r
  <2>1. \A n \in 1 .. k : sent[n] \in Revisions
    BY <1>2, <1>3
  <2>2. CASE kind = "static"
    BY <1>1, <1>3, <2>1, <2>2, FleetAssumption DEF WebsiteInv, Unsent, Revisions
  <2>3. CASE kind = "node"
    <3>1. \A n \in 1 .. k : sent[n] <= r /\ sent[n] # r
      BY <1>3, <2>3 DEF NodeInv, Unsent
    <3> QED
      BY <1>1, <2>1, <3>1, FleetAssumption DEF Revisions
  <2> QED
    BY <2>2, <2>3 DEF FleetTypeOK
<1> HIDE DEF r, k
<1>6. FleetTypeOK'
  BY <1>1, <1>3, <1>4 DEF FleetTypeOK, Steps, filesVars, r
<1>7. PassInv'
  BY <1>1, <1>4 DEF PassInv, r
<1>8. WebsiteInv'
  <2>1. kind = "static" => r = saved.revision /\ saved.dispatched = "yes"
    BY DEF WebsiteInv, r
  <2>2. kind = "static" => \A n \in 1 .. (k + 1) : sent'[n] <= saved.revision
    BY <1>1, <1>3, <1>5, <2>1
  <2> QED
    BY <1>3, <1>4, <2>1, <2>2 DEF WebsiteInv
<1>9. NodeInv'
  <2>1. kind = "node" => r = nodeFence /\ record[r].stage = "dispatched"
    BY DEF NodeInv, r
  <2>2. kind = "node" => \A n \in 1 .. (k + 1) : sent'[n] <= nodeFence
    BY <1>1, <1>3, <1>5, <2>1
  <2>3. kind = "node" => \A n \in 1 .. (k + 1) : record[sent'[n]].stage = "dispatched"
    <3>1. kind = "node" => \A n \in 1 .. k : record[sent[n]].stage = "dispatched"
      BY <1>3 DEF NodeInv
    <3>2. \A n \in 1 .. (k + 1) : n \in 1 .. k \/ n = k + 1
      BY <1>3
    <3> QED
      BY <1>3, <2>1, <3>1, <3>2
  <2> QED
    BY <1>3, <1>4, <2>2, <2>3 DEF NodeInv
<1>10. InOrder'
  BY <1>1, <1>3, <1>5 DEF InOrder
<1> QED
  BY <1>6, <1>7, <1>8, <1>9, <1>10

\* The call returned: a website's status is read next.
LEMMA DeployReturnsInv ==
  ASSUME FleetInv, DeployReturns
  PROVE  FleetInv'
BY DEF FleetInv, DeployReturns, Go, Idle, Steps, filesVars, FleetTypeOK, PassInv, WebsiteInv,
       NodeInv, InOrder, Unsent

\* What is recorded of one revision does not change another.
LEMMA StateSet ==
  ASSUME FleetTypeOK, NEW r \in Revisions,
         NEW s \in {"none", "queued", "running", "succeeded", "failed"},
         asked' = [asked EXCEPT ![r].state = s]
  PROVE  /\ asked' \in [Revisions -> Asked] /\ asked'[r].state = s
         /\ \A q \in Revisions \ {r} : asked'[q] = asked[q]
<1>1. asked[r] \in Asked
  BY DEF FleetTypeOK
<1>2. [asked[r] EXCEPT !.state = s] = [image |-> asked[r].image, state |-> s]
  BY <1>1 DEF Asked
<1>3. asked' = [asked EXCEPT ![r] = [image |-> asked[r].image, state |-> s]]
  BY <1>2
<1> QED
  BY <1>1, <1>3 DEF FleetTypeOK, Asked

\* A website's publication is taken up, and its file tells where to go on.
LEMMA PublishInv ==
  ASSUME FleetInv, NEW r \in Revisions, Publish(r)
  PROVE  FleetInv'
<1> USE DEF FleetInv, Publish
<1>1. pass' = [at |-> Resume(r), revision |-> r] /\ Resume(r) \in {"build", "look", "check"}
  BY DEF Resume
<1>2. FleetTypeOK'
  BY <1>1 DEF FleetTypeOK, Asked, Steps, filesVars
<1>3. PassInv' /\ NodeInv' /\ InOrder'
  BY <1>1 DEF PassInv, NodeInv, InOrder, filesVars
<1>4. \A q \in Revisions : asked'[q].state = "failed" => asked[q].state = "failed"
  BY DEF FleetTypeOK
<1>5. WebsiteInv'
  BY <1>1, <1>4, FleetAssumption DEF WebsiteInv, Unsent, Resume, FleetTypeOK, Revisions, filesVars
<1> QED
  BY <1>2, <1>3, <1>5

LEMMA SaveBuiltInv ==
  ASSUME FleetInv, SaveBuilt
  PROVE  FleetInv'
<1> USE DEF FleetInv, SaveBuilt, Go
<1>1. pass.revision \in Revisions /\ kind = "static"
  BY DEF PassInv
<1>2. pass' = [at |-> "look", revision |-> pass.revision]
  BY DEF FleetTypeOK
<1>3. Built(pass.revision) \in Images \cup {NoImage}
  BY <1>1 DEF Built, FleetTypeOK, Asked
<1>4. FleetTypeOK'
  BY <1>1, <1>2, <1>3 DEF FleetTypeOK, Steps
<1>5. PassInv' /\ NodeInv' /\ InOrder'
  BY <1>1, <1>2 DEF PassInv, NodeInv, InOrder
<1>6. WebsiteInv'
  <2>1. \A n \in DOMAIN sent : sent[n] \in Revisions
    BY DEF FleetTypeOK
  <2> QED
    BY <1>1, <1>2, <2>1, FleetAssumption DEF WebsiteInv, FleetTypeOK, Revisions
<1> QED
  BY <1>4, <1>5, <1>6

\* A website that is served is reported as such; it is never reported as failed.
LEMMA WebsiteReportsInv ==
  ASSUME FleetInv, AlreadyServed \/ NotYetServed \/ CheckServed
  PROVE  FleetInv'
<1> USE DEF FleetInv
<1>1. pass.revision \in Revisions /\ kind = "static"
  BY DEF PassInv, AlreadyServed, NotYetServed, CheckServed
<1>2. UNCHANGED <<kind, expired, saved, record, nodeFence, stops, sending, app, sent>>
  BY DEF AlreadyServed, NotYetServed, CheckServed, filesVars
<1>3. CASE NotYetServed
  <2>1. pass' = [at |-> "preflight", revision |-> pass.revision] /\ UNCHANGED asked
    BY <1>3 DEF NotYetServed, Go, FleetTypeOK
  <2> QED
    BY <1>1, <1>2, <1>3, <2>1
       DEF NotYetServed, FleetTypeOK, Steps, PassInv, WebsiteInv, NodeInv, InOrder, Unsent
<1>4. CASE AlreadyServed \/ CheckServed
  <2>1. pass' = Idle
    BY <1>4 DEF AlreadyServed, CheckServed, Report
  <2>2. UNCHANGED asked \/ asked' = [asked EXCEPT ![pass.revision].state = "succeeded"]
    BY <1>4 DEF AlreadyServed, CheckServed, Report
  <2>3. FleetTypeOK'
    BY <1>1, <1>2, <2>1, <2>2 DEF FleetTypeOK, Asked, Idle, Steps
  <2>4. \A q \in Revisions : asked'[q].state = "failed" => asked[q].state = "failed"
    BY <1>1, <2>2, StateSet
  <2> QED
    BY <1>1, <1>2, <2>1, <2>3, <2>4 DEF PassInv, WebsiteInv, NodeInv, InOrder, Unsent, Idle
<1> QED
  BY <1>3, <1>4

\* The dispatch of a website is saved: it had not been sent.
LEMMA SaveDispatchInv ==
  ASSUME FleetInv, SaveDispatch
  PROVE  FleetInv'
<1> USE DEF FleetInv, SaveDispatch, Go
<1>1. pass.revision \in Revisions
  BY DEF PassInv
<1>2. pass' = [at |-> "send", revision |-> pass.revision]
  BY DEF FleetTypeOK
<1>3. saved' = [image |-> saved.image, revision |-> saved.revision, dispatched |-> "yes"]
  BY DEF FleetTypeOK
<1>4. FleetTypeOK'
  BY <1>1, <1>2, <1>3 DEF FleetTypeOK, Steps
<1>5. PassInv' /\ NodeInv' /\ InOrder'
  BY <1>1, <1>2 DEF PassInv, NodeInv, InOrder
<1>6. WebsiteInv'
  BY <1>2, <1>3 DEF WebsiteInv, Unsent
<1> QED
  BY <1>4, <1>5, <1>6

\* A Node deployment is submitted once, when it is queued, and inspected while
\* it is running.
LEMMA NodePassInv ==
  ASSUME FleetInv, NEW r \in Revisions, DispatchNode(r) \/ ReconcileNode(r)
  PROVE  FleetInv'
<1> USE DEF FleetInv
<1>1. kind = "node" /\ pass = Idle
  BY DEF DispatchNode, ReconcileNode
<1>2. UNCHANGED <<kind, saved, record, nodeFence, stops, sending, app, sent>>
  BY DEF DispatchNode, ReconcileNode, filesVars
<1>3. /\ pass' \in [at : {"operation", "inspect"}, revision : {r}]
      /\ expired' \in {"yes", "no"}
      /\ asked' \in [Revisions -> Asked]
      /\ asked'[r].state = "running"
      /\ \A q \in Revisions : asked'[q].state = "failed" => asked[q].state = "failed"
  <2>1. CASE DispatchNode(r)
    BY <2>1, StateSet DEF DispatchNode
  <2>2. CASE ReconcileNode(r)
    BY <2>2 DEF ReconcileNode, FleetTypeOK
  <2> QED
    BY <2>1, <2>2
<1>4. FleetTypeOK'
  BY <1>2, <1>3 DEF FleetTypeOK, Steps
<1>5. PassInv' /\ WebsiteInv' /\ InOrder'
  BY <1>1, <1>2, <1>3 DEF PassInv, WebsiteInv, InOrder
<1>6. NodeInv'
  BY <1>1, <1>2, <1>3 DEF NodeInv, Unsent
<1> QED
  BY <1>4, <1>5, <1>6

\* The files of a Node deployment, before it is sent.
LEMMA NodeFilesInv ==
  ASSUME FleetInv, SaveNodeOperation \/ SaveNodeFence \/ SaveNodeDispatched
  PROVE  FleetInv'
<1> USE DEF FleetInv
<1> DEFINE r == pass.revision
<1>1. r \in Revisions /\ kind = "node" /\ asked[r].state = "running"
  BY DEF PassInv, SaveNodeOperation, SaveNodeFence, SaveNodeDispatched
<1>2. UNCHANGED <<kind, asked, expired, saved, stops, sending, app, sent>>
  BY DEF SaveNodeOperation, SaveNodeFence, SaveNodeDispatched
<1>3. \A n \in DOMAIN sent : sent[n] \in Revisions
  BY DEF FleetTypeOK
<1>4. InOrder'
  BY <1>2 DEF InOrder
<1>5. CASE SaveNodeOperation
  <2>1. pass' = [at |-> "fence", revision |-> r] /\ UNCHANGED nodeFence
    BY <1>5 DEF SaveNodeOperation, Go, FleetTypeOK
  <2>2. /\ record' \in [Revisions -> Record]
        /\ record'[r].stage = "preparing" /\ \A q \in Revisions \ {r} : record'[q] = record[q]
    BY <1>1, <1>5 DEF SaveNodeOperation, FleetTypeOK, Record
  <2>3. \A n \in DOMAIN sent : sent[n] # r
    BY <1>1, <1>5 DEF NodeInv, SaveNodeOperation
  <2>4. FleetTypeOK' /\ PassInv' /\ WebsiteInv'
    BY <1>1, <1>2, <2>1, <2>2 DEF FleetTypeOK, Steps, PassInv, WebsiteInv
  <2>5. NodeInv'
    BY <1>1, <1>2, <1>3, <1>5, <2>1, <2>2, <2>3 DEF NodeInv, SaveNodeOperation
  <2> QED
    BY <1>4, <2>4, <2>5
<1>6. CASE SaveNodeFence
  <2>1. pass' = [at |-> "prepare", revision |-> r] /\ nodeFence' = r /\ UNCHANGED record
    BY <1>6 DEF SaveNodeFence, Go, FleetTypeOK
  <2>2. FleetTypeOK' /\ PassInv' /\ WebsiteInv'
    BY <1>1, <1>2, <2>1 DEF FleetTypeOK, Steps, PassInv, WebsiteInv
  <2>3. \A n \in DOMAIN sent : sent[n] <= r
    BY <1>1, <1>3, <1>6, FleetAssumption DEF NodeInv, SaveNodeFence, FleetTypeOK, Revisions
  <2>4. NodeInv'
    BY <1>1, <1>2, <1>6, <2>1, <2>3 DEF NodeInv, SaveNodeFence
  <2> QED
    BY <1>4, <2>2, <2>4
<1>7. CASE SaveNodeDispatched /\ expired = "no"
  <2>1. pass' = [at |-> "send", revision |-> r] /\ UNCHANGED nodeFence
    BY <1>7 DEF SaveNodeDispatched, Go, FleetTypeOK
  <2>2. /\ record' \in [Revisions -> Record]
        /\ record'[r].stage = "dispatched" /\ \A q \in Revisions \ {r} : record'[q] = record[q]
    <3>1. record[r] \in Record
      BY <1>1 DEF FleetTypeOK
    <3>2. [record[r] EXCEPT !.stage = "dispatched"]
            = [stage |-> "dispatched", previous |-> record[r].previous]
      BY <3>1 DEF Record
    <3>3. record' = [record EXCEPT ![r] = [stage |-> "dispatched", previous |-> record[r].previous]]
      BY <1>7, <3>2 DEF SaveNodeDispatched
    <3> QED
      BY <1>1, <3>1, <3>3 DEF FleetTypeOK, Record
  <2>3. Unsent(r)
    BY <1>1, <1>7 DEF NodeInv, SaveNodeDispatched, Unsent
  <2>4. FleetTypeOK' /\ PassInv' /\ WebsiteInv'
    BY <1>1, <1>2, <2>1, <2>2 DEF FleetTypeOK, Steps, PassInv, WebsiteInv
  <2>5. NodeInv'
    BY <1>1, <1>2, <1>3, <1>7, <2>1, <2>2, <2>3 DEF NodeInv, SaveNodeDispatched, Unsent
  <2> QED
    BY <1>4, <2>4, <2>5
<1>8. CASE SaveNodeDispatched /\ expired # "no"
  <2>1. pass' = Idle /\ UNCHANGED <<record, nodeFence>>
    BY <1>8 DEF SaveNodeDispatched
  <2> QED
    BY <1>2, <2>1, PassEndsInv DEF Idle, Steps, FleetTypeOK, filesVars
<1> QED
  BY <1>5, <1>6, <1>7, <1>8

\* The build is an outcome, and an inspection changes nothing by itself.
LEMMA NodeLooksInv ==
  ASSUME FleetInv, BuildNodeImage \/ InspectNode
  PROVE  FleetInv'
<1> USE DEF FleetInv
<1>1. pass.revision \in Revisions /\ kind = "node" /\ asked[pass.revision].state = "running"
  BY DEF PassInv, BuildNodeImage, InspectNode
<1>2. UNCHANGED <<kind, asked, expired, saved, record, nodeFence, stops, sending, app, sent>>
  BY DEF BuildNodeImage, InspectNode, filesVars
<1>3. CASE pass' = Idle
  BY <1>2, <1>3, PassEndsInv DEF Idle, Steps, FleetTypeOK, filesVars
<1>4. CASE pass' # Idle
  <2>1. pass'.revision = pass.revision /\ pass' \in [at : Steps, revision : Revisions]
    BY <1>1, <1>4 DEF BuildNodeImage, InspectNode, Go, FleetTypeOK, Inspected, Steps
  <2>2. \/ pass.at = "prepare" /\ pass'.at = "preflight"
        \/ pass'.at = "succeeded"
        \/ pass'.at = "failed" /\ record[pass.revision].stage = "preparing"
    BY <1>4 DEF BuildNodeImage, InspectNode, Go, FleetTypeOK, Inspected
  <2> QED
    BY <1>1, <1>2, <2>1, <2>2 DEF FleetTypeOK, PassInv, WebsiteInv, NodeInv, InOrder, Unsent
<1> QED
  BY <1>3, <1>4

\* What is reported as failed is still in preparation.
LEMMA CommitNodeInv ==
  ASSUME FleetInv, CommitNode
  PROVE  FleetInv'
<1> USE DEF FleetInv, CommitNode, Report
<1>1. pass.revision \in Revisions /\ kind = "node"
  BY DEF PassInv
<1>2. pass' = Idle /\ UNCHANGED <<kind, saved, record, nodeFence, sent>>
  BY DEF filesVars
<1>3. FleetTypeOK'
  BY <1>1, <1>2 DEF FleetTypeOK, Asked, Idle, Steps, filesVars
<1>4. \A q \in Revisions : asked'[q].state = "failed" =>
        asked[q].state = "failed" \/ (q = pass.revision /\ pass.at = "failed")
  BY <1>1, StateSet
<1>5. PassInv' /\ WebsiteInv' /\ InOrder'
  BY <1>1, <1>2 DEF PassInv, WebsiteInv, InOrder, Idle
<1>6. NodeInv'
  BY <1>1, <1>2, <1>4 DEF NodeInv, Idle
<1> QED
  BY <1>3, <1>5, <1>6

\* The deployer does not touch the worker's files.
LEMMA DeployerInv ==
  ASSUME FleetInv,
         \/ \E r \in Revisions : DeployArrives(r) \/ CallLost(r)
         \/ AppHealth
  PROVE  FleetInv'
<1> USE DEF FleetInv
<1>1. UNCHANGED <<kind, asked, expired, saved, record, nodeFence, pass, stops, sent>>
  BY DEF DeployArrives, CallLost, AppHealth, filesVars
<1>2. sending' \subseteq Revisions
  BY DEF DeployArrives, CallLost, AppHealth, FleetTypeOK
<1>3. app' \in [image : Images \cup {NoImage}, health : {"none", "pending", "healthy", "failed"}]
  BY DEF DeployArrives, CallLost, AppHealth, FleetTypeOK, Asked
<1> QED
  BY <1>1, <1>2, <1>3 DEF FleetTypeOK, PassInv, WebsiteInv, NodeInv, InOrder, Unsent

LEMMA StepInv == FleetInv /\ [FleetNext]_fleetVars => FleetInv'
BY StutterInv, PortalInv, WorkerInv, DeployAppInv, DeployReturnsInv, PublishInv, SaveBuiltInv,
   WebsiteReportsInv, SaveDispatchInv, NodePassInv, NodeFilesInv, NodeLooksInv, CommitNodeInv,
   DeployerInv
   DEF FleetNext

-----------------------------------------------------------------------------
(* The theorems.                                                           *)

\* The invariant holds of the fleet worker wherever it stops, and however often.
THEOREM FleetInvariance == FleetSpec => []FleetInv
BY InitInv, StepInv, PTL DEF FleetSpec

\* The variables keep their types (FleetRuntime): every file can be read back.
THEOREM FleetTypeCorrect == FleetSpec => []FleetTypeOK
BY FleetInvariance, PTL DEF FleetInv

\* A revision is sent to the deployer at most once and never after a newer one,
\* and what is reported as failed was not sent, wherever the worker stops
\* (publicationRuntime.Publish, SubmitNodeRuntime, InspectNodeRuntime).
THEOREM SendsOnce == FleetSpec => []SentOnceInOrder
<1>1. FleetInv => SentOnceInOrder
  <2> SUFFICES ASSUME FleetInv
               PROVE  SentOnceInOrder
    OBVIOUS
  <2>1. \A n \in DOMAIN sent : sent[n] \in Revisions
    BY DEF FleetInv, FleetTypeOK
  <2>2. FailedWasNotSent
    <3>1. CASE kind = "static"
      BY <3>1 DEF FleetInv, WebsiteInv, FailedWasNotSent
    <3>2. CASE kind = "node"
      BY <2>1, <3>2 DEF FleetInv, NodeInv, FailedWasNotSent
    <3> QED
      BY <3>1, <3>2 DEF FleetInv, FleetTypeOK
  <2> QED
    BY <2>2 DEF FleetInv, InOrder, SentOnceInOrder
<1> QED
  BY <1>1, FleetInvariance, PTL

-----------------------------------------------------------------------------
(* ContainerDeployment                                                     *)

\* Nothing of the job was ever sent to the deployer.
Unsubmitted == {"none", "preparing", "not_submitted"}

\* A pending job is the newest, and nothing is saved of a job before it runs.
JobInv ==
  /\ \A d, e \in Jobs : Pending(d) /\ d < e => job[e].state = "none"
  /\ \A d \in Jobs : job[d].state \in {"none", "queued", "cancelled"} => op[d].stage = "none"

\* What the worker has saved is ahead of what it sends.
ContainerWorkerInv ==
  /\ ~At("idle") => job[worker.job].state = "running"
  /\ At("fence") \/ At("preflight") => op[worker.job].stage = "preparing"
  /\ At("send") => /\ op[worker.job].stage = "dispatched" /\ req[worker.job] = "none"
                   /\ \A m \in wire : m.job # worker.job
  /\ At("await") => op[worker.job].stage \notin Unsubmitted
  /\ At("commit") =>
       \/ worker.outcome = "succeeded" /\ req[worker.job] = "applied"
       \/ /\ worker.outcome = "failed"
          /\ req[worker.job] = "withdrawn" \/ op[worker.job].stage \in Unsubmitted

\* The deployer knows what was sent, and what is served was applied.
SubmittedInv ==
  /\ \A m \in wire : op[m.job].stage \notin Unsubmitted
  /\ \A d \in Jobs : req[d] # "none" => op[d].stage \notin Unsubmitted
  /\ \A d \in Jobs : op[d].stage = "withdrawn" => req[d] = "withdrawn"
  /\ served # NoJob => req[served] = "applied"

\* What a job's record says of the deployer's, and of what is served.
OutcomeInv ==
  /\ \A d \in Jobs : job[d].state = "succeeded" => req[d] = "applied"
  /\ \A d \in Jobs : job[d].state = "failed" => req[d] = "withdrawn" \/ op[d].stage \in Unsubmitted
  /\ \A d \in Jobs : job[d].state = "running" /\ req[d] = "applied" => served = d

\* The jobs that succeeded have a newest.
NewestInv ==
  \/ \A d \in Jobs : job[d].state # "succeeded"
  \/ \E d \in Jobs : /\ job[d].state = "succeeded"
                     /\ \A e \in Jobs : job[e].state = "succeeded" => e <= d

ContainerInv ==
  /\ TypeOK
  /\ JobInv
  /\ ContainerWorkerInv
  /\ SubmittedInv
  /\ OutcomeInv
  /\ NewestInv
  /\ PortalFollowsDeployer

-----------------------------------------------------------------------------
(* Every action preserves the invariant.                                   *)

\* A step that leaves alone what the invariant is about.
\* A step that leaves alone what the invariant is about.
LEMMA FrameInv ==
  ASSUME ContainerInv, TypeOK', UNCHANGED <<job, op, worker, wire, req, served>>
  PROVE  ContainerInv'
BY DEF ContainerInv, JobInv, ContainerWorkerInv, SubmittedInv, OutcomeInv, NewestInv,
       PortalFollowsDeployer, LatestSucceeded, At, Pending

\* The newest job that succeeded changes with the jobs that succeeded only.
LEMMA LatestKept ==
  ASSUME \A d \in Jobs : job'[d].state = "succeeded" <=> job[d].state = "succeeded"
  PROVE  LatestSucceeded' = LatestSucceeded
<1> DEFINE before == {d \in Jobs : job[d].state = "succeeded"}
           after  == {d \in Jobs : job'[d].state = "succeeded"}
<1>1. after = before
  OBVIOUS
<1>2. LatestSucceeded =
        IF before = {} THEN NoJob ELSE CHOOSE d \in before : \A e \in before : e <= d
  BY DEF LatestSucceeded
<1>3. LatestSucceeded' =
        IF after = {} THEN NoJob ELSE CHOOSE d \in after : \A e \in after : e <= d
  BY DEF LatestSucceeded
<1> HIDE DEF before, after
<1> QED
  BY <1>1, <1>2, <1>3

\* A job whose state changes keeps the rest, and the others do not change.
LEMMA StateMoves ==
  ASSUME job \in [Jobs -> Job], NEW d \in Jobs,
         NEW s \in {"queued", "running", "succeeded", "failed", "cancelled"},
         job' = [job EXCEPT ![d] = [@ EXCEPT !.state = s]]
  PROVE  /\ job' \in [Jobs -> Job]
         /\ job'[d].state = s
         /\ \A e \in Jobs \ {d} : job'[e] = job[e]
<1> DEFINE r == [job[d] EXCEPT !.state = s]
<1>1. r \in Job /\ r.state = s
  BY DEF Job
<1>2. job' = [job EXCEPT ![d] = r]
  OBVIOUS
<1> HIDE DEF r
<1> QED
  BY <1>1, <1>2

\* The same of a saved operation whose stage changes.
LEMMA StageMoves ==
  ASSUME op \in [Jobs -> Operation], NEW d \in Jobs,
         NEW s \in {"preparing", "not_submitted", "recovering", "withdrawn"}, Stage(d, s)
  PROVE  /\ op' \in [Jobs -> Operation]
         /\ op'[d].stage = s
         /\ \A e \in Jobs \ {d} : op'[e] = op[e]
<1> DEFINE r == [op[d] EXCEPT !.stage = s]
<1>1. r \in Operation /\ r.stage = s
  BY DEF Operation
<1>2. op' = [op EXCEPT ![d] = r]
  BY DEF Stage
<1> HIDE DEF r
<1> QED
  BY <1>1, <1>2

LEMMA RestingWorks == /\ Resting \in Worker /\ Resting.pc = "idle" /\ Resting.job = NoJob
                      /\ Failed \in Worker /\ Failed.pc = "idle" /\ Failed.job = NoJob
BY DEF Resting, Failed, Working, Worker, Flag

\* The newest job that succeeded, if one did.
LEMMA LatestIs ==
  ASSUME NEW d \in Jobs, job[d].state = "succeeded",
         \A e \in Jobs : job[e].state = "succeeded" => e <= d
  PROVE  LatestSucceeded = d
<1> DEFINE done == {e \in Jobs : job[e].state = "succeeded"}
<1>1. d \in done /\ \A e \in done : e <= d
  OBVIOUS
<1>2. ASSUME NEW e \in done, \A f \in done : f <= e
      PROVE  e = d
  <2>1. e \in Nat /\ d \in Nat /\ e <= d /\ d <= e
    BY <1>1, <1>2, ContainerAssumption DEF Jobs
  <2> QED
    BY <2>1
<1> HIDE DEF done
<1>3. (CHOOSE e \in done : \A f \in done : f <= e) = d
  BY <1>1, <1>2
<1> QED
  BY <1>1, <1>3 DEF LatestSucceeded, done

-----------------------------------------------------------------------------
(* Every action preserves the invariant.                                   *)

\* Settings, releases, the deletion of the project, the deadline and the worker's
\* configuration.
LEMMA AsideInv ==
  ASSUME ContainerInv,
         \/ CreateSettings \/ DeleteContainerSettings
         \/ \E r \in Releases : ResolveImage(r) \/ SaveRelease(r) \/ PrepareFails(r)
         \/ DeleteProject \/ DeadlinePasses \/ Reconfigure
  PROVE  ContainerInv'
<1> USE DEF CreateSettings, DeleteContainerSettings, ResolveImage, SaveRelease, PrepareFails,
            DeleteProject, DeadlinePasses, Reconfigure, portalVars, workerVars, deployerVars
<1>1. UNCHANGED <<job, op, worker, wire, req, served>>
  OBVIOUS
<1>2. TypeOK'
  BY DEF ContainerInv, TypeOK, Flag
<1> QED
  BY <1>1, <1>2, FrameInv

\* A new job is the newest, and nothing was saved of it.
LEMMA RequestInv ==
  ASSUME ContainerInv, NEW d \in Jobs, NEW r \in Releases, RequestContainerDeployment(d, r)
  PROVE  ContainerInv'
<1>1. /\ job' \in [Jobs -> Job] /\ job'[d].state = "queued" /\ job[d].state = "none"
      /\ \A e \in Jobs \ {d} : job'[e] = job[e]
      /\ \A e \in Jobs : job[e].state # "none" <=> e < d
      /\ \A e \in Jobs : ~Pending(e)
      /\ UNCHANGED <<op, worker, wire, req, served>>
  BY ContainerAssumption
  DEF RequestContainerDeployment, IsNextRevision, ContainerInv, TypeOK, Job, Jobs, workerVars,
      deployerVars
<1>2. TypeOK'
  BY <1>1 DEF RequestContainerDeployment, ContainerInv, TypeOK, workerVars, deployerVars
<1>3. JobInv'
  <2>1. \A e \in Jobs : d < e => job'[e].state = "none"
    BY <1>1, ContainerAssumption DEF Jobs
  <2> QED
    BY <1>1, <2>1 DEF ContainerInv, JobInv, Pending
<1>4. ContainerWorkerInv' /\ OutcomeInv'
  <2>1. worker.pc # "idle" => worker.job \in Jobs \ {d}
    BY <1>1 DEF ContainerInv, TypeOK, Worker, ContainerWorkerInv, At
  <2> QED
    BY <1>1, <2>1 DEF ContainerInv, ContainerWorkerInv, OutcomeInv, At
<1>5. SubmittedInv' /\ NewestInv'
  BY <1>1 DEF ContainerInv, SubmittedInv, NewestInv
<1>6. PortalFollowsDeployer'
  BY <1>1, LatestKept DEF ContainerInv, TypeOK, PortalFollowsDeployer
<1> QED
  BY <1>2, <1>3, <1>4, <1>5, <1>6 DEF ContainerInv

\* A queued job is taken up or cancelled: the worker has nothing else in hand.
LEMMA QueuedMoves ==
  ASSUME ContainerInv, TypeOK', NEW d \in Jobs, job[d].state = "queued",
         job'[d].state \in {"running", "cancelled"},
         \A e \in Jobs \ {d} : job'[e] = job[e],
         UNCHANGED <<op, wire, req, served>>, ContainerWorkerInv'
  PROVE  ContainerInv'
<1>1. op[d].stage = "none" /\ req[d] = "none"
  BY DEF ContainerInv, JobInv, SubmittedInv, Unsubmitted
<1>2. JobInv'
  BY <1>1 DEF ContainerInv, JobInv, Pending
<1>3. OutcomeInv'
  BY <1>1 DEF ContainerInv, OutcomeInv
<1>4. SubmittedInv' /\ NewestInv'
  BY DEF ContainerInv, SubmittedInv, NewestInv
<1>5. PortalFollowsDeployer'
  BY LatestKept DEF ContainerInv, TypeOK, PortalFollowsDeployer
<1> QED
  BY <1>2, <1>3, <1>4, <1>5 DEF ContainerInv

LEMMA CancelInv ==
  ASSUME ContainerInv, NEW d \in Jobs, CancelContainerDeployment(d)
  PROVE  ContainerInv'
<1>1. /\ job[d].state = "queued" /\ job' \in [Jobs -> Job] /\ job'[d].state = "cancelled"
      /\ \A e \in Jobs \ {d} : job'[e] = job[e]
      /\ UNCHANGED <<op, worker, wire, req, served>>
  BY StateMoves DEF ContainerInv, TypeOK, CancelContainerDeployment, workerVars, deployerVars
<1>2. TypeOK'
  BY <1>1 DEF CancelContainerDeployment, ContainerInv, TypeOK, workerVars, deployerVars
<1>3. worker.pc # "idle" => worker.job \in Jobs \ {d}
  BY <1>1 DEF ContainerInv, TypeOK, Worker, ContainerWorkerInv, At
<1>4. ContainerWorkerInv'
  BY <1>1, <1>3 DEF ContainerInv, ContainerWorkerInv, At
<1> QED
  BY <1>1, <1>2, <1>4, QueuedMoves

LEMMA DispatchInv ==
  ASSUME ContainerInv, NEW d \in Jobs, DispatchContainerDeployment(d)
  PROVE  ContainerInv'
<1>1. /\ job[d].state = "queued" /\ UNCHANGED <<op, wire, req, served>>
      /\ worker.pc = "idle"
  BY DEF DispatchContainerDeployment, At, deployerVars
<1>2. CASE /\ job' = [job EXCEPT ![d] = [@ EXCEPT !.state = "cancelled"]]
           /\ UNCHANGED <<late, worker>>
  <2>1. /\ job' \in [Jobs -> Job] /\ job'[d].state = "cancelled"
        /\ \A e \in Jobs \ {d} : job'[e] = job[e]
    BY <1>2, StateMoves DEF ContainerInv, TypeOK
  <2>2. TypeOK'
    BY <1>2, <2>1 DEF DispatchContainerDeployment, ContainerInv, TypeOK, deployerVars
  <2>3. ContainerWorkerInv'
    BY <1>1, <1>2 DEF ContainerWorkerInv, At
  <2> QED
    BY <1>1, <2>1, <2>2, <2>3, QueuedMoves
<1>3. CASE /\ job' = [job EXCEPT ![d] = [state |-> "running", release |-> @.release,
                                         previous |-> ReleaseOf(LatestSucceeded)]]
           /\ late' = "no" /\ worker' = Working("submit", d, "no")
  <2>1. ReleaseOf(LatestSucceeded) \in Releases \cup {NoRelease}
    <3>1. CASE \A e \in Jobs : job[e].state # "succeeded"
      <4>1. LatestSucceeded = NoJob
        BY <3>1 DEF LatestSucceeded
      <4> QED
        BY <4>1 DEF ReleaseOf
    <3>2. ASSUME NEW e \in Jobs, job[e].state = "succeeded",
                 \A f \in Jobs : job[f].state = "succeeded" => f <= e
          PROVE  ReleaseOf(LatestSucceeded) \in Releases \cup {NoRelease}
      BY <3>2, LatestIs DEF ReleaseOf, ContainerInv, TypeOK, Job
    <3> QED
      BY <3>1, <3>2 DEF ContainerInv, NewestInv
  <2> DEFINE r == [state |-> "running", release |-> job[d].release,
                   previous |-> ReleaseOf(LatestSucceeded)]
  <2>2. r \in Job /\ r.state = "running"
    BY <2>1 DEF Job, ContainerInv, TypeOK
  <2>3. job' = [job EXCEPT ![d] = r]
    BY <1>3
  <2> HIDE DEF r
  <2>4. /\ job' \in [Jobs -> Job] /\ job'[d].state = "running"
        /\ \A e \in Jobs \ {d} : job'[e] = job[e]
    BY <2>2, <2>3 DEF ContainerInv, TypeOK
  <2>5. /\ worker' \in Worker /\ worker'.pc = "submit" /\ worker'.job = d
    BY <1>3 DEF Working, Worker, Flag
  <2>6. TypeOK'
    BY <1>3, <2>4, <2>5, ContainerAssumption
    DEF DispatchContainerDeployment, ContainerInv, TypeOK, deployerVars, Flag, Jobs, NoJob
  <2>7. ContainerWorkerInv'
    BY <2>4, <2>5 DEF ContainerWorkerInv, At
  <2> QED
    BY <1>1, <2>4, <2>6, <2>7, QueuedMoves
<1> QED
  BY <1>2, <1>3 DEF DispatchContainerDeployment

\* A step of the worker: of its job alone something may be saved or sent, what was
\* sent is not recorded as unsubmitted, and a withdrawal is saved if it is one.
LEMMA WorkerMoves ==
  ASSUME ContainerInv, TypeOK', UNCHANGED <<job, req, served>>,
         NEW d \in Jobs, job[d].state = "running",
         \A e \in Jobs \ {d} : op'[e] = op[e],
         op'[d].stage \in Unsubmitted => req[d] = "none" /\ \A m \in wire' : m.job # d,
         op'[d].stage = "withdrawn" => req[d] = "withdrawn",
         \A m \in wire' : m \in wire \/ m.job = d,
         ContainerWorkerInv'
  PROVE  ContainerInv'
<1>1. JobInv'
  BY DEF ContainerInv, JobInv, Pending
<1>2. SubmittedInv'
  BY DEF ContainerInv, TypeOK, SubmittedInv, Message
<1>3. OutcomeInv'
  BY DEF ContainerInv, OutcomeInv
<1>4. NewestInv' /\ PortalFollowsDeployer'
  BY DEF ContainerInv, NewestInv, PortalFollowsDeployer, LatestSucceeded
<1> QED
  BY <1>1, <1>2, <1>3, <1>4 DEF ContainerInv


\* The worker rests, whatever it saved or sent: nothing is asked of it.
LEMMA RestsInv ==
  ASSUME worker' \in {Resting, Failed}
  PROVE  ContainerWorkerInv' /\ worker' \in Worker /\ worker'.pc = "idle" /\ worker'.job = NoJob
BY RestingWorks DEF ContainerWorkerInv, At

\* The worker goes on with its job.
LEMMA WorksOn ==
  ASSUME TypeOK, NEW pc \in {"submit", "fence", "preflight", "send", "await", "advance",
                             "inspect", "commit"},
         worker.pc # "idle",
         \/ worker' = [worker EXCEPT !.pc = pc]
         \/ \E c \in Calls : worker' = [Working(pc, worker.job, worker.allow) EXCEPT !.call = c]
         \/ \E o \in {"succeeded", "failed"} :
              worker' = [Working(pc, worker.job, worker.allow) EXCEPT !.outcome = o]
  PROVE  worker' \in Worker /\ worker'.pc = pc /\ worker'.job = worker.job /\ worker.job \in Jobs
BY DEF TypeOK, Worker, Working, Flag, Calls

LEMMA ReconcileInv ==
  ASSUME ContainerInv, NEW d \in Jobs, ReconcileContainerDeployment(d)
  PROVE  ContainerInv'
<1>1. PICK allow \in Flag : worker' = Working("advance", d, allow)
  BY DEF ReconcileContainerDeployment
<1>2. worker' \in Worker /\ worker'.pc = "advance" /\ worker'.job = d
  BY <1>1 DEF Working, Worker, Flag
<1>3. job[d].state = "running" /\ UNCHANGED <<job, op, wire, req, served>>
  BY DEF ReconcileContainerDeployment, portalVars, deployerVars
<1>4. TypeOK'
  BY <1>2, ContainerAssumption
  DEF ReconcileContainerDeployment, ContainerInv, TypeOK, portalVars, deployerVars, Jobs, NoJob
<1>5. ContainerWorkerInv'
  BY <1>2, <1>3 DEF ContainerWorkerInv, At
<1> QED
  BY <1>3, <1>4, <1>5, WorkerMoves DEF ContainerInv, SubmittedInv

LEMMA InHand ==
  ASSUME ContainerInv, worker.pc # "idle"
  PROVE  worker.job \in Jobs /\ job[worker.job].state = "running"
BY DEF ContainerInv, TypeOK, Worker, ContainerWorkerInv, At

LEMMA WorkerTypes ==
  ASSUME TypeOK, UNCHANGED <<candidates, portalVars, req, latest, served>>,
         fence' \in Jobs \cup {NoJob}, op' \in [Jobs -> Operation], wire' \subseteq Message,
         worker' \in Worker, worker'.job = NoJob <=> worker'.pc = "idle"
  PROVE  TypeOK'
BY DEF TypeOK, portalVars

LEMMA JobsAreNumbers == Jobs \subseteq Nat /\ NoJob \notin Jobs
BY ContainerAssumption DEF Jobs, NoJob

\* The worker gives up, or finds nothing to do.
LEMMA GivesUpInv ==
  ASSUME ContainerInv, worker.pc # "idle", worker' \in {Resting, Failed},
         UNCHANGED <<op, fence, candidates, portalVars, deployerVars>>
  PROVE  ContainerInv'
<1> DEFINE d == worker.job
<1>1. /\ d \in Jobs /\ job[d].state = "running"
      /\ UNCHANGED <<job, op, wire, req, served>>
  BY InHand DEF portalVars, deployerVars
<1>2. TypeOK'
  BY RestsInv, WorkerTypes DEF ContainerInv, TypeOK, deployerVars
<1>3. op[d].stage \in Unsubmitted => req[d] = "none" /\ \A m \in wire : m.job # d
  BY <1>1 DEF ContainerInv, SubmittedInv
<1>4. op[d].stage = "withdrawn" => req[d] = "withdrawn"
  BY <1>1 DEF ContainerInv, SubmittedInv
<1> HIDE DEF d
<1> QED
  BY <1>1, <1>2, <1>3, <1>4, RestsInv, WorkerMoves

LEMMA SaveOperationInv ==
  ASSUME ContainerInv, SaveOperation
  PROVE  ContainerInv'
<1> DEFINE d == worker.job
<1>1. /\ worker.pc # "idle" /\ d \in Jobs /\ job[d].state = "running"
      /\ UNCHANGED <<fence, candidates, portalVars, deployerVars>>
      /\ UNCHANGED <<job, wire, req, served>>
  BY InHand DEF SaveOperation, At, portalVars, deployerVars
<1>2. CASE op[d].stage = "none" /\ Stage(d, "preparing") /\ Goto("fence")
  <2>1. /\ op' \in [Jobs -> Operation] /\ op'[d].stage = "preparing"
        /\ \A e \in Jobs \ {d} : op'[e] = op[e]
    BY <1>1, <1>2, StageMoves DEF ContainerInv, TypeOK
  <2>2. worker' \in Worker /\ worker'.pc = "fence" /\ worker'.job = d
    BY <1>1, <1>2, WorksOn DEF ContainerInv, Goto
  <2>3. TypeOK'
    BY <1>1, <2>1, <2>2, JobsAreNumbers, WorkerTypes DEF ContainerInv, TypeOK, deployerVars
  <2>4. req[d] = "none" /\ \A m \in wire : m.job # d
    BY <1>1, <1>2 DEF ContainerInv, SubmittedInv, Unsubmitted
  <2>5. ContainerWorkerInv'
    BY <1>1, <2>1, <2>2 DEF ContainerWorkerInv, At
  <2> HIDE DEF d
  <2> QED
    BY <1>1, <2>1, <2>3, <2>4, <2>5, WorkerMoves
<1>3. CASE worker' = Resting /\ UNCHANGED op
  BY <1>1, <1>3, GivesUpInv
<1> QED
  BY <1>2, <1>3 DEF SaveOperation

LEMMA SaveFenceInv ==
  ASSUME ContainerInv, SaveFence
  PROVE  ContainerInv'
<1> DEFINE d == worker.job
<1>1. /\ worker.pc = "fence" /\ d \in Jobs /\ job[d].state = "running" /\ fence' = d
      /\ UNCHANGED <<op, candidates, portalVars, deployerVars>>
      /\ UNCHANGED <<job, wire, req, served>>
  BY InHand DEF SaveFence, At, portalVars, deployerVars
<1>2. worker' \in Worker /\ worker'.pc = "preflight" /\ worker'.job = d
  BY <1>1, WorksOn DEF ContainerInv, SaveFence, Goto
<1>3. TypeOK'
  BY <1>1, <1>2, JobsAreNumbers, WorkerTypes DEF ContainerInv, TypeOK, deployerVars
<1>4. op[d].stage = "preparing"
  BY <1>1 DEF ContainerInv, ContainerWorkerInv, At
<1>5. req[d] = "none" /\ \A m \in wire : m.job # d
  BY <1>1, <1>4 DEF ContainerInv, SubmittedInv, Unsubmitted
<1>6. ContainerWorkerInv'
  BY <1>1, <1>2, <1>4 DEF ContainerWorkerInv, At
<1> HIDE DEF d
<1> QED
  BY <1>1, <1>3, <1>4, <1>5, <1>6, WorkerMoves

\* Before anything is sent, whether the intent to send it was saved or not.
LEMMA NothingSent ==
  ASSUME ContainerInv, worker.pc \in {"fence", "preflight", "send"}
  PROVE  req[worker.job] = "none" /\ \A m \in wire : m.job # worker.job
BY InHand DEF ContainerInv, ContainerWorkerInv, SubmittedInv, Unsubmitted, At

LEMMA RejectInv ==
  ASSUME ContainerInv, RejectBeforeSubmission
  PROVE  ContainerInv'
<1> DEFINE d == worker.job
<1>1. /\ worker.pc \in {"preflight", "send"} /\ d \in Jobs /\ job[d].state = "running"
      /\ UNCHANGED <<fence, candidates, portalVars, deployerVars>>
      /\ UNCHANGED <<job, wire, req, served>>
  BY InHand DEF RejectBeforeSubmission, At, portalVars, deployerVars
<1>2. /\ op' \in [Jobs -> Operation] /\ op'[d].stage = "not_submitted"
      /\ \A e \in Jobs \ {d} : op'[e] = op[e]
  BY <1>1, StageMoves DEF RejectBeforeSubmission, ContainerInv, TypeOK
<1>3. TypeOK' /\ ContainerWorkerInv'
  BY <1>1, <1>2, RestsInv, WorkerTypes
  DEF RejectBeforeSubmission, ContainerInv, TypeOK, deployerVars
<1>4. req[d] = "none" /\ \A m \in wire : m.job # d
  BY <1>1, NothingSent
<1> HIDE DEF d
<1> QED
  BY <1>1, <1>2, <1>3, <1>4, WorkerMoves

LEMMA SaveDispatchedInv ==
  ASSUME ContainerInv, SaveDispatched
  PROVE  ContainerInv'
<1> DEFINE d == worker.job
<1>1. /\ worker.pc = "preflight" /\ d \in Jobs /\ job[d].state = "running"
      /\ UNCHANGED <<fence, candidates, portalVars, deployerVars>>
      /\ UNCHANGED <<job, wire, req, served>>
  BY InHand DEF SaveDispatched, At, portalVars, deployerVars
<1>2. /\ op' \in [Jobs -> Operation] /\ op'[d].stage = "dispatched"
      /\ \A e \in Jobs \ {d} : op'[e] = op[e]
  BY <1>1 DEF SaveDispatched, ContainerInv, TypeOK, Operation
<1>3. worker' \in Worker /\ worker'.pc = "send" /\ worker'.job = d
  BY <1>1, WorksOn DEF ContainerInv, SaveDispatched, Goto
<1>4. TypeOK'
  BY <1>1, <1>2, <1>3, JobsAreNumbers, WorkerTypes DEF ContainerInv, TypeOK, deployerVars
<1>5. req[d] = "none" /\ \A m \in wire : m.job # d
  BY <1>1, NothingSent
<1>6. ContainerWorkerInv'
  BY <1>1, <1>2, <1>3, <1>5 DEF ContainerWorkerInv, At
<1> HIDE DEF d
<1> QED
  BY <1>1, <1>2, <1>4, <1>5, <1>6, WorkerMoves

\* A call of the worker, about a job that was submitted.
LEMMA CallInv ==
  ASSUME ContainerInv, worker.pc # "idle", NEW c \in Calls, Call(c, worker.job),
         op' \in [Jobs -> Operation], op'[worker.job].stage \notin Unsubmitted,
         op'[worker.job].stage = "withdrawn" => req[worker.job] = "withdrawn",
         \A e \in Jobs \ {worker.job} : op'[e] = op[e],
         UNCHANGED <<fence, candidates, portalVars, req, latest, served>>
  PROVE  ContainerInv'
<1> DEFINE d == worker.job
<1>1. d \in Jobs /\ job[d].state = "running" /\ UNCHANGED <<job, req, served>>
  BY InHand DEF portalVars
<1>2. worker' \in Worker /\ worker'.pc = "await" /\ worker'.job = d
  BY WorksOn DEF ContainerInv, Call
<1>3. [call |-> c, job |-> d] \in Message /\ [call |-> c, job |-> d].job = d
  BY <1>1 DEF Message
<1>4. wire' \subseteq Message /\ \A m \in wire' : m \in wire \/ m.job = d
  BY <1>3 DEF Call, ContainerInv, TypeOK
<1>5. op'[d].stage \notin Unsubmitted /\ (op'[d].stage = "withdrawn" => req[d] = "withdrawn")
  BY <1>1 DEF Unsubmitted, ContainerInv, SubmittedInv
<1>6. TypeOK'
  BY <1>1, <1>2, <1>4, JobsAreNumbers, WorkerTypes DEF ContainerInv, TypeOK
<1>7. ContainerWorkerInv'
  BY <1>1, <1>2, <1>5 DEF ContainerWorkerInv, At
<1> HIDE DEF d
<1> QED
  BY <1>1, <1>4, <1>5, <1>6, <1>7, WorkerMoves DEF d

LEMMA DeployInv ==
  ASSUME ContainerInv, DeployAppTracked
  PROVE  ContainerInv'
<1>1. worker.pc = "send" /\ worker.job \in Jobs /\ UNCHANGED op
  BY InHand DEF DeployAppTracked, At
<1>2. op[worker.job].stage = "dispatched"
  BY <1>1 DEF ContainerInv, ContainerWorkerInv, At
<1> QED
  BY <1>1, <1>2, CallInv DEF DeployAppTracked, ContainerInv, TypeOK, Calls, Unsubmitted

\* The worker goes on to look at its job, or rests: what it saved of the job stands,
\* or is a withdrawal that the deployer has recorded.
LEMMA LooksInv ==
  ASSUME ContainerInv, worker.pc # "idle",
         Goto("inspect") \/ worker' \in {Resting, Failed},
         UNCHANGED op \/ (Stage(worker.job, "withdrawn") /\ req[worker.job] = "withdrawn"),
         UNCHANGED <<fence, candidates, portalVars, deployerVars>>
  PROVE  ContainerInv'
<1> DEFINE d == worker.job
<1>1. d \in Jobs /\ job[d].state = "running" /\ UNCHANGED <<job, wire, req, served>>
  BY InHand DEF portalVars, deployerVars
<1>2. /\ op' \in [Jobs -> Operation] /\ \A e \in Jobs \ {d} : op'[e] = op[e]
      /\ op'[d].stage = op[d].stage \/ (op'[d].stage = "withdrawn" /\ req[d] = "withdrawn")
  BY <1>1, StageMoves DEF ContainerInv, TypeOK
<1>3. /\ worker' \in Worker
      /\ worker'.job = NoJob <=> worker'.pc = "idle"
      /\ worker'.pc = "idle" \/ (worker'.pc = "inspect" /\ worker'.job = d)
  <2>1. CASE Goto("inspect")
    BY <1>1, <2>1, WorksOn, JobsAreNumbers DEF ContainerInv, Goto
  <2>2. CASE worker' \in {Resting, Failed}
    BY <2>2, RestsInv
  <2> QED
    BY <2>1, <2>2
<1>4. TypeOK'
  BY <1>2, <1>3, WorkerTypes DEF ContainerInv, TypeOK, deployerVars
<1>5. ContainerWorkerInv'
  BY <1>1, <1>3 DEF ContainerWorkerInv, At
<1>6. /\ op'[d].stage \in Unsubmitted => req[d] = "none" /\ \A m \in wire : m.job # d
      /\ op'[d].stage = "withdrawn" => req[d] = "withdrawn"
  BY <1>1, <1>2 DEF ContainerInv, SubmittedInv, Unsubmitted
<1> HIDE DEF d
<1> QED
  BY <1>1, <1>2, <1>4, <1>5, <1>6, WorkerMoves

LEMMA AnsweredInv ==
  ASSUME ContainerInv, DeployAnswered \/ NothingToAdvance \/ InspectedUnhealthy \/ GiveUp
  PROVE  ContainerInv'
BY LooksInv
DEF DeployAnswered, NothingToAdvance, InspectedUnhealthy, GiveUp, SaveWithdrawal, At

\* What is done about the deployer's record, of a job that was submitted.
LEMMA FollowInv ==
  ASSUME ContainerInv, worker.pc # "idle", op[worker.job].stage \notin Unsubmitted,
         NEW found \in {"none", "pending", "stopping", "applied", "withdrawn"},
         Follow(worker.job, found),
         UNCHANGED <<fence, candidates, portalVars, req, latest, served>>
  PROVE  ContainerInv'
<1> DEFINE d == worker.job
<1>1. d \in Jobs
  BY InHand
<1>2. ASSUME NEW c \in Calls, Stage(d, "recovering"), Call(c, d)
      PROVE  ContainerInv'
  <2>1. /\ op' \in [Jobs -> Operation] /\ op'[d].stage = "recovering"
        /\ \A e \in Jobs \ {d} : op'[e] = op[e]
    BY <1>1, <1>2, StageMoves DEF ContainerInv, TypeOK
  <2> QED
    BY <1>2, <2>1, CallInv DEF Unsubmitted
<1>3. ASSUME NEW c \in Calls, UNCHANGED op, Call(c, d)
      PROVE  ContainerInv'
  BY <1>1, <1>3, CallInv DEF ContainerInv, TypeOK, SubmittedInv
<1>4. CASE worker' = Failed /\ UNCHANGED <<op, wire>>
  BY <1>4, LooksInv DEF deployerVars
<1>5. CASE Goto("inspect") /\ UNCHANGED <<op, wire>>
  BY <1>5, LooksInv DEF deployerVars
<1> QED
  BY <1>2, <1>3, <1>4, <1>5 DEF Follow, Calls

LEMMA AdvanceInv ==
  ASSUME ContainerInv, AdvanceContainerRuntime \/ LookupFails
  PROVE  ContainerInv'
<1>1. worker.pc # "idle" /\ op[worker.job].stage \notin Unsubmitted
  BY DEF AdvanceContainerRuntime, LookupFails, Advances, At, Unsubmitted
<1>2. req[worker.job] \in {"none", "pending", "stopping", "applied", "withdrawn"}
  BY <1>1, InHand DEF ContainerInv, TypeOK
<1>3. CASE AdvanceContainerRuntime
  BY <1>1, <1>2, <1>3, FollowInv DEF AdvanceContainerRuntime
<1>4. CASE LookupFails
  BY <1>1, <1>4, FollowInv DEF LookupFails
<1> QED
  BY <1>3, <1>4

LEMMA AdvanceAnsweredInv ==
  ASSUME ContainerInv, AdvanceAnswered
  PROVE  ContainerInv'
<1>1. worker.pc = "await" /\ op[worker.job].stage \notin Unsubmitted
  BY DEF AdvanceAnswered, ContainerInv, ContainerWorkerInv, At
<1>2. req[worker.job] \in {"none", "pending", "stopping", "applied", "withdrawn"}
  BY <1>1, InHand DEF ContainerInv, TypeOK
<1>3. CASE Follow(worker.job, req[worker.job])
  BY <1>1, <1>2, <1>3, FollowInv DEF AdvanceAnswered
<1>4. CASE Goto("inspect") /\ UNCHANGED <<op, wire>>
  BY <1>1, <1>4, LooksInv DEF AdvanceAnswered, deployerVars
<1> QED
  BY <1>3, <1>4 DEF AdvanceAnswered

\* An outcome is committed to only if the deployer's record, or the worker's own,
\* is final.
LEMMA InspectInv ==
  ASSUME ContainerInv, InspectContainerRuntime
  PROVE  ContainerInv'
<1> DEFINE d == worker.job
<1>1. /\ worker.pc = "inspect" /\ d \in Jobs /\ job[d].state = "running"
      /\ UNCHANGED <<fence, candidates, portalVars, deployerVars>>
      /\ UNCHANGED <<job, wire, req, served>>
  BY InHand DEF InspectContainerRuntime, At, portalVars, deployerVars
<1>2. UNCHANGED op \/ (Stage(d, "withdrawn") /\ req[d] = "withdrawn")
  BY DEF InspectContainerRuntime, SaveWithdrawal
<1>3. CASE worker' = Resting
  BY <1>1, <1>2, <1>3, LooksInv
<1>4. CASE Outcome(d) # "none" /\ worker' = [Working("commit", d, worker.allow) EXCEPT !.outcome = Outcome(d)]
  <2>1. \/ Outcome(d) = "succeeded" /\ req[d] = "applied"
        \/ Outcome(d) = "failed" /\ (req[d] = "withdrawn" \/ op[d].stage \in Unsubmitted)
    BY <1>1, <1>4 DEF Outcome, TrackedOutcome, Unsubmitted, ContainerInv, SubmittedInv
  <2>2. /\ worker' \in Worker /\ worker'.pc = "commit" /\ worker'.job = d
        /\ worker'.outcome = Outcome(d)
    BY <1>1, <1>4, <2>1, WorksOn DEF ContainerInv, Working
  <2>3. /\ op' \in [Jobs -> Operation] /\ \A e \in Jobs \ {d} : op'[e] = op[e]
        /\ op'[d].stage = op[d].stage \/ (op'[d].stage = "withdrawn" /\ req[d] = "withdrawn")
    BY <1>1, <1>2, StageMoves DEF ContainerInv, TypeOK
  <2>4. TypeOK'
    BY <1>1, <2>2, <2>3, JobsAreNumbers, WorkerTypes DEF ContainerInv, TypeOK, deployerVars
  <2>5. /\ op'[d].stage \in Unsubmitted => req[d] = "none" /\ \A m \in wire : m.job # d
        /\ op'[d].stage = "withdrawn" => req[d] = "withdrawn"
    BY <1>1, <2>3 DEF ContainerInv, SubmittedInv, Unsubmitted
  <2>6. ContainerWorkerInv'
    BY <1>1, <2>1, <2>2, <2>3 DEF ContainerWorkerInv, At
  <2> HIDE DEF d
  <2> QED
    BY <1>1, <2>3, <2>4, <2>5, <2>6, WorkerMoves
<1> QED
  BY <1>3, <1>4 DEF InspectContainerRuntime

\* The outcome is recorded: the app runs the job that succeeded, and the job that
\* failed is not served.
LEMMA CommitInv ==
  ASSUME ContainerInv, CommitOutcome
  PROVE  ContainerInv'
<1> DEFINE d == worker.job
           s == worker.outcome
<1>1. /\ worker.pc = "commit" /\ d \in Jobs /\ job[d].state = "running"
      /\ UNCHANGED <<op, wire, req, served>>
  BY InHand DEF CommitOutcome, At, deployerVars
<1>2. \/ s = "succeeded" /\ req[d] = "applied"
      \/ s = "failed" /\ (req[d] = "withdrawn" \/ op[d].stage \in Unsubmitted)
  BY <1>1 DEF ContainerInv, ContainerWorkerInv, At
<1>3. /\ job' \in [Jobs -> Job] /\ job'[d].state = s
      /\ \A e \in Jobs \ {d} : job'[e] = job[e]
  BY <1>1, <1>2, StateMoves DEF CommitOutcome, ContainerInv, TypeOK
<1>4. TypeOK' /\ ContainerWorkerInv'
  BY <1>3, RestsInv DEF CommitOutcome, ContainerInv, TypeOK, deployerVars
<1> HIDE DEF d, s
<1>5. JobInv'
  BY <1>1, <1>2, <1>3 DEF ContainerInv, JobInv, Pending
<1>6. SubmittedInv'
  BY <1>1 DEF ContainerInv, SubmittedInv
<1>7. OutcomeInv'
  BY <1>1, <1>2, <1>3 DEF ContainerInv, OutcomeInv
<1>8. \A e \in Jobs : job[e].state = "succeeded" => e <= d
  <2>1. ASSUME NEW e \in Jobs, job[e].state = "succeeded" PROVE e <= d
    <3>1. e \in Nat /\ d \in Nat /\ ~(d < e)
      BY <1>1, <2>1, JobsAreNumbers DEF ContainerInv, JobInv, Pending
    <3> QED
      BY <3>1
  <2> QED
    BY <2>1
<1>9. CASE s = "succeeded"
  <2>1. \A e \in Jobs : job'[e].state = "succeeded" => e <= d
    BY <1>1, <1>3, <1>8, JobsAreNumbers
  <2>2. NewestInv'
    BY <1>1, <1>3, <1>9, <2>1 DEF NewestInv
  <2>3. LatestSucceeded' = d
    <3> DEFINE after == {e \in Jobs : job'[e].state = "succeeded"}
    <3>1. d \in after /\ \A e \in after : e <= d
      BY <1>1, <1>3, <1>9, <2>1
    <3>2. ASSUME NEW e \in after, \A f \in after : f <= e
          PROVE  e = d
      <4>1. e \in Nat /\ d \in Nat /\ e <= d /\ d <= e
        BY <3>1, <3>2, JobsAreNumbers
      <4> QED
        BY <4>1
    <3>3. LatestSucceeded' =
            IF after = {} THEN NoJob ELSE CHOOSE e \in after : \A f \in after : f <= e
      BY DEF LatestSucceeded
    <3> HIDE DEF after
    <3> QED
      BY <3>1, <3>2, <3>3
  <2>4. served = d
    BY <1>1, <1>2, <1>9 DEF ContainerInv, OutcomeInv
  <2>5. PortalFollowsDeployer'
    BY <1>1, <2>3, <2>4 DEF PortalFollowsDeployer
  <2> QED
    BY <1>4, <1>5, <1>6, <1>7, <2>2, <2>5 DEF ContainerInv
<1>10. CASE s = "failed"
  <2>1. NewestInv'
    BY <1>1, <1>3, <1>10 DEF ContainerInv, NewestInv
  <2>2. served # d
    BY <1>1, <1>2, <1>10, JobsAreNumbers DEF ContainerInv, SubmittedInv
  <2>3. LatestSucceeded' = LatestSucceeded
    BY <1>1, <1>3, <1>10, LatestKept
  <2>4. PortalFollowsDeployer'
    BY <1>1, <1>3, <2>2, <2>3 DEF ContainerInv, TypeOK, PortalFollowsDeployer
  <2> QED
    BY <1>4, <1>5, <1>6, <1>7, <2>1, <2>4 DEF ContainerInv
<1> QED
  BY <1>2, <1>9, <1>10

-----------------------------------------------------------------------------
\* A step of the deployer is about one job that was submitted to it; a request that
\* is final stays as it is, and activation is of a running job.
LEMMA DeployerMoves ==
  ASSUME ContainerInv, TypeOK', UNCHANGED <<job, op, worker>>, wire' \subseteq wire,
         NEW d \in Jobs, req[d] # "none" \/ \E m \in wire : m.job = d,
         \A e \in Jobs \ {d} : req'[e] = req[e],
         \/ req'[d] = req[d] /\ served' = served
         \/ /\ req[d] \in {"none", "pending", "stopping"} /\ served' = served
            /\ req'[d] \in {"pending", "stopping", "withdrawn"}
         \/ req[d] = "pending" /\ req'[d] = "applied" /\ served' = d
  PROVE  ContainerInv'
<1>1. op[d].stage \notin Unsubmitted
  BY DEF ContainerInv, SubmittedInv
<1>2. JobInv' /\ NewestInv'
  BY DEF ContainerInv, JobInv, NewestInv, Pending
<1>3. ContainerWorkerInv'
  BY <1>1, InHand DEF ContainerInv, ContainerWorkerInv, At
<1>4. SubmittedInv'
  BY <1>1 DEF ContainerInv, TypeOK, SubmittedInv
<1>5. req[d] = "pending" => job[d].state = "running"
  BY <1>1 DEF ContainerInv, TypeOK, Job, JobInv, OutcomeInv, Unsubmitted
<1>6. ASSUME NEW e \in Jobs, e # d, req[d] = "pending", job[e].state = "running"
      PROVE  FALSE
  <2>1. d < e \/ e < d
    BY <1>6, JobsAreNumbers
  <2> QED
    BY <1>5, <1>6, <2>1 DEF ContainerInv, JobInv, Pending
<1>7. OutcomeInv'
  BY <1>1, <1>5, <1>6 DEF ContainerInv, OutcomeInv
<1>8. LatestSucceeded' = LatestSucceeded
  BY LatestKept
<1>9. PortalFollowsDeployer'
  BY <1>5, <1>8, JobsAreNumbers DEF ContainerInv, PortalFollowsDeployer
<1> QED
  BY <1>2, <1>3, <1>4, <1>7, <1>9 DEF ContainerInv

LEMMA HandleInv ==
  ASSUME ContainerInv, NEW d \in Jobs, Handle(d) \/ DeployerSettles(d)
  PROVE  ContainerInv'
<1> USE DEF Handle, HandleDeploy, HandleAdvance, HandleRecover, HandleWithdraw, DeployerSettles
<1>1. \A c \in Calls : [call |-> c, job |-> d].job = d
  OBVIOUS
<1>2. req[d] # "none" \/ \E m \in wire : m.job = d
  BY <1>1 DEF Calls
<1>3. UNCHANGED <<job, op, worker>> /\ wire' \subseteq wire
  BY DEF portalVars, workerVars
<1>4. TypeOK'
  BY <1>3 DEF ContainerInv, TypeOK, portalVars, workerVars
<1>5. /\ \A e \in Jobs \ {d} : req'[e] = req[e]
      /\ \/ req'[d] = req[d] /\ served' = served
         \/ /\ req[d] \in {"none", "pending", "stopping"} /\ served' = served
            /\ req'[d] \in {"pending", "stopping", "withdrawn"}
         \/ req[d] = "pending" /\ req'[d] = "applied" /\ served' = d
  BY DEF ContainerInv, TypeOK
<1> QED
  BY <1>2, <1>3, <1>4, <1>5, DeployerMoves

LEMMA LoseInv ==
  ASSUME ContainerInv, NEW m \in Message, Lose(m)
  PROVE  ContainerInv'
<1>1. CASE At("await") /\ worker' = Failed
  <2>1. worker.pc # "idle" /\ UNCHANGED <<fence, candidates, portalVars, req, latest, served, op>>
    BY <1>1 DEF Lose, At
  <2>2. TypeOK' /\ ContainerWorkerInv'
    BY <1>1, <2>1, RestsInv, WorkerTypes DEF Lose, ContainerInv, TypeOK
  <2>3. worker.job \in Jobs /\ job[worker.job].state = "running" /\ UNCHANGED job
    BY <2>1, InHand DEF portalVars
  <2>4. /\ op[worker.job].stage \notin Unsubmitted
        /\ op[worker.job].stage = "withdrawn" => req[worker.job] = "withdrawn"
        /\ wire' \subseteq wire
    BY <1>1, <2>3 DEF ContainerInv, ContainerWorkerInv, SubmittedInv, Lose
  <2> QED
    BY <2>1, <2>2, <2>3, <2>4, WorkerMoves
<1>2. CASE UNCHANGED worker
  <2>1. m.job \in Jobs /\ m \in wire
    BY DEF Message, Lose
  <2>2. UNCHANGED <<job, op, worker, req, served>> /\ wire' \subseteq wire
    BY <1>2 DEF Lose, portalVars
  <2>3. TypeOK'
    BY <1>2, <2>2 DEF Lose, ContainerInv, TypeOK, portalVars
  <2> QED
    BY <2>1, <2>2, <2>3, DeployerMoves
<1> QED
  BY <1>1, <1>2 DEF Lose

LEMMA ContainerStep == ContainerInv /\ [Next]_vars => ContainerInv'
<1> SUFFICES ASSUME ContainerInv, [Next]_vars PROVE ContainerInv'
  OBVIOUS
<1>1. CASE UNCHANGED vars
  <2>1. TypeOK' /\ UNCHANGED <<job, op, worker, wire, req, served>>
    BY <1>1 DEF ContainerInv, TypeOK, vars, portalVars, workerVars, deployerVars
  <2> QED
    BY <2>1, FrameInv
<1> HIDE DEF ContainerInv
<1> QED
  BY <1>1, AsideInv, RequestInv, CancelInv, DispatchInv, ReconcileInv, SaveOperationInv,
     SaveFenceInv, RejectInv, SaveDispatchedInv, DeployInv, AnsweredInv, AdvanceInv,
     AdvanceAnsweredInv, InspectInv, CommitInv, HandleInv, LoseInv
  DEF Next, WorkerStep, Fault

LEMMA ContainerInitially == Init => ContainerInv
BY RestingWorks, JobsAreNumbers, ContainerAssumption
DEF Init, ContainerInv, TypeOK, JobInv, ContainerWorkerInv, SubmittedInv, OutcomeInv, NewestInv,
    PortalFollowsDeployer, LatestSucceeded, Job, Operation, Flag, At, Pending, Unsubmitted, NoJob, Jobs

\* The invariant holds of container deployments, wherever the worker stops and
\* whatever calls are lost or late.
THEOREM ContainerInvariance == Spec => []ContainerInv
BY ContainerInitially, ContainerStep, PTL DEF Spec

\* The variables keep their types (ContainerDeployment).
THEOREM ContainerTypeCorrect == Spec => []TypeOK
<1>1. ContainerInv => TypeOK
  BY DEF ContainerInv
<1> QED
  BY <1>1, ContainerInvariance, PTL

\* The app runs the job the portal calls active, or one that was activated and is
\* still running for the portal, for any number of deployments, however late the
\* deployer handles a call (InspectContainerRuntime, inspectTracked).
THEOREM RecordFollowsDeployer == Spec => []PortalFollowsDeployer
<1>1. ContainerInv => PortalFollowsDeployer
  BY DEF ContainerInv
<1> QED
  BY <1>1, ContainerInvariance, PTL

\* What was recorded as failed or cancelled is not served and never will be
\* (SubmitContainerRuntime, AdvanceContainerRuntime, CancelContainerDeployment).
THEOREM FailedStaysDown == Spec => []FailedNeverActivates
<1>1. ASSUME ContainerInv, NEW d \in Jobs, job[d].state \in {"failed", "cancelled"}
      PROVE  /\ served # d
             /\ req[d] \in {"none", "withdrawn"}
             /\ req[d] = "none" => [call |-> "deploy", job |-> d] \notin wire
  <2>1. req[d] = "withdrawn" \/ op[d].stage \in Unsubmitted
    BY <1>1 DEF ContainerInv, JobInv, OutcomeInv, Unsubmitted
  <2>2. req[d] = "withdrawn" \/ (req[d] = "none" /\ \A m \in wire : m.job # d)
    BY <1>1, <2>1 DEF ContainerInv, SubmittedInv
  <2>3. [call |-> "deploy", job |-> d].job = d
    OBVIOUS
  <2> QED
    BY <1>1, <2>2, <2>3, JobsAreNumbers DEF ContainerInv, SubmittedInv
<1>2. ContainerInv => FailedNeverActivates
  BY <1>1 DEF FailedNeverActivates
<1> QED
  BY <1>2, ContainerInvariance, PTL
=============================================================================
