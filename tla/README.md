# Formal models of the hosting portal

TLA+ models of the hosting portal in `src/`: customers upload static sites, build and
deploy Node applications, or deploy registry images; a portal with one SQLite database
records what they ask for, and workers carry it to runtimes on other machines. The
modules are translated from the Go source. TLC checks them on small instances, and TLAPS
proves their safety properties for every instance. `PROJECT.json` holds
the map from definitions to source lines, the runs, one mutant per property, the hazards
the properties are for, and the theorems.

    tlc -config MCPublication.cfg MCPublication      (any run of the table below)
    tlapm PublicationProofs.tla

## 1. The system

The portal (`internal/portal`) is one `Store` over SQLite with a single connection:
every method is one or two transactions, and transactions never overlap. What makes the
system hard is what happens between transactions: workers hold leases that run out,
calls to other machines are lost or arrive late, runtimes have files and databases of
their own, processes stop between any two writes.

| Component | State | Operations | Hard behaviour | What makes it correct | Module |
|---|---|---|---|---|---|
| Static publications (`publications.go`, `uploads.go`, `publisher`, `staticpublish`) | jobs, uploads, live job, leases, requests in flight | upload, request, resume, claim, send, finish | late and repeated requests, expired leases, permissions lost half-way | live is served and durable, never goes back; failed was not applied; jobs settle | Publication |
| Static release store (`staticsite`, `staticruntime`) | ZIPs, `active` pointer, served release | publish a revision, recover | crash or power loss between rename and fsync | the pointer always loads; an acknowledged revision survives | StaticSite |
| Accounts and workspace membership (`store.go`, `members.go`, `invitations.go`) | accounts, password hashes, sessions, roles, links | register, verify, log in, reset, invite, accept, change member | two-transaction login and reset, links in two browsers | sessions belong to the current password; an owner remains; invitations need an owner | Accounts |
| Client access (`project_clients.go`, `client_invitations.go`) | clients of a website, invitations | invite, accept, grant, remove | acceptance at the limit, links that outlive a removal | limits; no link for what was granted or removed | Accounts |
| Mail outbox (`mail.go`, `smtp.go`) | messages, attempts, leases | lease, check, send, acknowledge | workers die after sending | a usable link has a message; settled once; every message settles | AccountMail |
| Node builds (`node_build*.go`) | builds, leases, dispatch intent, releases | request, claim, bind, dispatch, inspect, retain, fail | submission lost, two workers concluding | one execution at a time; conclusions follow evidence and are final | NodeBuild |
| Docker build controller (`containerbuild`) | records, containers, outputs | submit, inspect, export, clean up, shut down | stop between Docker and record | retired means stopped; output is not lost | ContainerBuild |
| Node deployments (`node_deploy*.go`, `node_releases.go`) | jobs, active deployment, archives | request, claim, dispatch, reconcile, cancel, delete | stale reports, late submissions | portal follows runtime, failures are final, needed archives stay | NodeDeployment |
| Node runtime, launcher, router (`noderuntime`, `nodelaunch`, `noderouter`) | inbox, slot reservations, units, route, tombstones, connections | accept, reserve, install, start, switch, drain, retire, recover | three stores with separate commits, systemd jobs nobody remembers | exclusive slots, drained requests, the contract below | NodeRuntime |
| Container deployments (`container_*.go`, `fleetdeploy/container_*.go`) | releases, settings, jobs, operation and fence files, deployer requests | save, request, dispatch, advance, withdraw, recover, settle | lost answers, deadlines as evidence | failed never activates, portal follows deployer | ContainerDeployment |
| Fleet deployer (`fleetdeploy/fleet.go`) | publication, operation and fence files per project | work passes for websites and Node projects | stop between an untracked command and its record | sent once, in order; failed was not sent | FleetRuntime |
| GitHub link (`github_link.go`, `github_connections.go`, `github_http.go`) | pending state, completion, browser flows in memory, connection | start, call back, select, save, disconnect | overlapping OAuth attempts, restarts | a late answer never connects | GitHubLink |
| GitHub pipeline (`github_*.go`, `githubdeploy`) | push receipts and events, imports, pipelines | receive, process, import, pin, advance, prune | pushes late, twice or swapped, lost leases, a branch that moves or goes | the newest push wins, imports stay pinned, all work ends | GitHubPipeline |
| Hosting billing (`billing_*.go`, `hosting_*.go`, `hostingbilling`) | customer and checkout requests, event inbox, snapshots with generations, tasks | ask, create, bind, accept an event, reconcile, refresh | lost answers, events duplicated, reordered or lost | billed once; access follows the provider | HostingBilling |
| Merchant shop (`merchant_*.go`, `merchantbilling`) | account, order, refund, event inbox, generations | request, dispatch, bind, reconcile, maintain, fulfil | lost answers, reads that finish out of order | nothing is charged or refunded twice; outcomes are recorded | MerchantOrders |
| Domain purchases (`domain_*.go`, `namesilo`, `domainbilling`) | orders, purchases, attempt and intent files | order, start, pay, register, connect, cancel | stop between a call and its record | paid and registered once; payments are answered | DomainPurchase |
| Custom domains, enrolment and deletion (`custom_domains.go`, `project_deletions.go`, `deploy/fleet/*.py`) | domain rows, routes, fleet assignments, lock files | verify, remove, provision, reconcile, delete, clean up | three timer programs and the portal at the same time, failures half-way | nothing outlives its record; removals complete | ProjectDeletion |
| Settings and site pages, HTTP front end, operator console, commands, archive validation | rows read or replaced singly; no state of their own | - | none beyond the above | - | not modelled |

Interactions: the portal's Node workers see a runtime only through submit and read, and
the build workers see an executor only through submit, read and fetch. Those interfaces
are the abstract specifications `RuntimeContract` and `ExecutionContract`; the portal's
modules are composed with the contract, and the runtimes are shown to implement it. The
static runtime is small enough to be composed with the portal itself: Publication
extends StaticSite. AccountMail extends Accounts: a link and its message are
written in one transaction. GitHubPipeline feeds the queues of Publication, NodeBuild and
NodeDeployment and keeps of them what it can see: pending, started, ended. ProjectDeletion
composes the portal's rows with the three programs of `deploy/fleet` that act on them. The
payment provider, the registrar, GitHub and the deployer are external: each is a set of
objects that calls create and that change on their own, and calls, answers and webhooks
are lost, late, repeated or swapped.

## 2. Modelling conventions

- One Store method is one action, since SQLite runs it as one transaction. A method that
  works outside a transaction for a while (login, reset, saving a container release,
  every worker pass) is split there, and nowhere else.
- A call that returns an error and changes nothing is not a step.
- A clock is the comparison made with it: a lease is live until it expires, an operation
  is late once its deadline has passed. Expiry may happen at any time, which covers
  renewals as well.
- Names, payloads and archives are model values; an archive is its SHA-256, which in
  Publication may be shared by several uploads.
- Records use "yes"/"no" rather than Booleans where TLAPS has to reason about them.
- TypeOK (SiteTypeOK, MailTypeOK, PipelineTypeOK, ...) states the types of a module's variables.
  It is proved for every module but GitHubLink, whose invariant has it as a part; the runs leave
  it out in favour of what can go wrong.
- Rows with many columns are built by an operator (Row, Event, Import, Task), and a step that
  changes several columns names all of them, so that a proof can speak of each.
- The definitions marked "Mutant" state a plausible mistake in the definition that
  follows; no specification uses them.

### Modules and code

**StaticSite.** `dir` is the directory as the file system shows it, `survivors` the
directories a power loss may leave, `current` what the process serves. A publication
(`PublishRevision`) is one action, serialised by the site's mutex, whose outcome is
chosen among the places where its I/O may fail: `Activate` (all done), `StoreOnly` (the
ZIP, not the pointer), `ActivateUnsynced` (the pointer renamed, its fsync failed),
`ReplaySync` (an acknowledged repeat, after a sync). `Restart` and `PowerLoss` reload.
The model assumes of the file system that an fsynced file keeps its content and that
renames in one directory survive in their order.

**Publication.** `jobs`, `live`, `uploads`, `role`, `hosting`, `deleting` are the
portal's tables, `worker` the local variables of publisher workers, `requests` the
management requests in flight: a request stays until the runtime handles it, however
long ago its sender gave up. `Next` is a user's operation, a worker's step, the runtime
handling a request, or a fault.

**RuntimeContract, NodeDeployment, NodeRuntime.** The contract: an accepted operation
may fence the route, switch it to itself or be refused, and once settled does nothing
more. NodeDeployment is the portal over it: claims once, dispatches once and
reconciles with any number of workers. NodeRuntime is the service: inbox, reservation
pool, start gates, units, route, tombstones and connections, with a runner that may stop
between any two commits. It implements the contract by
`INSTANCE RuntimeContract WITH stage <- Promised`.

**ExecutionContract, NodeBuild, ContainerBuild.** The same split for builds: an
execution is accepted once, runs once, and a retired one neither changes nor starts
again. ContainerBuild keeps the contract's state as the promise it has recorded. `Cleanup` may leave
the stopped container behind: the code drops the error of `docker rm` and records the execution as
cleaned all the same. An error of `umount` or of removing a file is `CleanupFails`, tried again.

**Accounts, AccountMail.** `link` numbers every mailed token in the order of issue;
`call` is what a browser's login or reset read before its transaction. AccountMail adds
the outbox, in which a message is written by the same step that issues its link.

**ContainerDeployment.** One fleet worker holds an exclusive lock. Its pass is followed
call by call; calls to the deployer stay under way until they are handled or lost. The
deployer is external and modelled from its use: a request is pending, stopping, applied
or withdrawn, and `served`/`latest` are the deployment that runs and the newest one. The
actor's role, the plan and the app's health are choices at each check; `late` is the
deadline of the running job; settings are one revision. Untracked deployments,
request-key replay, the limits of 1000, 50 and 20 rows and the reclaiming of old workloads
are left out.

**FleetRuntime.** The same worker for websites and Node projects, which the deployer does
not track: `saved`, `record` and `nodeFence` are its files, `pass` the place in its pass,
`sending` the DeployApp calls that have left it. A stop at any place leaves the files and
the calls; `sent` is a history variable for what was ever sent.

**GitHubPipeline, GitHubLink.** `branch` is the sequence of pushes, the last one being the
head. `event`, `import`, `pipe`, `build` and `pub` follow one push through the portal's
tables; import and job 0 are those a member asks for by hand. A process reads the branch
head after its claim and before its completion, so each is an action. GitHubLink numbers
the OAuth attempts: its request for an attempt is outside the lock of the flows while it
waits for GitHub, and `entitled` is a history variable for the attempt that nothing has
overtaken.

**HostingBilling.** `request` holds the customer's and the checkouts' rows, `made`, `session`
and `history` the provider's objects and changes, `inbox` the webhook events, `observed` the
version that a stored snapshot shows. Reads of the provider are split in start, read and store,
with the generation of the row checked at the store, as in the code. `age` has the three
values the code and the provider tell apart: retried, no longer retried (23 hours), and
forgotten by the provider (a day).

**MerchantOrders.** An account, an order and a refund go through the same life: requested,
submitted, bound, observed. Provider states are numbered so that they only grow; the guards
that keep a row from going back are the code's (generation, final states, paid stays paid).

**DomainPurchase.** Orders of several workspaces, for the same name or for others. `step` is where
`process` is, under its mutex; `attempt` and `dnsIntent` are the files that stand before a call that
cannot be repeated. After a stop the purchase is taken up from its state in the database, and the
files decide what may still be called. `pass` is what the ticker has read and has still to process:
the oldest unfinished purchases (`older` is the order of `created_at`), `ListLimit` of them, 100 in
the code. A purchase whose payment page is there and that nobody pays stays in that list as long as
its website exists. A wake-up by a page may come at any time and is never certain, since
`Sync` drops it when the channel is full.

**ProjectDeletion.** `held` is what a website has outside the database, `route` the objects
of its custom hostname in the cluster; `provisioner`, `reconciler` and `deleter` are the passes
of the three programs, with what each read at its start and has not finished. The lock files
are part of the guards. A pass may fail at every step, and the next one starts from the rows.
The provisioner restarts the fleet worker (`RestartWorker`) before it writes down what the worker
was started with (`RecordRestart`); a stop in between makes the next pass restart it once more.

## 3. Runs

| Run | Instance | States | Shows |
|---|---|---|---|
| `publication` | 2 jobs, uploads, members and keys, 1 worker, 2 leases | 577,000 | Two publications with roles that change, late and repeated requests, expired leases, resumption, crashes, power losses, deletion: the site survives, moves forward and agrees with the portal; failed was not applied |
| `publication_liveness` | 1 job, 2 workers, 2 members | 81,000 | A pending publication settles |
| `publication_failed` | as `publication` | violation | see section 6 |
| `node_runtime` | 3 operations, 2 slots, 1 client | 301,000 | Exclusive slots, drained requests, the contract, every operation settles |
| `deployments` | 2 deployments, releases and workers; 2 pushes of 2 commits, 2 changes by members; 3 OAuth attempts | 220,000 | Portal and runtime agree, failures are final, needed archives stay, accepted deployments settle; the site follows the branch, GitHub work ends, late links lose |
| `builds` | 2 builds, 2 workers, room for 1 release; 2 executions, 1 power loss | 86,000 | One execution at a time, builds settle; output survives stops, the contract, executions retire and what a failed one wrote is removed |
| `fleet` | container: 2 jobs, 2 releases, 2 calls under way; website or Node project: 3 revisions, 3 stops | 323,000 | Failed never activates, portal follows deployer, deployments settle; revisions are sent once and in order |
| `rejected_update` | 3 jobs, 1 release, 1 call | violation | see section 6 |
| `website_clients` | 3 people, 1 of them not registered, 3 links of any kind, limits of 1 | 854,000 | Invitations have an owner and a purpose, limits hold, an owner remains |
| `client_invitation_authority` | 3 people, 2 links | violation | see section 6 |
| `accounts` | 2 users, 2 browsers, 1 link, 2 mail workers, 2 attempts; 1 account, order and refund, 2 readers, 1 fault | 400,000 | Sessions and links, mail that settles; nothing created twice, observations advance, outcomes are recorded |
| `commerce` | 2 checkouts, 2 billing workers, 2 changes, 1 fault; 2 orders of the same name or of two, 1 fault, a ticker that lists 1 purchase; 2 websites, room for 1, 1 fault | 350,000 | Billed once, access follows the provider; a domain bought once, payments answered unless unpaid purchases fill the list; nothing outlives its record, removals complete |

Where a run names several components that share no state, `part` chooses one of them in the
initial state and the others stay where they are: the run is the union of their behaviours, and
the fairness of a component that was not chosen asks for nothing, since none of its steps is
enabled.

Why the bounds are enough for the cases named: the hazards are about an old thing meeting
a new one, so two jobs, builds or deployments are needed and, where a slot or a port is
reused, a third (NodeRuntime). The first and the third operation there deploy the same
archive, since installation is shared. Limits are set to one or two so that runs reach
them: with a list of one, one unpaid purchase is enough to fill it, and with two orders the second
either waits behind a paid one or starves behind an unpaid one. Two workers are enough for one to be late while the other acts; `publication`
has one worker whose old requests stay in flight, which is the same race. One client
connection is enough because draining looks at each connection alone. Attempts of mail and of
pushes are two so that both a retry and giving up happen. A pipeline is shown with one GitHub
process, whose lease may run out while it works and which may stop anywhere: the fence is then
tried by its own late completion. Two changes by members are enough to leave and come back, or to
reconnect and import by hand. Faults of the provider and of the timer programs are bounded
(by one to three) to keep the instances small: one fault is tried at every step, a sequence
of many is not. Events that never arrive, or arrive twice or swapped, are not counted as faults
and have no bound. Symmetry is used in `publication` and in
`client_invitation_authority`, which check no liveness.
Deadlock is checked in the runs of Publication, NodeRuntime and the builds. In the others the
system may rest: a link bound is used up while everyone is signed out or disabled, a purchase is
connected, a subscription was never asked for, and nothing need ever happen again.

### Fairness

Every `WF` is a loop or a clock of the code. Publisher and Node workers and the fleet
worker poll every five seconds; the Node runner and the watch of the Docker controller
every second; the mail loop every few seconds; lease and deadline expiry is the clock.
A Docker inspection gets `SF`, because the watch visits all records in each round and
only other calls keep it waiting. The three GitHub steps run every two seconds in one loop;
claims and the advance of a pipeline get `SF`, since the loop comes to each again while the
others keep it busy, and GitHub does not fail to answer for ever. The billing worker takes
its tasks by due time, so that the refresh of a subscription or charge gets `SF`. The merchant worker
goes through the objects in turn. The domain ticker reads its list when it is done with the one
before (`select` keeps neither the ticker nor the wake-ups waiting for ever), and processes what it
read; no purchase is promised a place in the list, and no wake-up is promised. The clean-up gets `SF`
because the other programs hold its locks only for a pass. Nothing assumes that a user acts, that an app becomes
healthy or that a message arrives; those are premises of the liveness properties:

| Property | Premise: from some time on |
|---|---|
| PublicationSettles | no fault other than one that looks like a regular step, hosting stays, the job's account keeps its permission |
| OperationsSettle | the runner is not interrupted, and content requests end (the server has no write timeout) |
| NodeDeployment's DeploymentsSettle | the release stays healthy and workers do not give up; the runtime accepted the submission |
| MailSettles | workers do not die and leases outlast a delivery; the mail server may refuse everything |
| BuildsSettle | workers do not give up, which they do each time when a reboot has taken the output, and there is room for a release; a lost submission is the operator's, as the code says |
| ExecutionsRetire | no stops or errors, the controller not left draining |
| ContainerDeployment's DeploymentsSettle | candidate operations enabled, no pass cut short |
| GitHubSettles | none; what a pipeline may wait for is part of the statement (Waiting) |
| AccessFollowsProvider | the bounds on changes and faults are used up |
| OutcomesAreRecorded | the object is bound, or an event mentioned it |
| PaymentsAreAnswered | none beyond the bound on faults; that older purchases which nobody pays fill the list is part of the statement (UnpaidBefore) |
| RemovalsComplete | none beyond the bound on faults |

A fault step that also is a regular step (a worker that gives up exactly where it would
have finished) is not excluded by a premise: it has the effect of progress.

## 4. Proofs

Every invariant and action property that a run checks is proved, and so are the two
refinements, for all values of the constants. What remains with TLC is liveness.

| Module | Theorem | Statement | Invariant behind it |
|---|---|---|---|
| PublicationProofs | TypeCorrect | `Spec => []TypeOK` | IInv |
| | LiveSurvives, SiteLoads, RevisionsAgree | LiveIsDurable, PointerIsLoadable, RevisionNamesOneRelease | IInv |
| | SiteSurvives | SiteSurvivesPowerLoss, the conjunction of these three | IInv |
| | FailedWasNotApplied | FailedUnresumedIsNotApplied | IInv |
| | LiveAdvances | LiveMovesForward | IInv |
| | RuntimeNeverFull | RuntimeHasRoom | IInv, RoomInv |
| | SettledAgrees | SettledAgreement | IInv, LiveInv |
| NodeRuntimeProofs | TypeCorrect | `Spec => []TypeOK` | RuntimeInv |
| | SlotsStayExclusive, RequestsStayDrained | SlotsAreExclusive, RequestsAreDrained | RuntimeInv |
| | RuntimeImplementsContract | ImplementsContract, that is `Spec => Contract!RuntimeSpec` | RuntimeInv |
| DeploymentProofs | TypeCorrect | `Spec => []TypeOK` | DeploymentInv |
| | RecordFollowsRuntime, RetainsNeeded | PortalFollowsRuntime, NeededIsRetained | DeploymentInv |
| | LateLinksLose | LateLinkLoses | LinkInv |
| | PipelineTypeCorrect | `PipelineSpec => []PipelineTypeOK` | PipelineInv |
| | NewestPushCounts, BranchIsShown | NewestIsNotSuperseded, SiteFollowsBranch | PipelineInv |
| BuildProofs | BuildTypeCorrect, ControlTypeCorrect | types of NodeBuild, of ContainerBuild | BuildInv, ControlInv |
| | ExecutesOneBuild | OneLiveExecution | BuildInv |
| | OutputIsKept | OutputSurvivesStops | ControlInv |
| | ControllerImplementsContract | ImplementsContract, that is `ControlSpec => Contract!ExecSpec` | ControlInv |
| FleetProofs | FleetTypeCorrect, ContainerTypeCorrect | types of FleetRuntime, of ContainerDeployment | FleetInv, ContainerInv |
| | SendsOnce | SentOnceInOrder | FleetInv |
| | RecordFollowsDeployer, FailedStaysDown | PortalFollowsDeployer, FailedNeverActivates | ContainerInv |
| AccountProofs | TypeCorrect, MailTypeCorrect | types of Accounts, of AccountMail | AccountInv, MailInv |
| | CredentialsStayCurrent, InvitationsStaySound, OwnerRemains | CredentialsAreCurrent, InvitationsAreSound, ActiveOwnerRemains | AccountInv |
| | UsableLinksAreMailed | UsableLinkIsMailed | MailInv |
| MerchantProofs | TypeCorrect | types | MerchantInv |
| | ActsOnce, RowsAdvance | MerchantActsOnce, ObservationsAdvance | MerchantInv |
| CommerceProofs | BillingTypeCorrect, DomainTypeCorrect, RemovalTypeCorrect | types | BillingInv, DomainInv, RemovalInv |
| | ChargedOnce, SignalsAreHeeded | BilledOnce, AccessHeedsSignals | BillingInv |
| | BoughtOnce | DomainBoughtOnce | DomainInv |
| | NothingIsLeftBehind | NothingOutlivesItsRecord | RemovalInv |

Assumptions: the named ASSUME of each module, nothing else. Most say that bounds are naturals and
that a null value is not one of the things it stands for. Those that say more are facts of the
code: a workspace retains no more uploads than the runtime stores releases (Publication, 20 in
both places), the launcher's pool has two slots at least (NodeRuntime, OpenPool insists), the
founder is a user and owner is a role that can be given (Accounts), mail is tried at least once
(AccountMail), a branch has a first push (GitHubPipeline). TLC evaluates them on each run.

The arguments have one shape. No property here is inductive: it talks of rows, and what a step
does to a row depends on what a worker, a file or a request under way still carries from an
earlier state. Each invariant therefore adds, part by part, what is true of those carriers for as
long as they exist, and the property falls out. `Init` implies it, every action preserves it
(one lemma or step per action, one leaf per part it may disturb), and PTL closes the argument.
Each invariant was a TLC invariant of a small instance before it was proved. Where the actions
differ in how but not in what they change, lemmas of the form *...Moves* say once what a kind of
change preserves (of the site and its jobs, the rows of a push, a link, a container job), and
actions are brought under them.

**Publication and StaticSite.** `IInv == TypeOK /\ DiskInv /\ ClaimsInv /\ RevisionsInv /\
PointersInv /\ ReachedInv /\ UnclaimedInv`. DiskInv: the visible directory is one of those a power
loss may leave, each of those can be loaded, memory is never ahead of the disk. ClaimsInv:
claims and requests in flight name a job that exists; a claim outlives its lease, not its
job. RevisionsInv: revisions are not shared and a pending job has the largest. PointersInv: every
pointer, on disk, in memory or after a power loss, is what some job asked for. ReachedInv: each is
at or above the live job's revision and that of any acknowledgement a worker holds.
UnclaimedInv: a job never resumed and queued or failed has no claim, request or pointer. RoomInv
adds that every ZIP a power loss can leave is the release of an upload still retained; LiveInv
that the live job is the newest that succeeded. SettledAgreement is about a project with no job
pending and no failed job that somebody had resumed: the case that `publication_failed`
shows (section 6) is its premise's one exception. It then says of the pointer in memory, of the one
on disk and of each that a power loss may leave that it is the live job's (LivePointer), and of the
requests still in flight that none has a larger revision, so that none can change it.

**NodeRuntime.** RunnerInv says what the runner has done of its operation at each step;
SlotInv that outstanding reservations have different slots and a unit that may run has one;
GateInv that the gate of a retiring operation is closed before its unit is masked; RouteInv that
the route is on its fence or behind it, and neither it nor a request is on something retired. The
refinement `stage <- Promised` maps most steps to a stutter: accepting, switching,
refusing and settling are the steps of the contract.

**NodeDeployment.** RouteInv is what the contract guarantees. SubmissionInv: one submission,
after its intent. QueueInv: deployments one after the other, each concluded from what was
settled. ReportInv, the heart: what a worker was told stays true while its deployment is the
last one fenced, and so while the deployment is running; a later conclusion is refused.

**NodeBuild and ContainerBuild.** SubmissionInv and QueueInv as above, with retirement as the
evidence that does not change. CallInv: the place of a call says what it has done; OutputInv:
there is no container before the record, and what is recorded as saved is there.

**GitHubPipeline.** ChainInv: an import exists because of an imported event, a pipeline
because of its import, a job because of its pipeline. PipesInv: one pipeline is active, only that
one has a job under way. PinInv: what was stored is what was pinned, and that is what was pushed.
DeployedInv: once the newest push was deployed, whatever is still deployed is of the same commit.
TaskInv is about what a process has in hand, which may be long out of date: its push does
not come back after retention has removed it, and the head it was told is the branch's if it asked
about the newest push, or asked after the newest was deployed.

**GitHubLink.** A stored state or receipt is that of the one attempt which may still connect.

**ContainerDeployment and FleetRuntime.** What the worker has saved is ahead of what it sends
(ContainerWorkerInv, WebsiteInv, NodeInv), what the deployer knows was sent (SubmittedInv), and an
outcome is recorded on evidence that stays (OutcomeInv).

**Accounts and AccountMail.** A session carries the hash its account has now, a link that
took effect is dead, a pending invitation has an owner and a purpose. With mail: a message is
settled for a reason that stays (MessageInv), and what a worker found out holds when it acts,
whoever has the lease by then (WorkerInv).

**MerchantOrders and HostingBilling.** A call on its way is the first one (CallInv, CreateInv).
Of the reads of an object the newest alone is not fenced, and nothing newer has been recorded
(FenceInv, ChargeInv): so recorded states only grow, and a processed signal leaves no
older observation, neither stored nor about to be (SubscriptionInv).

**DomainPurchase.** The attempt and the intent file are written before the call that cannot
be repeated (AttemptInv, IntentInv), a session is made again only under a key the provider
still knows (DomainSessionInv).

**ProjectDeletion.** The two lock files keep the programs apart (LockInv); ReconcileInv and
DeleteInv say what a pass has given back by the place where it is, so that the row goes last.

Model-checked only: liveness, that is PublicationSettles, OperationsSettle, both
DeploymentsSettle, GitHubSettles, BuildsSettle, ExecutionsRetire, MailSettles, OutcomesAreRecorded,
AccessFollowsProvider, PaymentsAreAnswered and RemovalsComplete: they rest on fairness
and ENABLED, which are outside the prover. The three statements of section 6 are false of
the code and stay counterexamples.

## 5. Not modelled

- The VM executor (`nodeexecutor`, `node-build-executor`, `node-build-local`), a second executor behind
  the interface that ExecutionContract describes; the Docker controller is the one that is modelled.
- `Rollback`, `Prune` and unrevisioned `Publish` of the static site, `RenewNodeDeploymentLease` and
  `ReconcileInstallation`: no caller outside tests.
- Archive, lock-file and manifest parsing, HTTP, cookies and templates, password hashing, signatures,
  the SMTP, registry, OAuth and registrar protocols: data processing or I/O, whose outcomes are
  choices of the models.
- Settings, plans, prices, products, buyer sessions, pages, history and the operator console: rows that
  are read or replaced singly.
- The counts at which tables refuse the next row (1000 inbox operations and deployments, 100 builds),
  far above any instance.
- The older static provisioner and the start-up of the commands; their polling loops are the fairness
  above.

## 6. Disagreements with the documentation

- `publication_failed`: `ClaimPublication` declares failed a queued job whose account lost its
  permission, but `ResumePublication` turns a job of unknown outcome into a queued one. When the
  owner who resumed it loses the role before the next claim, a job is failed that the
  runtime serves, which the comment above the check rules out.
  FailedUnresumedIsNotApplied, the statement for jobs that were never resumed, holds and is proved.
- `client_invitation_authority`: demoting an owner revokes his workspace invitations but
  not his client invitations. They are refused while he is no owner and work again if he
  becomes one, against "A queued invitation cannot outlive its owner's authority".
- `rejected_update`: after a successful and then a withdrawn container deployment, a
  third one that is rejected before submission is never settled: its settlement asks
  for the latest deployment to be healthy, and the latest one is the withdrawn one. It
  blocks further deployments and the project's deletion, against "Reconciliation can make
  that attempt retryable immediately".

Behaviour that the models show and that no line of the repository rules out:

- A pipeline whose branch was deleted before its job was submitted waits: ResolveBranch fails
  on each pass before AdvanceGitHubPipeline is reached, and later pipelines wait behind
  it. So does one whose queued Node job was fenced by a changed connection, until a member cancels
  that job. GitHubSettles lists these cases. `docs/launch/github-deployment.md` has explicit
  terminal states for branch deletion on its list of things still to do.
- A billing checkout that was not bound within 23 hours stays pending and keeps the workspace
  from asking for another one; a domain whose payment page expired keeps its name taken.
- It also keeps its place among the purchases that the domain ticker lists: a hundred of them and no later
  purchase is taken up except by a page that asks for it, paid or not. PaymentsAreAnswered names this
  case. `docs/domain-resale.md` says that the loop advances purchases "every 15 seconds,
  independently of the browser", with no mention of a limit.
- A stopped container whose `docker rm` failed stays: the execution is recorded as cleaned, and nothing
  removes the container later.
- A reboot unmounts the output of a build that succeeded, and nothing mounts it again. If its artifact
  was not exported by then, each later read fails, while the controller goes on reporting
  success: the portal neither retains nor fails the build, and the project's next builds wait behind it.
  BuildsSettle assumes that errors stop, so it says nothing of this case.
- Billing and merchant event inboxes are not pruned.

## 7. Plan

Done, in this order: StaticSite, Publication and its proofs; RuntimeContract, NodeRuntime,
NodeDeployment; Accounts, AccountMail; ExecutionContract, NodeBuild, ContainerBuild;
ContainerDeployment; FleetRuntime; GitHubPipeline, GitHubLink; HostingBilling; MerchantOrders;
DomainPurchase; ProjectDeletion.

Next models: two GitHub processes at once with a smaller branch, and the billing event of a
second subscription after the first was cancelled.

The number of runs stays small: a stronger question takes the place of a weaker one.

Proved: every safety property of the runs and both refinements (section 4). Next proofs: the
safety half of what the liveness properties rest on, stated as invariants of their own where it
says something (a queued job always has a worker step that may take it), once TLC has confirmed
that they can fail.
