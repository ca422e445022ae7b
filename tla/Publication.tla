---------------------------- MODULE Publication ----------------------------
(***************************************************************************)
(* Publishing a static project: the portal's publication jobs and uploads  *)
(* (internal/portal/publications.go, uploads.go, members.go), the workers  *)
(* that carry a job to the runtime (internal/publisher), the management    *)
(* request between them (internal/staticpublish) and the runtime's release *)
(* store (StaticSite).                                                     *)
(*                                                                         *)
(* The module is about one project: jobs, revisions, uploads and the       *)
(* runtime are per project.  Each method of the portal's Store is one      *)
(* SQLite transaction on a single connection, hence one action.  A method  *)
(* that returns an error or an existing row changes nothing and is not a   *)
(* step.  Times are kept as the comparison made with them: a lease is live *)
(* until LeaseExpires.                                                     *)
(*                                                                         *)
(* A worker's request to the runtime stays in flight until the runtime     *)
(* handles it, however long ago the worker gave up on it.                  *)
(***************************************************************************)
EXTENDS StaticSite

CONSTANTS
  Jobs,         \* publication_jobs.id
  Uploads,      \* uploads.id
  Keys,         \* request keys (those of the GitHub pipeline excluded)
  Users,        \* members of the project's workspace
  Workers,      \* publication workers assigned to the project
  None,         \* no job, no actor, no key
  SHA256,       \* uploads.sha256: the release an upload's bytes make
  Leases,       \* lease tokens
  UploadLimit   \* WorkspaceUploadCount

ASSUME PublicationAssumption ==
  /\ SHA256 \in [Uploads -> Releases]
  /\ UploadLimit \in Nat
  /\ UploadLimit <= MaxReleases
  /\ None \notin Jobs \cup Uploads \cup Keys \cup Users \cup Leases

VARIABLES
  jobs,      \* publication_jobs
  live,      \* publications: the project's live job
  uploads,   \* the uploads the project has
  role,      \* memberships of the workspace
  hosting,   \* requireProjectHostingAccess: the workspace is entitled
  deleting,  \* projects.deletion_requested_at # 0
  worker,    \* each worker's claim and where it is with it
  requests,  \* publish requests in flight to the runtime
  resumed    \* the jobs an owner resumed (history)

portalVars == <<jobs, live, uploads, role, hosting, deleting>>
vars == <<siteVars, portalVars, worker, requests, resumed>>

\* "viewer" is also a removed member: neither may write, and both may be given
\* a role again.
Roles == {"owner", "developer", "viewer"}

SomeJob == [state    : {"queued", "running", "succeeded", "failed"},
            upload   : Uploads,
            key      : Keys,
            actor    : Users,
            revision : Revisions,
            lease    : Leases \cup {None},
            until    : {"past", "future"}]   \* lease_until, seen from now

NoJob == [state |-> "none", upload |-> None, key |-> None, actor |-> None,
          revision |-> 0, lease |-> None, until |-> "past"]

Claim  == [job : Jobs, lease : Leases]
Idle   == [pc |-> "idle", claim |-> None]
Worker == {Idle} \cup [pc : {"claimed", "sent", "acked"}, claim : Claim]

TypeOK ==
  /\ SiteTypeOK
  /\ jobs \in [Jobs -> SomeJob \cup {NoJob}]
  /\ live \in Jobs \cup {None}
  /\ uploads \subseteq Uploads
  /\ role \in [Users -> Roles]
  /\ hosting \in BOOLEAN
  /\ deleting \in BOOLEAN
  /\ worker \in [Workers -> Worker]
  /\ requests \subseteq Claim
  /\ resumed \subseteq Jobs

Init ==
  /\ SiteInit
  /\ jobs = [j \in Jobs |-> NoJob]
  /\ live = None
  /\ uploads = {}
  /\ role \in {r \in [Users -> Roles] : \E u \in Users : r[u] = "owner"}
  /\ hosting \in BOOLEAN
  /\ deleting = FALSE
  /\ worker = [w \in Workers |-> Idle]
  /\ requests = {}
  /\ resumed = {}

-----------------------------------------------------------------------------
Exists(j)  == jobs[j].state # "none"
Pending(j) == jobs[j].state \in {"queued", "running"}

CanWrite(u) == role[u] \in {"owner", "developer"}

\* publicationActor: the account the job runs for may still write.
ActorValid(j) == CanWrite(jobs[j].actor)

Release(j) == SHA256[jobs[j].upload]

-----------------------------------------------------------------------------
(* The portal, on behalf of its users.                                     *)

SaveUpload(u, up) ==
  /\ CanWrite(u) /\ ~deleting /\ hosting
  /\ up \notin uploads
  /\ Cardinality(uploads) < UploadLimit
  /\ uploads' = uploads \cup {up}
  /\ UNCHANGED <<siteVars, jobs, live, role, hosting, deleting, worker, requests, resumed>>

\* An upload some job names is retained.
DeleteUpload(u, up) ==
  /\ CanWrite(u) /\ ~deleting
  /\ up \in uploads
  /\ \A j \in Jobs : jobs[j].upload # up
  /\ uploads' = uploads \ {up}
  /\ UNCHANGED <<siteVars, jobs, live, role, hosting, deleting, worker, requests, resumed>>

\* One above the largest revision of the project's jobs.
IsNextRevision(r) ==
  /\ \A j \in Jobs : Exists(j) => jobs[j].revision < r
  /\ r = 1 \/ \E j \in Jobs : Exists(j) /\ jobs[j].revision + 1 = r

RequestPublication(u, up, k, j) ==
  /\ CanWrite(u) /\ ~deleting
  /\ \A i \in Jobs : jobs[i].key # k
  /\ hosting
  /\ up \in uploads
  /\ \A i \in Jobs : ~Pending(i)
  /\ ~Exists(j)
  /\ \E r \in 1..MaxRevision :
       /\ IsNextRevision(r)
       /\ jobs' = [jobs EXCEPT ![j] =
            [state |-> "queued", upload |-> up, key |-> k, actor |-> u,
             revision |-> r, lease |-> None, until |-> "past"]]
  /\ UNCHANGED <<siteVars, live, uploads, role, hosting, deleting, worker, requests, resumed>>

\* An owner adopts a job whose lease has run out; it is queued again.
ResumePublication(u, j) ==
  /\ role[u] = "owner" /\ ~deleting
  /\ jobs[j].state = "running" /\ jobs[j].until = "past"
  /\ jobs' = [jobs EXCEPT ![j] =
       [@ EXCEPT !.actor = u, !.state = "queued", !.lease = None, !.until = "past"]]
  /\ resumed' = resumed \cup {j}
  /\ UNCHANGED <<siteVars, live, uploads, role, hosting, deleting, worker, requests>>

\* An owner changes or removes a member; the last owner stays one.
ChangeMember(a, u, r) ==
  /\ role[a] = "owner"
  /\ role[u] # r
  /\ role[u] = "owner" => \E o \in Users \ {u} : role[o] = "owner"
  /\ role' = [role EXCEPT ![u] = r]
  /\ UNCHANGED <<siteVars, jobs, live, uploads, hosting, deleting, worker, requests, resumed>>

DeleteProject(u) ==
  /\ role[u] = "owner" /\ ~deleting
  /\ \A j \in Jobs : ~Pending(j)
  /\ deleting' = TRUE
  /\ UNCHANGED <<siteVars, jobs, live, uploads, role, hosting, worker, requests, resumed>>

\* The subscription lapses or is renewed, or an operator changes the policy.
HostingChanges ==
  /\ hosting' = ~hosting
  /\ UNCHANGED <<siteVars, jobs, live, uploads, role, deleting, worker, requests, resumed>>

-----------------------------------------------------------------------------
(* The portal, on behalf of the workers.                                   *)

\* Mutant: a job is claimed once.
ClaimableOnce(j) == jobs[j].state = "queued"

Claimable(j) == \/ jobs[j].state = "queued"
                \/ jobs[j].state = "running" /\ jobs[j].until = "past"

\* randomToken: a lease that no job, worker or request has.
IsFresh(l) == /\ \A j \in Jobs : jobs[j].lease # l
              /\ \A w \in Workers : worker[w].claim # None => worker[w].claim.lease # l
              /\ \A q \in requests : q.lease # l

ClaimPublication(w, j, l) ==
  /\ worker[w].pc = "idle"
  /\ Claimable(j)
  /\ ActorValid(j)
  /\ hosting
  /\ jobs[j].upload \in uploads
  /\ IsFresh(l)
  /\ jobs' = [jobs EXCEPT ![j] =
       [@ EXCEPT !.state = "running", !.lease = l, !.until = "future"]]
  /\ worker' = [worker EXCEPT ![w] =
                  [pc |-> "claimed", claim |-> [job |-> j, lease |-> l]]]
  /\ UNCHANGED <<siteVars, live, uploads, role, hosting, deleting, requests, resumed>>

\* Mutant: a running job is failed too.
ClaimRefusedRunning(w, j) ==
  /\ worker[w].pc = "idle"
  /\ Claimable(j)
  /\ ~ActorValid(j)
  /\ jobs' = [jobs EXCEPT ![j] =
       [@ EXCEPT !.state = "failed", !.lease = None, !.until = "past"]]
  /\ UNCHANGED <<siteVars, live, uploads, role, hosting, deleting, worker, requests, resumed>>

\* A queued job whose actor lost the permission is failed.  A running one is
\* left as it is.
ClaimRefused(w, j) ==
  /\ worker[w].pc = "idle"
  /\ Claimable(j)
  /\ ~ActorValid(j)
  /\ jobs[j].state = "queued"
  /\ jobs' = [jobs EXCEPT ![j] =
       [@ EXCEPT !.state = "failed", !.lease = None, !.until = "past"]]
  /\ UNCHANGED <<siteVars, live, uploads, role, hosting, deleting, worker, requests, resumed>>

HoldsLease(c) == /\ jobs[c.job].state = "running"
                 /\ jobs[c.job].lease = c.lease
                 /\ jobs[c.job].until = "future"

\* The lease is checked before the job is settled as succeeded.
FinishPublication(w) ==
  LET c == worker[w].claim IN
  /\ worker[w].pc = "acked"
  /\ HoldsLease(c)
  /\ jobs[c.job].upload \in uploads
  /\ ActorValid(c.job)
  /\ jobs' = [jobs EXCEPT ![c.job] =
       [@ EXCEPT !.state = "succeeded", !.lease = None, !.until = "past"]]
  /\ live' = c.job
  /\ worker' = [worker EXCEPT ![w] = Idle]
  /\ UNCHANGED <<siteVars, uploads, role, hosting, deleting, requests, resumed>>

-----------------------------------------------------------------------------
(* The worker and the runtime.                                             *)

Send(w) ==
  /\ worker[w].pc = "claimed"
  /\ worker' = [worker EXCEPT ![w].pc = "sent"]
  /\ requests' = requests \cup {worker[w].claim}
  /\ UNCHANGED <<siteVars, portalVars, resumed>>

\* Once must return with an error: the runtime has refused or failed the
\* request, the portal does not accept the acknowledgement, or the lease, which
\* outlasts the worker's own deadline, is gone.
HasFailed(w) ==
  LET c == worker[w].claim IN
  \/ worker[w].pc = "sent" /\ c \notin requests
  \/ worker[w].pc = "acked" /\ ~ActorValid(c.job)
  \/ worker[w].pc # "idle" /\ ~HoldsLease(c)

\* The job is left as it is.
GiveUp(w) ==
  /\ HasFailed(w)
  /\ worker' = [worker EXCEPT ![w] = Idle]
  /\ UNCHANGED <<siteVars, portalVars, requests, resumed>>

\* The worker dies, loses the answer or times out although nothing forces it to.
WorkerFails(w) ==
  /\ worker[w].pc # "idle" /\ ~HasFailed(w)
  /\ worker' = [worker EXCEPT ![w] = Idle]
  /\ UNCHANGED <<siteVars, portalVars, requests, resumed>>

AtWork(j) == \E w \in Workers : worker[w].claim = [job |-> j, lease |-> jobs[j].lease]

\* A minute has passed since the claim.
Expire(j) ==
  /\ jobs[j].until = "future"
  /\ jobs' = [jobs EXCEPT ![j].until = "past"]
  /\ UNCHANGED <<siteVars, live, uploads, role, hosting, deleting, worker, requests, resumed>>

LeaseExpires(j) == ~AtWork(j) /\ Expire(j)

\* A worker still at work on the claim, whose deadline is 45 seconds, has been
\* suspended.
LeaseOutlived(j) == AtWork(j) /\ Expire(j)

\* The runtime's answer reaches the worker that waits for it, if one does.
Acknowledge(q) ==
  worker' = [w \in Workers |-> IF worker[w] = [pc |-> "sent", claim |-> q]
                               THEN [worker[w] EXCEPT !.pc = "acked"]
                               ELSE worker[w]]

\* The runtime handles a request and acknowledges it ...
Publish(q) ==
  /\ q \in requests
  /\ \/ Activate(jobs[q.job].revision, Release(q.job))
     \/ ReplaySync(jobs[q.job].revision, Release(q.job))
  /\ requests' = requests \ {q}
  /\ Acknowledge(q)
  /\ UNCHANGED <<portalVars, resumed>>

\* ... or refuses it, as stale or for want of room ...
PublishRefused(q) ==
  /\ q \in requests
  /\ ~IsReplay(jobs[q.job].revision, Release(q.job))
  /\ Stale(jobs[q.job].revision) \/ ~HasRoom(Release(q.job))
  /\ requests' = requests \ {q}
  /\ UNCHANGED <<siteVars, portalVars, worker, resumed>>

\* ... or fails part-way and cannot acknowledge it.
PublishFails(q) ==
  /\ q \in requests
  /\ \/ StoreOnly(jobs[q.job].revision, Release(q.job))
     \/ ActivateUnsynced(jobs[q.job].revision, Release(q.job))
     \/ UNCHANGED siteVars   \* lost, or failed before anything was renamed
  /\ requests' = requests \ {q}
  /\ UNCHANGED <<portalVars, worker, resumed>>

RuntimeRestarts ==
  /\ Restart \/ PowerLoss
  /\ UNCHANGED <<portalVars, worker, requests, resumed>>

-----------------------------------------------------------------------------
UserStep == \E u \in Users :
  \/ \E up \in Uploads : SaveUpload(u, up) \/ DeleteUpload(u, up)
  \/ \E up \in Uploads, k \in Keys, j \in Jobs : RequestPublication(u, up, k, j)
  \/ \E j \in Jobs : ResumePublication(u, j)
  \/ \E v \in Users, r \in Roles : ChangeMember(u, v, r)
  \/ DeleteProject(u)

WorkerStep(w) ==
  \/ \E j \in Jobs : ClaimRefused(w, j) \/ \E l \in Leases : ClaimPublication(w, j, l)
  \/ FinishPublication(w) \/ Send(w) \/ GiveUp(w)

RuntimeStep == \E q \in requests : Publish(q) \/ PublishRefused(q)

Fault ==
  \/ \E w \in Workers : WorkerFails(w)
  \/ \E j \in Jobs : LeaseOutlived(j)
  \/ \E q \in requests : PublishFails(q)
  \/ RuntimeRestarts

Next ==
  \/ UserStep \/ HostingChanges
  \/ \E w \in Workers : WorkerStep(w)
  \/ \E j \in Jobs : LeaseExpires(j)
  \/ RuntimeStep
  \/ Fault

Spec == Init /\ [][Next]_vars

\* Workers poll, the runtime handles what it receives, clocks advance.
Fairness ==
  /\ \A w \in Workers : WF_vars(WorkerStep(w))
  /\ WF_vars(RuntimeStep)
  /\ \A j \in Jobs : WF_vars(LeaseExpires(j))

LiveSpec == Spec /\ Fairness

-----------------------------------------------------------------------------
(* Properties.                                                             *)

\* What the portal reports as live survives a power loss of the runtime: the
\* revision of the live job has reached the disk before the job is recorded
\* as succeeded (PublishRevision's directory sync, also on a replay).
LiveIsDurable ==
  live # None =>
    \A d \in survivors : d.active.rev >= jobs[live].revision

\* Open can load whatever pointer a crash leaves: the ZIP reaches the disk
\* before the pointer to it (publish stores, syncs, then activates).
PointerIsLoadable ==
  \A d \in survivors : d.active.rel \in d.zips \cup {NoRelease}

\* A revision is one release everywhere: what the runtime has on disk or
\* serves under a job's revision is the archive of that job's upload.
RevisionNamesOneRelease ==
  \A j \in Jobs : Exists(j) =>
    \A p \in {current} \cup {d.active : d \in survivors} :
      p.rev = jobs[j].revision => p.rel = Release(j)

\* Whatever a power loss leaves on the runtime's disk, the site comes back from
\* it: it loads, it is at least as new as what the portal reports as live, and
\* it is the archive of the job that has its revision (publish, Open).
SiteSurvivesPowerLoss == LiveIsDurable /\ PointerIsLoadable /\ RevisionNamesOneRelease

\* What the runtime shows when the portal's live job is published and no other.
LivePointer ==
  IF live = None THEN NoPointer ELSE [rev |-> jobs[live].revision, rel |-> Release(live)]

\* With no publication pending, and none failed that was once resumed, the portal
\* and the runtime agree: what it serves, what its disk shows and what a power
\* loss may leave there is the release of the live job, and what is still in
\* flight is refused as stale or repeats it (ClaimPublication, FinishPublication,
\* Site.publish).  A job that failed after it was resumed is the exception that
\* FailedIsNotApplied is about.
SettledAgreement ==
  (/\ \A j \in Jobs : ~Pending(j)
   /\ \A j \in resumed : jobs[j].state # "failed") =>
    /\ \A p \in {current, dir.active} \cup {d.active : d \in survivors} : p = LivePointer
    /\ \A q \in requests : jobs[q.job].revision <= current.rev

\* The runtime has room for every publication the portal can ask of it: what
\* it stores are releases of retained uploads, of which there are at most
\* WorkspaceUploadCount, and staticsite.MaxReleases is no smaller.
RuntimeHasRoom ==
  \A j \in Jobs : Pending(j) => HasRoom(Release(j))

\* A job declared failed has not changed, and will not change, the runtime:
\* the reason ClaimPublication gives for keeping a running job pending.
FailedIsNotApplied ==
  \A j \in Jobs : jobs[j].state = "failed" =>
    /\ \A d \in survivors : d.active.rev # jobs[j].revision
    /\ \A q \in requests : q.job # j

\* ... which holds of every job no owner has resumed.
FailedUnresumedIsNotApplied ==
  \A j \in Jobs \ resumed : jobs[j].state = "failed" =>
    /\ \A d \in survivors : d.active.rev # jobs[j].revision
    /\ \A q \in requests : q.job # j

\* A step never makes the runtime serve an older revision than the live
\* job's, and the live job only ever moves to a newer revision.
LiveMovesForward ==
  [][/\ live' # live => live = None \/ jobs'[live'].revision > jobs[live].revision
     /\ live # None => current'.rev >= jobs[live].revision]_vars

\* A publication does not stay pending for ever, if from some time on nothing
\* fails, the workspace keeps its hosting and the job's account its permission.
PublicationSettles ==
  (/\ <>[][Fault => RuntimeStep \/ \E w \in Workers : WorkerStep(w)]_vars
   /\ <>[](hosting /\ \A j \in Jobs : Pending(j) => ActorValid(j)))
  => \A j \in Jobs : Pending(j) ~> ~Pending(j)

=============================================================================
