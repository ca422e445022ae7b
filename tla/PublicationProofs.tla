------------------------- MODULE PublicationProofs -------------------------
(***************************************************************************)
(* Proofs about Publication, for every value of its constants.             *)
(***************************************************************************)
EXTENDS Publication, FiniteSetTheorems, TLAPS

-----------------------------------------------------------------------------
(* The inductive invariant.                                                *)

\* Every pointer a restart, a power loss or a reader can meet.
Pointers == {current} \cup {d.active : d \in survivors}

\* The pointer that publishing job j writes.
PointerOf(j) == [rev |-> jobs[j].revision, rel |-> Release(j)]

\* The disk is one of the directories a power loss may leave, each of them can
\* be loaded, and memory is never ahead of the disk.
DiskInv ==
  /\ dir \in survivors
  /\ PointerIsLoadable
  /\ current.rev <= dir.active.rev

\* A claim outlives its lease, but not its job.
ClaimsInv ==
  /\ \A q \in requests : Exists(q.job)
  /\ \A w \in Workers : worker[w].pc # "idle" => Exists(worker[w].claim.job)

\* Revisions start at one and are not shared; a pending job has the largest.
RevisionsInv ==
  /\ \A j \in Jobs : Exists(j) => jobs[j].revision >= 1
  /\ \A i, j \in Jobs :
       Exists(i) /\ Exists(j) /\ jobs[i].revision = jobs[j].revision => i = j
  /\ \A i, j \in Jobs : Exists(i) /\ Pending(j) => jobs[i].revision <= jobs[j].revision

\* The runtime only ever points to what some job asked for.
PointersInv ==
  \A p \in Pointers : p = NoPointer \/ \E j \in Jobs : Exists(j) /\ p = PointerOf(j)

\* The runtime has durably reached revision n and will not go below it.
Reached(n) == \A p \in Pointers : p.rev >= n

\* ... as it has for the live job, and for every job a worker holds an
\* acknowledgement of.
ReachedInv ==
  /\ live # None => jobs[live].state = "succeeded" /\ Reached(jobs[live].revision)
  /\ \A w \in Workers : worker[w].pc = "acked" => Reached(jobs[worker[w].claim.job].revision)

\* A job that was never resumed and is queued or failed was never claimed.
UnclaimedInv ==
  \A j \in Jobs \ resumed : jobs[j].state \in {"queued", "failed"} =>
    /\ \A q \in requests : q.job # j
    /\ \A w \in Workers : worker[w].pc # "idle" => worker[w].claim.job # j
    /\ \A p \in Pointers : p.rev # jobs[j].revision

IInv ==
  /\ TypeOK
  /\ DiskInv
  /\ ClaimsInv
  /\ RevisionsInv
  /\ PointersInv
  /\ ReachedInv
  /\ UnclaimedInv

-----------------------------------------------------------------------------
(* The runtime's release store.                                            *)

\* A step of the store: the one that handles a publication of rel as rev, or
\* a restart.
SitePublishes(rev, rel) ==
  \/ Activate(rev, rel) \/ ReplaySync(rev, rel)
  \/ StoreOnly(rev, rel) \/ ActivateUnsynced(rev, rel)

SiteRestarts == Restart \/ PowerLoss

LEMMA SitePublishesType ==
  ASSUME SiteTypeOK, NEW rev \in Revisions, NEW rel \in Releases, SitePublishes(rev, rel)
  PROVE  SiteTypeOK'
  <1> USE DEF SiteTypeOK, Directory, Pointer
  <1>1. Stored(rel) \in Directory /\ Activated(rev, rel) \in Directory
    BY DEF Stored, Activated
  <1>2. CASE Activate(rev, rel)
    BY <1>1, <1>2 DEF Activate
  <1>3. CASE ReplaySync(rev, rel)
    BY <1>3 DEF ReplaySync
  <1>4. CASE StoreOnly(rev, rel)
    BY <1>1, <1>4 DEF StoreOnly
  <1>5. CASE ActivateUnsynced(rev, rel)
    BY <1>1, <1>5 DEF ActivateUnsynced
  <1> QED
    BY <1>2, <1>3, <1>4, <1>5, SitePublishes(rev, rel) DEF SitePublishes

LEMMA SiteRestartsType ==
  ASSUME SiteTypeOK, SiteRestarts
  PROVE  SiteTypeOK'
  BY DEF SiteTypeOK, Directory, Pointer, SiteRestarts, Restart, PowerLoss

\* A publication leaves the disk loadable and not behind memory.
LEMMA SitePublishesDisk ==
  ASSUME SiteTypeOK, DiskInv, NEW rev \in Revisions, NEW rel \in Releases,
         SitePublishes(rev, rel)
  PROVE  DiskInv'
  <1> USE DEF SiteTypeOK, Directory, Pointer, DiskInv, PointerIsLoadable
  <1>1. CASE Activate(rev, rel)
    BY <1>1 DEF Activate, Activated, Revisions
  <1>2. CASE ReplaySync(rev, rel)
    BY <1>2 DEF ReplaySync
  <1>3. CASE StoreOnly(rev, rel)
    BY <1>3 DEF StoreOnly, Stored
  <1>4. CASE ActivateUnsynced(rev, rel)
    <2>1. current.rev <= rev
      BY <1>4 DEF ActivateUnsynced, Stale, Revisions
    <2> QED
      BY <1>4, <2>1 DEF ActivateUnsynced, Activated, Stored, Revisions
  <1> QED
    BY <1>1, <1>2, <1>3, <1>4 DEF SitePublishes

LEMMA SiteRestartsDisk ==
  ASSUME SiteTypeOK, DiskInv, SiteRestarts
  PROVE  DiskInv'
  BY DEF SiteTypeOK, Directory, Pointer, Revisions, DiskInv, PointerIsLoadable,
         SiteRestarts, Restart, PowerLoss

\* A publication adds at most its own pointer, and that only when its revision
\* is above the one in memory.
LEMMA SitePublishesPointers ==
  ASSUME SiteTypeOK, DiskInv, NEW rev \in Revisions, NEW rel \in Releases,
         SitePublishes(rev, rel)
  PROVE  \A p \in Pointers' :
           \/ p \in Pointers
           \/ p = [rev |-> rev, rel |-> rel] /\ (rev > current.rev \/ current.rev = 0)
  <1> USE DEF SiteTypeOK, Directory, Pointer, Pointers, DiskInv
  <1>1. CASE Activate(rev, rel)
    BY <1>1 DEF Activate, Activated, Stale, Revisions
  <1>2. CASE ReplaySync(rev, rel)
    BY <1>2 DEF ReplaySync
  <1>3. CASE StoreOnly(rev, rel)
    BY <1>3 DEF StoreOnly, Stored
  <1>4. CASE ActivateUnsynced(rev, rel)
    BY <1>4 DEF ActivateUnsynced, Activated, Stored, Stale, Revisions
  <1> QED
    BY <1>1, <1>2, <1>3, <1>4 DEF SitePublishes

LEMMA SiteRestartsPointers ==
  ASSUME SiteTypeOK, DiskInv, SiteRestarts
  PROVE  Pointers' \subseteq Pointers
  BY DEF Pointers, DiskInv, SiteRestarts, Restart, PowerLoss

\* An acknowledged publication has reached its revision.
LEMMA AcknowledgedIsReached ==
  ASSUME SiteTypeOK, DiskInv, NEW rev \in Revisions, NEW rel \in Releases,
         Activate(rev, rel) \/ ReplaySync(rev, rel)
  PROVE  Reached(rev)'
  BY DEF SiteTypeOK, Directory, Pointer, Revisions, DiskInv, Reached, Pointers,
         Activate, Activated, ReplaySync, IsReplay

-----------------------------------------------------------------------------
(* Type correctness.                                                       *)

LEMMA InitType == Init => TypeOK
  <1> SUFFICES ASSUME Init PROVE TypeOK
    OBVIOUS
  <1>1. SiteTypeOK
    BY SiteAssumption
    DEF Init, SiteInit, SiteTypeOK, Directory, Pointer, NoPointer, Revisions
  <1>2. jobs \in [Jobs -> SomeJob \cup {NoJob}]
    BY DEF Init
  <1>3. worker \in [Workers -> Worker]
    BY DEF Init, Worker, Idle
  <1> QED
    BY <1>1, <1>2, <1>3 DEF Init, TypeOK

\* A worker that is not idle has a claim.
LEMMA WorkerClaims ==
  ASSUME TypeOK, NEW w \in Workers, worker[w].pc # "idle"
  PROVE  worker[w] \in [pc : {"claimed", "sent", "acked"}, claim : Claim]
  BY DEF TypeOK, Worker, Idle

\* A job that exists has an upload, a key and an account.
LEMMA JobExists ==
  ASSUME TypeOK, NEW j \in Jobs, jobs[j].state # "none"
  PROVE  jobs[j] \in SomeJob
  BY DEF TypeOK, NoJob

\* Changing the state and the lease of a job that exists.
LEMMA JobUpdate ==
  ASSUME TypeOK, NEW j \in Jobs, jobs[j].state # "none",
         NEW st \in {"queued", "running", "succeeded", "failed"},
         NEW l \in Leases \cup {None}, NEW t \in {"past", "future"},
         jobs' = [jobs EXCEPT ![j] = [@ EXCEPT !.state = st, !.lease = l, !.until = t]]
  PROVE  jobs' \in [Jobs -> SomeJob \cup {NoJob}]
  <1>1. [jobs[j] EXCEPT !.state = st, !.lease = l, !.until = t] \in SomeJob
    BY JobExists DEF SomeJob
  <1> QED
    BY <1>1 DEF TypeOK

\* What a request in flight asks of the runtime.
LEMMA RequestNames ==
  ASSUME TypeOK, ClaimsInv, NEW q \in requests
  PROVE  /\ q.job \in Jobs /\ Exists(q.job)
         /\ jobs[q.job].revision \in Revisions
         /\ Release(q.job) \in Releases
  <1>1. q.job \in Jobs /\ Exists(q.job)
    BY DEF TypeOK, Claim, ClaimsInv
  <1>2. jobs[q.job] \in SomeJob
    BY <1>1, JobExists DEF Exists
  <1> QED
    BY <1>1, <1>2, PublicationAssumption DEF SomeJob, Release

\* Handling a request is a step of the store, or leaves the store alone.
LEMMA RequestStep ==
  ASSUME NEW q \in requests, Publish(q) \/ PublishRefused(q) \/ PublishFails(q)
  PROVE  SitePublishes(jobs[q.job].revision, Release(q.job)) \/ UNCHANGED siteVars
  BY DEF Publish, PublishRefused, PublishFails, SitePublishes

LEMMA TypeStep ==
  ASSUME TypeOK, ClaimsInv, [Next]_vars
  PROVE  TypeOK'
  <1> USE DEF TypeOK
  <1>1. ASSUME NEW u \in Users, NEW up \in Uploads, SaveUpload(u, up) \/ DeleteUpload(u, up)
        PROVE  TypeOK'
    BY <1>1 DEF SaveUpload, DeleteUpload, siteVars, SiteTypeOK
  <1>2. ASSUME NEW u \in Users, NEW up \in Uploads, NEW k \in Keys, NEW j \in Jobs,
               RequestPublication(u, up, k, j)
        PROVE  TypeOK'
    <2>1. PICK r \in 1..MaxRevision : jobs' = [jobs EXCEPT ![j] =
            [state |-> "queued", upload |-> up, key |-> k, actor |-> u,
             revision |-> r, lease |-> None, until |-> "past"]]
      BY <1>2 DEF RequestPublication
    <2>2. r \in Revisions
      BY SiteAssumption DEF Revisions
    <2> QED
      BY <1>2, <2>1, <2>2 DEF RequestPublication, SomeJob, siteVars, SiteTypeOK
  <1>3. ASSUME NEW u \in Users, NEW j \in Jobs, ResumePublication(u, j)
        PROVE  TypeOK'
    <2>1. [jobs[j] EXCEPT !.actor = u, !.state = "queued", !.lease = None, !.until = "past"]
          \in SomeJob
      BY <1>3, JobExists DEF ResumePublication, SomeJob
    <2> QED
      BY <1>3, <2>1 DEF ResumePublication, siteVars, SiteTypeOK
  <1>4. ASSUME NEW u \in Users, NEW v \in Users, NEW r \in Roles, ChangeMember(u, v, r)
        PROVE  TypeOK'
    BY <1>4 DEF ChangeMember, siteVars, SiteTypeOK
  <1>5. ASSUME NEW u \in Users, DeleteProject(u)
        PROVE  TypeOK'
    BY <1>5 DEF DeleteProject, siteVars, SiteTypeOK
  <1>6. CASE HostingChanges
    BY <1>6 DEF HostingChanges, siteVars, SiteTypeOK
  <1>7. ASSUME NEW w \in Workers, NEW j \in Jobs, NEW l \in Leases, ClaimPublication(w, j, l)
        PROVE  TypeOK'
    <2>1. jobs' \in [Jobs -> SomeJob \cup {NoJob}]
      <3>1. jobs[j].state # "none"
        BY <1>7 DEF ClaimPublication, Claimable
      <3> QED
        BY <1>7, <3>1, JobUpdate DEF ClaimPublication
    <2>2. worker' \in [Workers -> Worker]
      BY <1>7 DEF ClaimPublication, Worker, Claim
    <2> QED
      BY <1>7, <2>1, <2>2 DEF ClaimPublication, siteVars, SiteTypeOK
  <1>8. ASSUME NEW w \in Workers, NEW j \in Jobs, ClaimRefused(w, j)
        PROVE  TypeOK'
    <2>1. jobs[j].state # "none"
      BY <1>8 DEF ClaimRefused
    <2>2. jobs' \in [Jobs -> SomeJob \cup {NoJob}]
      BY <1>8, <2>1, JobUpdate DEF ClaimRefused
    <2> QED
      BY <1>8, <2>2 DEF ClaimRefused, siteVars, SiteTypeOK
  <1>9. ASSUME NEW w \in Workers, FinishPublication(w)
        PROVE  TypeOK'
    <2> DEFINE j == worker[w].claim.job
    <2>1. j \in Jobs /\ jobs[j].state = "running"
      BY <1>9, WorkerClaims DEF FinishPublication, HoldsLease, Claim
    <2>2. jobs' = [jobs EXCEPT ![j] =
            [@ EXCEPT !.state = "succeeded", !.lease = None, !.until = "past"]]
      BY <1>9 DEF FinishPublication
    <2>3. jobs' \in [Jobs -> SomeJob \cup {NoJob}] /\ live' \in Jobs
      <3> HIDE DEF j
      <3>1. jobs[j].state # "none"
        BY <2>1
      <3>2. jobs' \in [Jobs -> SomeJob \cup {NoJob}]
        BY <2>1, <2>2, <3>1, JobUpdate
      <3> QED
        BY <1>9, <2>1, <3>2 DEF FinishPublication, j
    <2>4. worker' \in [Workers -> Worker]
      BY <1>9 DEF FinishPublication, Worker
    <2> QED
      BY <1>9, <2>3, <2>4 DEF FinishPublication, siteVars, SiteTypeOK
  <1>10. ASSUME NEW w \in Workers, Send(w)
         PROVE  TypeOK'
    BY <1>10, WorkerClaims DEF Send, Worker, siteVars, portalVars, SiteTypeOK
  <1>11. ASSUME NEW w \in Workers, GiveUp(w) \/ WorkerFails(w)
         PROVE  TypeOK'
    BY <1>11 DEF GiveUp, WorkerFails, Worker, siteVars, portalVars, SiteTypeOK
  <1>12. ASSUME NEW j \in Jobs, LeaseExpires(j) \/ LeaseOutlived(j)
         PROVE  TypeOK'
    <2>1. jobs[j] # NoJob
      BY <1>12 DEF LeaseExpires, LeaseOutlived, Expire, NoJob
    <2>2. [jobs[j] EXCEPT !.until = "past"] \in SomeJob
      BY <2>1 DEF SomeJob
    <2> QED
      BY <1>12, <2>2
      DEF LeaseExpires, LeaseOutlived, Expire, siteVars, SiteTypeOK
  <1>13. ASSUME NEW q \in requests, Publish(q) \/ PublishRefused(q) \/ PublishFails(q)
         PROVE  TypeOK'
    <2>1. SiteTypeOK'
      <3>1. CASE UNCHANGED siteVars
        BY <3>1 DEF siteVars, SiteTypeOK
      <3> QED
        BY <1>13, <3>1, RequestNames, RequestStep, SitePublishesType
    <2>2. worker' \in [Workers -> Worker]
      <3>1. CASE Acknowledge(q)
        BY <3>1 DEF Acknowledge, Worker, Idle
      <3> QED
        BY <1>13, <3>1 DEF Publish, PublishRefused, PublishFails
    <2> QED
      BY <1>13, <2>1, <2>2 DEF Publish, PublishRefused, PublishFails, portalVars
  <1>14. CASE RuntimeRestarts
    BY <1>14, SiteRestartsType DEF RuntimeRestarts, SiteRestarts, portalVars
  <1>15. CASE UNCHANGED vars
    BY <1>15 DEF vars, portalVars, siteVars, SiteTypeOK
  <1> QED
    BY <1>1, <1>2, <1>3, <1>4, <1>5, <1>6, <1>7, <1>8, <1>9, <1>10, <1>11, <1>12,
       <1>13, <1>14, <1>15
    DEF Next, UserStep, WorkerStep, RuntimeStep, Fault

-----------------------------------------------------------------------------
(* What a step does to the jobs and the claims.                            *)

\* Job i takes another state or lease; a settled job stays settled.
JobMoves(i) ==
  /\ Exists(i)
  /\ \E r \in SomeJob :
       /\ r.revision = jobs[i].revision
       /\ r.upload = jobs[i].upload
       /\ r.state # jobs[i].state => Pending(i)
       /\ jobs' = [jobs EXCEPT ![i] = r]

Requested(j) == \E u \in Users, up \in Uploads, k \in Keys : RequestPublication(u, up, k, j)

LEMMA JobStep ==
  ASSUME TypeOK, [Next]_vars
  PROVE  \/ jobs' = jobs
         \/ \E j \in Jobs : Requested(j)
         \/ \E j \in Jobs : JobMoves(j)
  <1>1. ASSUME NEW u \in Users, NEW j \in Jobs, ResumePublication(u, j)
        PROVE  JobMoves(j)
    <2> DEFINE r == [jobs[j] EXCEPT !.actor = u, !.state = "queued", !.lease = None,
                                    !.until = "past"]
    <2>1. jobs[j] \in SomeJob /\ Exists(j) /\ Pending(j)
      BY <1>1, JobExists DEF ResumePublication, Exists, Pending
    <2>2. r \in SomeJob /\ r.revision = jobs[j].revision /\ r.upload = jobs[j].upload
      BY <2>1 DEF SomeJob
    <2>3. jobs' = [jobs EXCEPT ![j] = r]
      BY <1>1 DEF ResumePublication
    <2> QED
      BY <2>1, <2>2, <2>3 DEF JobMoves
  <1>2. ASSUME NEW j \in Jobs, NEW st \in {"queued", "running", "succeeded", "failed"},
               NEW l \in Leases \cup {None}, NEW t \in {"past", "future"}, Pending(j),
               jobs' = [jobs EXCEPT ![j] = [@ EXCEPT !.state = st, !.lease = l, !.until = t]]
        PROVE  JobMoves(j)
    <2> DEFINE r == [jobs[j] EXCEPT !.state = st, !.lease = l, !.until = t]
    <2>1. jobs[j] \in SomeJob /\ Exists(j)
      BY <1>2, JobExists DEF Exists, Pending
    <2>2. r \in SomeJob /\ r.revision = jobs[j].revision /\ r.upload = jobs[j].upload
      BY <2>1 DEF SomeJob
    <2>3. jobs' = [jobs EXCEPT ![j] = r]
      BY <1>2
    <2> QED
      BY <1>2, <2>1, <2>2, <2>3 DEF JobMoves
  <1>3. ASSUME NEW w \in Workers, NEW j \in Jobs, NEW l \in Leases, ClaimPublication(w, j, l)
        PROVE  JobMoves(j)
    BY <1>3, <1>2 DEF ClaimPublication, Claimable, Pending
  <1>4. ASSUME NEW w \in Workers, NEW j \in Jobs, ClaimRefused(w, j)
        PROVE  JobMoves(j)
    BY <1>4, <1>2 DEF ClaimRefused, Pending
  <1>5. ASSUME NEW w \in Workers, FinishPublication(w)
        PROVE  \E j \in Jobs : JobMoves(j)
    <2> DEFINE j == worker[w].claim.job
    <2>1. j \in Jobs /\ Pending(j)
      BY <1>5, WorkerClaims DEF FinishPublication, HoldsLease, Claim, Pending
    <2>2. jobs' = [jobs EXCEPT ![j] =
            [@ EXCEPT !.state = "succeeded", !.lease = None, !.until = "past"]]
      BY <1>5 DEF FinishPublication
    <2> HIDE DEF j
    <2>3. JobMoves(j)
      BY <2>1, <2>2, <1>2
    <2> QED
      BY <2>1, <2>3
  <1>6. ASSUME NEW j \in Jobs, LeaseExpires(j) \/ LeaseOutlived(j)
        PROVE  JobMoves(j)
    <2> DEFINE r == [jobs[j] EXCEPT !.until = "past"]
    <2>1. jobs[j] \in SomeJob /\ Exists(j)
      BY <1>6 DEF LeaseExpires, LeaseOutlived, Expire, TypeOK, NoJob, SomeJob, Exists
    <2>2. r \in SomeJob /\ r.revision = jobs[j].revision /\ r.upload = jobs[j].upload
          /\ r.state = jobs[j].state
      BY <2>1 DEF SomeJob
    <2>3. jobs' = [jobs EXCEPT ![j] = r]
      BY <1>6 DEF LeaseExpires, LeaseOutlived, Expire
    <2> QED
      BY <2>1, <2>2, <2>3 DEF JobMoves, Pending
  <1>7. CASE UNCHANGED vars
    BY <1>7 DEF vars, portalVars
  <1>8. CASE RuntimeStep \/ \E q \in requests : PublishFails(q)
    BY <1>8 DEF RuntimeStep, Publish, PublishRefused, PublishFails, portalVars
  <1>9. CASE RuntimeRestarts \/ HostingChanges
    BY <1>9 DEF RuntimeRestarts, HostingChanges, portalVars
  <1>10. ASSUME NEW w \in Workers, Send(w) \/ GiveUp(w) \/ WorkerFails(w)
         PROVE  jobs' = jobs
    BY <1>10 DEF Send, GiveUp, WorkerFails, portalVars
  <1>11. CASE UserStep
    BY <1>1, <1>11 DEF UserStep, SaveUpload, DeleteUpload, Requested, ChangeMember, DeleteProject
  <1> QED
    BY <1>3, <1>4, <1>5, <1>6, <1>7, <1>8, <1>9, <1>10, <1>11 DEF Next, WorkerStep, Fault

\* A job that exists keeps its revision and its upload.
LEMMA JobsKept ==
  ASSUME TypeOK, [Next]_vars, NEW j \in Jobs, Exists(j)
  PROVE  /\ Exists(j)'
         /\ jobs'[j].revision = jobs[j].revision
         /\ jobs'[j].upload = jobs[j].upload
  <1>1. CASE \E i \in Jobs : JobMoves(i)
    BY <1>1 DEF JobMoves, TypeOK, Exists, SomeJob
  <1>2. CASE \E i \in Jobs : Requested(i)
    BY <1>2 DEF Requested, RequestPublication, TypeOK, Exists
  <1> QED
    BY <1>1, <1>2, JobStep DEF Exists

LEMMA RevisionsStep ==
  ASSUME TypeOK, RevisionsInv, [Next]_vars
  PROVE  RevisionsInv'
  <1>1. CASE jobs' = jobs
    BY <1>1 DEF RevisionsInv, Exists, Pending
  <1>2. ASSUME NEW j \in Jobs, JobMoves(j)
        PROVE  RevisionsInv'
    BY <1>2 DEF JobMoves, RevisionsInv, Exists, Pending, TypeOK, SomeJob
  <1>3. ASSUME NEW j \in Jobs, Requested(j)
        PROVE  RevisionsInv'
    <2>1. PICK r \in 1..MaxRevision :
            /\ \A i \in Jobs : Exists(i) => jobs[i].revision < r
            /\ jobs'[j].revision = r
            /\ jobs'[j].state = "queued"
            /\ \A i \in Jobs \ {j} : jobs'[i] = jobs[i]
            /\ \A i \in Jobs : ~Pending(i)
      BY <1>3 DEF Requested, RequestPublication, IsNextRevision, TypeOK
    <2>2. \A i \in Jobs : Exists(i) => jobs[i].revision \in Nat
      BY SiteAssumption, JobExists DEF SomeJob, Exists, Revisions
    <2>3. r \in Nat /\ r >= 1
      BY SiteAssumption
    <2> QED
      BY <2>1, <2>2, <2>3 DEF RevisionsInv, Exists, Pending
  <1> QED
    BY <1>1, <1>2, <1>3, JobStep

LEMMA ClaimsStep ==
  ASSUME TypeOK, ClaimsInv, [Next]_vars
  PROVE  ClaimsInv'
  <1>1. \A j \in Jobs : Exists(j) => Exists(j)'
    BY JobsKept
  <1>2. \A q \in requests : q.job \in Jobs /\ Exists(q.job)'
    BY <1>1 DEF ClaimsInv, TypeOK, Claim
  <1>3. ASSUME NEW w \in Workers, worker[w].pc # "idle"
        PROVE  worker[w].claim.job \in Jobs /\ jobs'[worker[w].claim.job].state # "none"
    <2>1. worker[w].claim.job \in Jobs
      BY <1>3, WorkerClaims DEF Claim
    <2> QED
      BY <1>1, <1>3, <2>1 DEF ClaimsInv, Exists
  <1>4. ASSUME NEW w \in Workers, NEW j \in Jobs, NEW l \in Leases, ClaimPublication(w, j, l)
        PROVE  ClaimsInv'
    <2>1. Exists(j)'
      BY <1>1, <1>4 DEF ClaimPublication, Claimable, Exists
    <2>2. \A v \in Workers \ {w} : worker'[v] = worker[v]
      BY <1>4 DEF ClaimPublication, TypeOK
    <2>3. worker'[w].claim.job = j
      BY <1>4 DEF ClaimPublication, TypeOK
    <2> QED
      BY <1>2, <1>3, <1>4, <2>1, <2>2, <2>3 DEF ClaimsInv, ClaimPublication, Exists
  <1>5. ASSUME NEW w \in Workers, Send(w)
        PROVE  ClaimsInv'
    BY <1>2, <1>3, <1>5 DEF ClaimsInv, Send, TypeOK, Worker, Idle, Exists
  <1>6. ASSUME NEW w \in Workers, GiveUp(w) \/ WorkerFails(w) \/ FinishPublication(w)
        PROVE  ClaimsInv'
    BY <1>2, <1>3, <1>6
    DEF ClaimsInv, GiveUp, WorkerFails, FinishPublication, TypeOK, Worker, Idle, Exists
  <1>7. ASSUME NEW q \in requests, Publish(q) \/ PublishRefused(q) \/ PublishFails(q)
        PROVE  ClaimsInv'
    BY <1>2, <1>3, <1>7
    DEF ClaimsInv, Publish, PublishRefused, PublishFails, Acknowledge, TypeOK, Worker, Idle,
        Exists
  <1>8. CASE UNCHANGED <<worker, requests>>
    BY <1>2, <1>3, <1>8 DEF ClaimsInv, Exists
  <1> QED
    BY <1>4, <1>5, <1>6, <1>7, <1>8
    DEF Next, vars, UserStep, SaveUpload, DeleteUpload, RequestPublication, ResumePublication,
        ChangeMember, DeleteProject, HostingChanges, WorkerStep, ClaimRefused, LeaseExpires,
        LeaseOutlived, Expire, RuntimeStep, Fault, RuntimeRestarts

-----------------------------------------------------------------------------
(* What a step does to the runtime.                                        *)

\* Only handling a request and a restart touch the store, and then the portal
\* stands still.
LEMMA SiteStep ==
  ASSUME TypeOK, [Next]_vars
  PROVE  \/ UNCHANGED siteVars
         \/ /\ \E q \in requests : SitePublishes(jobs[q.job].revision, Release(q.job))
            /\ UNCHANGED <<portalVars, resumed>>
         \/ SiteRestarts /\ UNCHANGED <<portalVars, resumed, worker, requests>>
  <1>1. ASSUME NEW q \in requests, Publish(q) \/ PublishRefused(q) \/ PublishFails(q)
        PROVE  \/ UNCHANGED siteVars
               \/ /\ SitePublishes(jobs[q.job].revision, Release(q.job))
                  /\ UNCHANGED <<portalVars, resumed>>
    BY <1>1, RequestStep DEF Publish, PublishRefused, PublishFails
  <1>2. CASE RuntimeRestarts
    BY <1>2 DEF RuntimeRestarts, SiteRestarts
  <1>3. CASE UNCHANGED siteVars
    BY <1>3
  <1> QED
    BY <1>1, <1>2, <1>3
    DEF Next, vars, UserStep, SaveUpload, DeleteUpload, RequestPublication, ResumePublication,
        ChangeMember, DeleteProject, HostingChanges, WorkerStep, ClaimPublication, ClaimRefused,
        FinishPublication, Send, GiveUp, WorkerFails, LeaseExpires, LeaseOutlived, Expire,
        RuntimeStep, Fault

LEMMA DiskStep ==
  ASSUME TypeOK, ClaimsInv, DiskInv, [Next]_vars
  PROVE  DiskInv'
  <1>1. SiteTypeOK
    BY DEF TypeOK
  <1>2. CASE UNCHANGED siteVars
    BY <1>2 DEF siteVars, DiskInv, PointerIsLoadable
  <1>3. CASE \E q \in requests : SitePublishes(jobs[q.job].revision, Release(q.job))
    BY <1>1, <1>3, RequestNames, SitePublishesDisk
  <1>4. CASE SiteRestarts
    BY <1>1, <1>4, SiteRestartsDisk
  <1> QED
    BY <1>2, <1>3, <1>4, SiteStep

\* A pointer the store has after a step it had before, or some request in
\* flight, of a revision above the one in memory, put it there.
LEMMA PointersStep ==
  ASSUME TypeOK, ClaimsInv, DiskInv, [Next]_vars, NEW p \in Pointers'
  PROVE  \/ p \in Pointers
         \/ /\ \E q \in requests : p = PointerOf(q.job)
            /\ p.rev > current.rev \/ current.rev = 0
            /\ UNCHANGED <<portalVars, resumed>>
  <1>1. SiteTypeOK
    BY DEF TypeOK
  <1>2. CASE UNCHANGED siteVars
    BY <1>2 DEF siteVars, Pointers
  <1>3. ASSUME NEW q \in requests, SitePublishes(jobs[q.job].revision, Release(q.job))
        PROVE  \/ p \in Pointers
               \/ p = PointerOf(q.job) /\ (p.rev > current.rev \/ current.rev = 0)
    BY <1>1, <1>3, RequestNames, SitePublishesPointers DEF PointerOf
  <1>4. CASE SiteRestarts
    BY <1>1, <1>4, SiteRestartsPointers
  <1> QED
    BY <1>2, <1>3, <1>4, SiteStep

LEMMA PointersInvStep ==
  ASSUME TypeOK, ClaimsInv, DiskInv, PointersInv, [Next]_vars
  PROVE  PointersInv'
  <1> SUFFICES ASSUME NEW p \in Pointers'
               PROVE  (p = NoPointer \/ \E j \in Jobs : Exists(j) /\ p = PointerOf(j))'
    BY DEF PointersInv
  <1>1. \A j \in Jobs : Exists(j) => Exists(j)' /\ PointerOf(j)' = PointerOf(j)
    BY JobsKept DEF PointerOf, Release
  <1>2. \A q \in requests : q.job \in Jobs /\ Exists(q.job)
    BY RequestNames
  <1> QED
    BY <1>1, <1>2, PointersStep DEF PointersInv

\* What the runtime has durably reached it keeps.
LEMMA ReachedKept ==
  ASSUME TypeOK, ClaimsInv, DiskInv, [Next]_vars, NEW n \in Nat \ {0}, Reached(n)
  PROVE  Reached(n)'
  <1>1. current.rev \in Nat /\ current.rev >= n
    BY SiteAssumption DEF TypeOK, SiteTypeOK, Pointer, Revisions, Reached, Pointers
  <1>2. ASSUME NEW p \in Pointers'
        PROVE  p.rev >= n
    <2>1. CASE p \in Pointers
      BY <2>1 DEF Reached
    <2>2. CASE \E q \in requests : p = PointerOf(q.job) /\ p.rev > current.rev
      BY <1>1, <2>2, RequestNames, SiteAssumption DEF PointerOf, Revisions
    <2> QED
      BY <1>1, <2>1, <2>2, PointersStep
  <1> QED
    BY <1>2 DEF Reached

LEMMA RevisionIsPositive ==
  ASSUME TypeOK, RevisionsInv, NEW j \in Jobs, Exists(j)
  PROVE  jobs[j].revision \in Nat \ {0}
  BY JobExists, SiteAssumption DEF SomeJob, Exists, Revisions, RevisionsInv

LEMMA ReachedStep ==
  ASSUME TypeOK, ClaimsInv, DiskInv, RevisionsInv, ReachedInv, [Next]_vars
  PROVE  ReachedInv'
  <1>1. ASSUME NEW j \in Jobs, Exists(j), Reached(jobs[j].revision)
        PROVE  Reached(jobs[j].revision)' /\ jobs'[j].revision = jobs[j].revision
    BY <1>1, RevisionIsPositive, ReachedKept, JobsKept
  <1>2. ASSUME NEW w \in Workers, worker[w].pc = "acked"
        PROVE  LET j == worker[w].claim.job IN
               j \in Jobs /\ Exists(j) /\ Reached(jobs[j].revision)
    BY <1>2, WorkerClaims DEF ClaimsInv, ReachedInv, Claim
  <1>3. (live # None => jobs[live].state = "succeeded" /\ Reached(jobs[live].revision))'
    <2>1. CASE live' = live
      <3>1. ASSUME live # None
            PROVE  /\ live \in Jobs /\ Exists(live)
                   /\ jobs'[live].state = "succeeded"
                   /\ Reached(jobs[live].revision)
        <4>1. live \in Jobs /\ jobs[live].state = "succeeded"
          BY <3>1 DEF TypeOK, ReachedInv
        <4>2. ASSUME NEW i \in Jobs, JobMoves(i)
              PROVE  jobs'[live].state = "succeeded"
          BY <4>1, <4>2 DEF JobMoves, Pending, TypeOK
        <4>3. ASSUME NEW i \in Jobs, Requested(i)
              PROVE  jobs'[live].state = "succeeded"
          BY <4>1, <4>3 DEF Requested, RequestPublication, Exists, TypeOK
        <4> QED
          BY <3>1, <4>1, <4>2, <4>3, JobStep DEF ReachedInv, Exists
      <3> QED
        BY <1>1, <2>1, <3>1
    <2>2. ASSUME NEW w \in Workers, FinishPublication(w)
          PROVE  (live # None => jobs[live].state = "succeeded" /\ Reached(jobs[live].revision))'
      <3> DEFINE j == worker[w].claim.job
      <3>1. j \in Jobs /\ Exists(j) /\ Reached(jobs[j].revision)
        BY <1>2, <2>2 DEF FinishPublication
      <3>2. live' = j /\ jobs'[j].state = "succeeded"
        BY <2>2, <3>1 DEF FinishPublication, TypeOK
      <3> HIDE DEF j
      <3> QED
        BY <1>1, <3>1, <3>2
    <2> QED
      BY <2>1, <2>2
      DEF Next, vars, portalVars, UserStep, SaveUpload, DeleteUpload, RequestPublication,
          ResumePublication, ChangeMember, DeleteProject, HostingChanges, WorkerStep,
          ClaimPublication, ClaimRefused, Send, GiveUp, WorkerFails, LeaseExpires,
          LeaseOutlived, Expire, RuntimeStep, Publish, PublishRefused, PublishFails, Fault,
          RuntimeRestarts
  <1>4. ASSUME NEW w \in Workers, worker'[w].pc = "acked"
        PROVE  Reached(jobs[worker[w].claim.job].revision)'
    <2>1. CASE worker'[w] = worker[w]
      <3> DEFINE j == worker[w].claim.job
      <3>1. j \in Jobs /\ Exists(j) /\ Reached(jobs[j].revision)
        BY <1>2, <1>4, <2>1
      <3>2. worker'[w].claim.job = j
        BY <2>1
      <3> HIDE DEF j
      <3> QED
        BY <1>1, <3>1, <3>2
    <2>2. ASSUME NEW q \in requests, Publish(q), worker[w] = [pc |-> "sent", claim |-> q]
          PROVE  Reached(jobs[worker[w].claim.job].revision)'
      <3>1. q.job \in Jobs /\ jobs[q.job].revision \in Revisions /\ Release(q.job) \in Releases
        BY RequestNames
      <3>2. Reached(jobs[q.job].revision)'
        BY <2>2, <3>1, AcknowledgedIsReached DEF Publish, TypeOK, portalVars
      <3>3. worker'[w].claim = q
        BY <2>2 DEF Publish, Acknowledge, TypeOK
      <3> QED
        BY <3>2, <3>3
    <2>3. ASSUME NEW q \in requests, Publish(q), worker[w] # [pc |-> "sent", claim |-> q]
          PROVE  worker'[w] = worker[w]
      BY <2>3 DEF Publish, Acknowledge
    <2>4. ASSUME NEW v \in Workers,
                 \/ \E j \in Jobs, l \in Leases : ClaimPublication(v, j, l)
                 \/ FinishPublication(v) \/ Send(v) \/ GiveUp(v) \/ WorkerFails(v)
          PROVE  worker'[w] = worker[w]
      <3>1. worker'[v].pc # "acked"
        <4>1. CASE Send(v)
          BY <4>1, WorkerClaims DEF Send, TypeOK
        <4>2. CASE FinishPublication(v) \/ GiveUp(v) \/ WorkerFails(v)
          <5>1. worker'[v] = Idle
            BY <4>2 DEF FinishPublication, GiveUp, WorkerFails, TypeOK
          <5> QED
            BY <5>1 DEF Idle
        <4>3. ASSUME NEW j \in Jobs, NEW l \in Leases, ClaimPublication(v, j, l)
              PROVE  worker'[v].pc # "acked"
          BY <4>3 DEF ClaimPublication, TypeOK
        <4> QED
          BY <2>4, <4>1, <4>2, <4>3
      <3> QED
        BY <1>4, <2>4, <3>1
        DEF ClaimPublication, FinishPublication, Send, GiveUp, WorkerFails, TypeOK
    <2> QED
      BY <2>1, <2>2, <2>3, <2>4
      DEF Next, vars, UserStep, SaveUpload, DeleteUpload, RequestPublication,
          ResumePublication, ChangeMember, DeleteProject, HostingChanges, WorkerStep,
          ClaimRefused, LeaseExpires, LeaseOutlived, Expire, RuntimeStep, PublishRefused,
          PublishFails, Fault, RuntimeRestarts
  <1> QED
    BY <1>3, <1>4 DEF ReachedInv

\* A job that is queued or failed after a step was so before it, unless it was
\* just requested or resumed.
LEMMA UnclaimedJobs ==
  ASSUME TypeOK, [Next]_vars, NEW j \in Jobs \ resumed',
         jobs'[j].state \in {"queued", "failed"}
  PROVE  j \notin resumed /\ (jobs[j].state \in {"queued", "failed"} \/ Requested(j))
  <1>1. ASSUME NEW u \in Users, NEW i \in Jobs, ResumePublication(u, i)
        PROVE  j \notin resumed /\ jobs[j] = jobs'[j]
    BY <1>1 DEF ResumePublication, TypeOK
  <1>2. ASSUME NEW w \in Workers, NEW i \in Jobs, ClaimRefused(w, i)
        PROVE  j \notin resumed /\ jobs[j].state \in {"queued", "failed"}
    BY <1>2 DEF ClaimRefused, TypeOK
  <1>3. ASSUME NEW w \in Workers, NEW i \in Jobs, NEW l \in Leases, ClaimPublication(w, i, l)
        PROVE  j \notin resumed /\ jobs[j] = jobs'[j]
    BY <1>3 DEF ClaimPublication, Claimable, TypeOK, SomeJob, NoJob
  <1>4. ASSUME NEW w \in Workers, FinishPublication(w)
        PROVE  j \notin resumed /\ jobs[j] = jobs'[j]
    <2> DEFINE i == worker[w].claim.job
    <2>1. i \in Jobs
      BY <1>4, WorkerClaims DEF FinishPublication, Claim
    <2>2. jobs' = [jobs EXCEPT ![i] =
            [@ EXCEPT !.state = "succeeded", !.lease = None, !.until = "past"]]
      BY <1>4 DEF FinishPublication
    <2>3. jobs[i] \in SomeJob
      BY <1>4, <2>1, JobExists DEF FinishPublication, HoldsLease
    <2> HIDE DEF i
    <2>4. jobs'[i].state = "succeeded"
      BY <2>1, <2>2, <2>3 DEF TypeOK, SomeJob
    <2> QED
      BY <1>4, <2>1, <2>2, <2>4 DEF FinishPublication, TypeOK
  <1>5. ASSUME NEW i \in Jobs, LeaseExpires(i) \/ LeaseOutlived(i)
        PROVE  j \notin resumed /\ jobs[j].state = jobs'[j].state
    <2>1. [jobs[i] EXCEPT !.until = "past"].state = jobs[i].state
      BY DEF TypeOK, SomeJob, NoJob
    <2> QED
      BY <1>5, <2>1 DEF LeaseExpires, LeaseOutlived, Expire, TypeOK
  <1>6. ASSUME NEW i \in Jobs, Requested(i)
        PROVE  j \notin resumed /\ (jobs[j] = jobs'[j] \/ i = j)
    BY <1>6 DEF Requested, RequestPublication, TypeOK
  <1>7. CASE UNCHANGED <<jobs, resumed>>
    BY <1>7
  <1> QED
    BY <1>1, <1>2, <1>3, <1>4, <1>5, <1>6, <1>7
    DEF Next, vars, portalVars, UserStep, SaveUpload, DeleteUpload, Requested,
        ChangeMember, DeleteProject, HostingChanges, WorkerStep, Send, GiveUp, WorkerFails,
        RuntimeStep, Publish, PublishRefused, PublishFails, Fault, RuntimeRestarts

LEMMA UnclaimedStep ==
  ASSUME IInv, [Next]_vars
  PROVE  UnclaimedInv'
  <1> USE DEF IInv
  <1> SUFFICES ASSUME NEW j \in Jobs \ resumed', jobs'[j].state \in {"queued", "failed"}
               PROVE  /\ \A q \in requests' : q.job # j
                      /\ \A w \in Workers : worker'[w].pc # "idle" => worker'[w].claim.job # j
                      /\ \A p \in Pointers' : p.rev # jobs'[j].revision
    BY DEF UnclaimedInv
  <1>1. CASE Requested(j)
    <2>1. UNCHANGED <<siteVars, worker, requests>> /\ ~Exists(j)
      BY <1>1 DEF Requested, RequestPublication
    <2>2. \A q \in requests : q.job # j
      BY <2>1 DEF ClaimsInv
    <2>3. \A w \in Workers : worker[w].pc # "idle" => worker[w].claim.job # j
      BY <2>1 DEF ClaimsInv
    <2>4. PICK r \in 1..MaxRevision :
            /\ \A i \in Jobs : Exists(i) => jobs[i].revision < r
            /\ jobs'[j].revision = r
      BY <1>1 DEF Requested, RequestPublication, IsNextRevision, TypeOK
    <2>5. ASSUME NEW p \in Pointers PROVE p.rev # r
      <3>1. CASE p = NoPointer
        BY <3>1, SiteAssumption DEF NoPointer
      <3>2. ASSUME NEW i \in Jobs, Exists(i), p = PointerOf(i)
            PROVE  p.rev # r
        BY <3>2, <2>4, RevisionIsPositive, SiteAssumption DEF PointerOf
      <3> QED
        BY <3>1, <3>2 DEF PointersInv
    <2> QED
      BY <2>1, <2>2, <2>3, <2>4, <2>5 DEF siteVars, Pointers
  <1>2. CASE j \notin resumed /\ jobs[j].state \in {"queued", "failed"}
    <2>1. /\ Exists(j)
          /\ jobs'[j].revision = jobs[j].revision
      BY <1>2, JobsKept DEF Exists
    <2>2. /\ \A q \in requests : q.job # j
          /\ \A w \in Workers : worker[w].pc # "idle" => worker[w].claim.job # j
          /\ \A p \in Pointers : p.rev # jobs[j].revision
      BY <1>2 DEF UnclaimedInv
    <2>3. \A p \in Pointers' : p.rev # jobs[j].revision
      <3>1. \A q \in requests : PointerOf(q.job).rev # jobs[j].revision
        BY <2>1, <2>2, RequestNames DEF PointerOf, RevisionsInv
      <3> QED
        BY <2>2, <3>1, PointersStep
    <2>4. ASSUME NEW w \in Workers, NEW i \in Jobs, NEW l \in Leases, ClaimPublication(w, i, l)
          PROVE  /\ \A q \in requests' : q.job # j
                 /\ \A v \in Workers : worker'[v].pc # "idle" => worker'[v].claim.job # j
      <3>1. jobs'[i].state = "running"
        BY <2>4, JobExists DEF ClaimPublication, Claimable, TypeOK, SomeJob
      <3>2. i # j
        BY <3>1
      <3>3. worker'[w].claim.job = i /\ \A v \in Workers \ {w} : worker'[v] = worker[v]
        BY <2>4 DEF ClaimPublication, TypeOK
      <3> QED
        BY <2>2, <2>4, <3>2, <3>3 DEF ClaimPublication
    <2>5. ASSUME NEW w \in Workers, Send(w)
          PROVE  /\ \A q \in requests' : q.job # j
                 /\ \A v \in Workers : worker'[v].pc # "idle" => worker'[v].claim.job # j
      <3>1. worker[w].claim.job # j /\ worker'[w].claim = worker[w].claim
        BY <2>2, <2>5, WorkerClaims DEF Send, TypeOK
      <3>2. \A v \in Workers \ {w} : worker'[v] = worker[v]
        BY <2>5 DEF Send, TypeOK
      <3> QED
        BY <2>2, <2>5, <3>1, <3>2 DEF Send
    <2>6. ASSUME NEW w \in Workers, FinishPublication(w) \/ GiveUp(w) \/ WorkerFails(w)
          PROVE  /\ \A q \in requests' : q.job # j
                 /\ \A v \in Workers : worker'[v].pc # "idle" => worker'[v].claim.job # j
      <3>1. worker'[w] = Idle /\ requests' = requests
        BY <2>6 DEF FinishPublication, GiveUp, WorkerFails, TypeOK
      <3>2. \A v \in Workers \ {w} : worker'[v] = worker[v]
        BY <2>6 DEF FinishPublication, GiveUp, WorkerFails, TypeOK
      <3>3. worker'[w].pc = "idle"
        BY <3>1 DEF Idle
      <3> QED
        BY <2>2, <3>1, <3>2, <3>3
    <2>7. ASSUME NEW q \in requests, Publish(q)
          PROVE  /\ \A x \in requests' : x.job # j
                 /\ \A v \in Workers : worker'[v].pc # "idle" => worker'[v].claim.job # j
      <3>1. \A v \in Workers : worker'[v].claim = worker[v].claim
                              /\ (worker'[v].pc # "idle" => worker[v].pc # "idle")
        BY <2>7 DEF Publish, Acknowledge, TypeOK
      <3> QED
        BY <2>2, <2>7, <3>1 DEF Publish
    <2>8. ASSUME worker' = worker, requests' \subseteq requests
          PROVE  /\ \A x \in requests' : x.job # j
                 /\ \A v \in Workers : worker'[v].pc # "idle" => worker'[v].claim.job # j
      BY <2>2, <2>8
    <2>9. /\ \A q \in requests' : q.job # j
          /\ \A v \in Workers : worker'[v].pc # "idle" => worker'[v].claim.job # j
      BY <2>4, <2>5, <2>6, <2>7, <2>8
      DEF Next, vars, UserStep, SaveUpload, DeleteUpload, RequestPublication,
          ResumePublication, ChangeMember, DeleteProject, HostingChanges, WorkerStep,
          ClaimRefused, LeaseExpires, LeaseOutlived, Expire, RuntimeStep, PublishRefused,
          PublishFails, Fault, RuntimeRestarts
    <2> QED
      BY <2>1, <2>3, <2>9
  <1> QED
    BY <1>1, <1>2, UnclaimedJobs

-----------------------------------------------------------------------------
(* The theorems.                                                           *)

LEMMA InitInv == Init => IInv
  <1> SUFFICES ASSUME Init PROVE IInv
    OBVIOUS
  <1> USE DEF Init, SiteInit
  <1>1. Pointers = {NoPointer} /\ DiskInv
    BY SiteAssumption DEF Pointers, DiskInv, PointerIsLoadable, NoPointer
  <1>2. \A j \in Jobs : jobs[j].state = "none"
    BY DEF NoJob
  <1>3. \A w \in Workers : worker[w].pc = "idle"
    BY DEF Idle
  <1> QED
    BY <1>1, <1>2, <1>3, InitType
    DEF IInv, ClaimsInv, RevisionsInv, PointersInv, ReachedInv, UnclaimedInv, Exists, Pending

LEMMA NextInv == IInv /\ [Next]_vars => IInv'
  BY TypeStep, DiskStep, ClaimsStep, RevisionsStep, PointersInvStep, ReachedStep, UnclaimedStep
  DEF IInv

LEMMA Invariance == Spec => []IInv
  BY InitInv, NextInv, PTL DEF Spec

\* Every reachable state is well-typed: in particular a job that exists has an
\* upload and an account, and a worker at work has a claim.
THEOREM TypeCorrect == Spec => []TypeOK
  <1>1. IInv => TypeOK
    BY DEF IInv
  <1> QED
    BY <1>1, Invariance, PTL

\* What the portal reports as live is on the runtime's disk.
THEOREM LiveSurvives == Spec => []LiveIsDurable
  <1>1. IInv => LiveIsDurable
    BY DEF IInv, ReachedInv, Reached, Pointers, LiveIsDurable
  <1> QED
    BY <1>1, Invariance, PTL

\* Whatever a crash leaves of the site, Open can load it.
THEOREM SiteLoads == Spec => []PointerIsLoadable
  <1>1. IInv => PointerIsLoadable
    BY DEF IInv, DiskInv
  <1> QED
    BY <1>1, Invariance, PTL

\* A revision is one release everywhere.
THEOREM RevisionsAgree == Spec => []RevisionNamesOneRelease
  <1>1. ASSUME IInv, NEW j \in Jobs, Exists(j), NEW p \in Pointers, p.rev = jobs[j].revision
        PROVE  p.rel = Release(j)
    <2>1. p # NoPointer
      BY <1>1, RevisionIsPositive DEF IInv, NoPointer
    <2>2. PICK i \in Jobs : Exists(i) /\ p = PointerOf(i)
      BY <1>1, <2>1 DEF IInv, PointersInv
    <2>3. i = j
      BY <1>1, <2>2 DEF IInv, RevisionsInv, PointerOf
    <2> QED
      BY <2>2, <2>3 DEF PointerOf
  <1>2. IInv => RevisionNamesOneRelease
    BY <1>1 DEF RevisionNamesOneRelease, Pointers
  <1> QED
    BY <1>2, Invariance, PTL

\* A site comes back from a power loss: it loads, it is as new as what the portal
\* reports as live, and it is the archive its revision stands for.
THEOREM SiteSurvives == Spec => []SiteSurvivesPowerLoss
  BY LiveSurvives, SiteLoads, RevisionsAgree, PTL DEF SiteSurvivesPowerLoss

\* A job declared failed that no owner resumed never reached the runtime.
THEOREM FailedWasNotApplied == Spec => []FailedUnresumedIsNotApplied
  <1>1. IInv => FailedUnresumedIsNotApplied
    BY DEF IInv, UnclaimedInv, Pointers, FailedUnresumedIsNotApplied
  <1> QED
    BY <1>1, Invariance, PTL

\* The live job moves to newer revisions only, and the runtime never serves
\* less than it.
THEOREM LiveAdvances == Spec => LiveMovesForward
  <1> DEFINE Forward ==
        /\ live' # live => live = None \/ jobs'[live'].revision > jobs[live].revision
        /\ live # None => current'.rev >= jobs[live].revision
  <1>1. ASSUME IInv, [Next]_vars PROVE Forward
    <2> USE DEF IInv
    <2>1. ASSUME live # None
          PROVE  /\ live \in Jobs /\ jobs[live].state = "succeeded"
                 /\ jobs[live].revision \in Nat \ {0}
                 /\ Reached(jobs[live].revision)
      BY <1>1, <2>1, RevisionIsPositive DEF TypeOK, ReachedInv, Exists
    <2>2. ASSUME live # None
          PROVE  current'.rev >= jobs[live].revision
      <3>1. PICK n \in Nat \ {0} : n = jobs[live].revision
        BY <2>1, <2>2
      <3>2. Reached(n)'
        BY <1>1, <2>1, <2>2, <3>1, ReachedKept
      <3> QED
        BY <3>1, <3>2 DEF Reached, Pointers
    <2>3. ASSUME NEW w \in Workers, FinishPublication(w), live # None
          PROVE  jobs'[live'].revision > jobs[live].revision
      <3> DEFINE j == worker[w].claim.job
      <3>1. j \in Jobs /\ jobs[j].state = "running" /\ live' = j
        BY <1>1, <2>3, WorkerClaims DEF FinishPublication, HoldsLease, Claim
      <3> HIDE DEF j
      <3>2. Exists(j) /\ Pending(j) /\ Exists(live)
        BY <2>1, <2>3, <3>1 DEF Exists, Pending
      <3>3. jobs[j].revision \in Nat /\ jobs'[j].revision = jobs[j].revision
        BY <1>1, <3>1, <3>2, RevisionIsPositive, JobsKept
      <3>4. jobs[live].revision <= jobs[j].revision /\ jobs[live].revision # jobs[j].revision
        BY <1>1, <2>1, <2>3, <3>1, <3>2 DEF RevisionsInv
      <3> QED
        BY <2>1, <2>3, <3>1, <3>3, <3>4
    <2>4. ASSUME live' # live
          PROVE  \E w \in Workers : FinishPublication(w)
      BY <1>1, <2>4
      DEF Next, vars, portalVars, UserStep, SaveUpload, DeleteUpload, RequestPublication,
          ResumePublication, ChangeMember, DeleteProject, HostingChanges, WorkerStep,
          ClaimPublication, ClaimRefused, Send, GiveUp, WorkerFails, LeaseExpires,
          LeaseOutlived, Expire, RuntimeStep, Publish, PublishRefused, PublishFails, Fault,
          RuntimeRestarts
    <2> QED
      BY <2>2, <2>3, <2>4
  <1>2. IInv /\ [Next]_vars => [Forward]_vars
    BY <1>1
  <1> QED
    BY <1>2, Invariance, PTL DEF Spec, LiveMovesForward

-----------------------------------------------------------------------------
(* The runtime's room for releases.                                        *)

\* The uploads are within their limit, those that a job names are retained, and
\* every ZIP a power loss can leave is the release of some job.
RoomInv ==
  /\ IsFiniteSet(uploads) /\ Cardinality(uploads) <= UploadLimit
  /\ \A j \in Jobs : Exists(j) => jobs[j].upload \in uploads
  /\ \A d \in survivors : \A r \in d.zips : \E j \in Jobs : Exists(j) /\ Release(j) = r

LEMMA SitePublishesZips ==
  ASSUME SiteTypeOK, DiskInv, NEW rev \in Revisions, NEW rel \in Releases,
         SitePublishes(rev, rel), NEW d \in survivors'
  PROVE  \A r \in d.zips : r = rel \/ \E e \in survivors : r \in e.zips
  <1> USE DEF SiteTypeOK, Directory, DiskInv
  <1>1. CASE Activate(rev, rel)
    BY <1>1 DEF Activate, Activated
  <1>2. CASE ReplaySync(rev, rel)
    BY <1>2 DEF ReplaySync
  <1>3. CASE StoreOnly(rev, rel)
    BY <1>3 DEF StoreOnly, Stored
  <1>4. CASE ActivateUnsynced(rev, rel)
    BY <1>4 DEF ActivateUnsynced, Activated, Stored
  <1> QED
    BY <1>1, <1>2, <1>3, <1>4 DEF SitePublishes

LEMMA ZipsStep ==
  ASSUME IInv, RoomInv, [Next]_vars, NEW d \in survivors', NEW r \in d.zips
  PROVE  \E j \in Jobs : (Exists(j) /\ Release(j) = r)'
  <1> USE DEF IInv
  <1>1. ASSUME NEW j \in Jobs, Exists(j), Release(j) = r
        PROVE  (Exists(j) /\ Release(j) = r)'
    BY <1>1, JobsKept DEF Release
  <1>2. ASSUME NEW e \in survivors, r \in e.zips
        PROVE  \E j \in Jobs : (Exists(j) /\ Release(j) = r)'
    BY <1>1, <1>2 DEF RoomInv
  <1>3. CASE UNCHANGED siteVars
    BY <1>2, <1>3 DEF siteVars
  <1>4. ASSUME NEW q \in requests, SitePublishes(jobs[q.job].revision, Release(q.job))
        PROVE  \E j \in Jobs : (Exists(j) /\ Release(j) = r)'
    <2>1. /\ q.job \in Jobs /\ Exists(q.job)
          /\ jobs[q.job].revision \in Revisions /\ Release(q.job) \in Releases
      BY RequestNames DEF ClaimsInv
    <2>2. r = Release(q.job) \/ \E e \in survivors : r \in e.zips
      BY <1>4, <2>1, SitePublishesZips DEF TypeOK
    <2> QED
      BY <1>1, <1>2, <2>1, <2>2
  <1>5. CASE SiteRestarts
    BY <1>2, <1>5 DEF SiteRestarts, Restart, PowerLoss
  <1> QED
    BY <1>3, <1>4, <1>5, SiteStep

LEMMA UploadsStep ==
  ASSUME TypeOK, RoomInv, [Next]_vars
  PROVE  /\ IsFiniteSet(uploads') /\ Cardinality(uploads') <= UploadLimit
         /\ \A j \in Jobs : Exists(j)' => jobs'[j].upload \in uploads'
  <1> DEFINE Goal == /\ IsFiniteSet(uploads') /\ Cardinality(uploads') <= UploadLimit
                     /\ \A j \in Jobs : Exists(j)' => jobs'[j].upload \in uploads'
  <1> SUFFICES Goal
    OBVIOUS
  <1>1. ASSUME NEW u \in Users, NEW up \in Uploads, SaveUpload(u, up)
        PROVE  Goal
    <2>1. uploads' = uploads \cup {up} /\ up \notin uploads /\ jobs' = jobs
          /\ Cardinality(uploads) < UploadLimit
      BY <1>1 DEF SaveUpload
    <2>2. Cardinality(uploads) \in Nat /\ IsFiniteSet(uploads \cup {up})
          /\ Cardinality(uploads \cup {up}) = Cardinality(uploads) + 1
      BY <2>1, FS_CardinalityType, FS_AddElement DEF RoomInv
    <2> QED
      BY <2>1, <2>2, PublicationAssumption DEF RoomInv, Exists
  <1>2. ASSUME NEW u \in Users, NEW up \in Uploads, DeleteUpload(u, up)
        PROVE  Goal
    <2>1. uploads' = uploads \ {up} /\ jobs' = jobs /\ \A j \in Jobs : jobs[j].upload # up
      BY <1>2 DEF DeleteUpload
    <2>2. uploads' \in SUBSET uploads
      BY <2>1
    <2>3. IsFiniteSet(uploads') /\ Cardinality(uploads') <= Cardinality(uploads)
      BY <2>2, FS_Subset DEF RoomInv
    <2>4. Cardinality(uploads) \in Nat /\ Cardinality(uploads') \in Nat
      BY <2>3, FS_CardinalityType DEF RoomInv
    <2> QED
      BY <2>1, <2>3, <2>4, PublicationAssumption DEF RoomInv, Exists
  <1>3. ASSUME NEW u \in Users, NEW up \in Uploads, NEW k \in Keys, NEW j \in Jobs,
               RequestPublication(u, up, k, j)
        PROVE  Goal
    BY <1>3 DEF RequestPublication, RoomInv, Exists, TypeOK
  <1>4. ASSUME uploads' = uploads, NEW j \in Jobs, JobMoves(j)
        PROVE  Goal
    BY <1>4 DEF JobMoves, RoomInv, Exists, TypeOK
  <1>5. CASE uploads' = uploads /\ jobs' = jobs
    BY <1>5 DEF RoomInv, Exists
  <1> DEFINE Edits == \E u \in Users, up \in Uploads : SaveUpload(u, up) \/ DeleteUpload(u, up)
  <1>6. uploads' = uploads \/ Edits
    <2>1. CASE UserStep
      BY <2>1 DEF UserStep, RequestPublication, ResumePublication, ChangeMember, DeleteProject
    <2>2. ASSUME NEW w \in Workers, WorkerStep(w) \/ WorkerFails(w)
          PROVE  uploads' = uploads
      BY <2>2 DEF WorkerStep, ClaimPublication, ClaimRefused, FinishPublication, Send, GiveUp,
                  WorkerFails, portalVars
    <2>3. CASE RuntimeStep \/ RuntimeRestarts \/ \E q \in requests : PublishFails(q)
      BY <2>3 DEF RuntimeStep, Publish, PublishRefused, PublishFails, RuntimeRestarts, portalVars
    <2>4. CASE HostingChanges \/ \E j \in Jobs : LeaseExpires(j) \/ LeaseOutlived(j)
      BY <2>4 DEF HostingChanges, LeaseExpires, LeaseOutlived, Expire
    <2>5. CASE UNCHANGED vars
      BY <2>5 DEF vars, portalVars
    <2> HIDE DEF Edits
    <2> QED
      BY <2>1, <2>2, <2>3, <2>4, <2>5 DEF Next, Fault
  <1> HIDE DEF Goal
  <1>7. CASE Edits
    BY <1>1, <1>2, <1>7
  <1>8. CASE uploads' = uploads
    <2>1. CASE \E j \in Jobs : Requested(j)
      BY <1>3, <2>1 DEF Requested
    <2> QED
      BY <1>4, <1>5, <1>8, <2>1, JobStep
  <1> QED
    BY <1>6, <1>7, <1>8

LEMMA RoomInvariance == Spec => []RoomInv
  <1>1. Init => RoomInv
    BY FS_EmptySet, PublicationAssumption DEF Init, SiteInit, RoomInv, Exists, NoJob
  <1>2. IInv /\ RoomInv /\ [Next]_vars => RoomInv'
    <2> SUFFICES ASSUME IInv, RoomInv, [Next]_vars PROVE RoomInv'
      OBVIOUS
    <2> QED
      BY UploadsStep, ZipsStep DEF RoomInv, IInv
  <1> QED
    BY <1>1, <1>2, Invariance, PTL DEF Spec

\* The runtime never refuses a publication for want of room: it has as many
\* places as the portal retains uploads, and no ZIP in it is of another.
THEOREM RuntimeNeverFull == Spec => []RuntimeHasRoom
  <1>1. ASSUME IInv, RoomInv, NEW j \in Jobs, Pending(j), Release(j) \notin dir.zips
        PROVE  Cardinality(dir.zips) < MaxReleases
    <2> DEFINE Stores == {SHA256[up] : up \in uploads}
               hash   == [up \in uploads |-> SHA256[up]]
    <2>1. hash \in Surjection(uploads, Stores)
      BY DEF Surjection
    <2>2. IsFiniteSet(Stores) /\ Cardinality(Stores) <= Cardinality(uploads)
      BY <1>1, <2>1, FS_Surjection DEF RoomInv
    <2>3. \A i \in Jobs : Exists(i) => Release(i) \in Stores
      BY <1>1 DEF RoomInv, Release
    <2> HIDE DEF Stores, hash
    <2>4. dir.zips \subseteq Stores
      BY <1>1, <2>3 DEF RoomInv, IInv, DiskInv
    <2>5. Release(j) \in Stores
      BY <1>1, <2>3 DEF Pending, Exists
    <2>6. IsFiniteSet(dir.zips) /\ Cardinality(dir.zips) <= Cardinality(Stores)
          /\ Cardinality(dir.zips) # Cardinality(Stores)
      BY <1>1, <2>2, <2>4, <2>5, FS_Subset
    <2>7. Cardinality(dir.zips) \in Nat /\ Cardinality(Stores) \in Nat
          /\ Cardinality(uploads) \in Nat
      BY <1>1, <2>2, <2>6, FS_CardinalityType DEF RoomInv
    <2> QED
      BY <1>1, <2>2, <2>6, <2>7, PublicationAssumption, SiteAssumption DEF RoomInv
  <1>2. IInv /\ RoomInv => RuntimeHasRoom
    BY <1>1 DEF RuntimeHasRoom, HasRoom
  <1> QED
    BY <1>2, Invariance, RoomInvariance, PTL

-----------------------------------------------------------------------------
(* Agreement of the portal and the runtime.                                *)

\* The live job is the newest that succeeded.
LiveInv ==
  \A j \in Jobs : jobs[j].state = "succeeded" =>
    live # None /\ jobs[j].revision <= jobs[live].revision

\* A job that has succeeded after a step had before it, or was just finished.
LEMMA SucceededJobs ==
  ASSUME TypeOK, [Next]_vars, NEW j \in Jobs, jobs'[j].state = "succeeded"
  PROVE  \/ jobs[j].state = "succeeded"
         \/ \E w \in Workers : FinishPublication(w) /\ worker[w].claim.job = j
  <1>1. ASSUME NEW u \in Users, NEW i \in Jobs, ResumePublication(u, i)
        PROVE  jobs[j] = jobs'[j]
    BY <1>1 DEF ResumePublication, TypeOK, SomeJob, NoJob
  <1>2. ASSUME NEW w \in Workers, NEW i \in Jobs, ClaimRefused(w, i)
        PROVE  jobs[j] = jobs'[j]
    BY <1>2 DEF ClaimRefused, TypeOK, SomeJob, NoJob
  <1>3. ASSUME NEW w \in Workers, NEW i \in Jobs, NEW l \in Leases, ClaimPublication(w, i, l)
        PROVE  jobs[j] = jobs'[j]
    BY <1>3 DEF ClaimPublication, Claimable, TypeOK, SomeJob, NoJob
  <1>4. ASSUME NEW w \in Workers, FinishPublication(w)
        PROVE  jobs[j] = jobs'[j] \/ worker[w].claim.job = j
    BY <1>4 DEF FinishPublication, TypeOK
  <1>5. ASSUME NEW i \in Jobs, LeaseExpires(i) \/ LeaseOutlived(i)
        PROVE  jobs[j].state = jobs'[j].state
    <2>1. [jobs[i] EXCEPT !.until = "past"].state = jobs[i].state
      BY DEF TypeOK, SomeJob, NoJob
    <2> QED
      BY <1>5, <2>1 DEF LeaseExpires, LeaseOutlived, Expire, TypeOK
  <1>6. ASSUME NEW i \in Jobs, Requested(i)
        PROVE  jobs[j] = jobs'[j]
    BY <1>6 DEF Requested, RequestPublication, TypeOK
  <1>7. CASE jobs' = jobs
    BY <1>7
  <1> QED
    BY <1>1, <1>2, <1>3, <1>4, <1>5, <1>6, <1>7
    DEF Next, vars, portalVars, UserStep, SaveUpload, DeleteUpload, Requested,
        ChangeMember, DeleteProject, HostingChanges, WorkerStep, Send, GiveUp, WorkerFails,
        RuntimeStep, Publish, PublishRefused, PublishFails, Fault, RuntimeRestarts

LEMMA LiveStep ==
  ASSUME IInv, LiveInv, [Next]_vars
  PROVE  LiveInv'
  <1> USE DEF IInv
  <1>1. ASSUME NEW i \in Jobs, Exists(i)
        PROVE  jobs'[i].revision = jobs[i].revision /\ jobs[i].revision \in Nat
    BY <1>1, JobsKept, RevisionIsPositive
  <1>2. ASSUME NEW w \in Workers, FinishPublication(w)
        PROVE  LiveInv'
    <2> DEFINE i == worker[w].claim.job
    <2>1. i \in Jobs /\ Exists(i) /\ Pending(i) /\ live' = i
      BY <1>2, WorkerClaims DEF FinishPublication, HoldsLease, Claim, Exists, Pending
    <2> HIDE DEF i
    <2>2. ASSUME NEW j \in Jobs, jobs'[j].state = "succeeded"
          PROVE  Exists(j)
      <3>1. CASE \E v \in Workers : FinishPublication(v) /\ worker[v].claim.job = j
        BY <3>1 DEF FinishPublication, HoldsLease, Exists
      <3> QED
        BY <2>2, <3>1, SucceededJobs DEF Exists
    <2>3. ASSUME NEW j \in Jobs, jobs'[j].state = "succeeded"
          PROVE  jobs'[j].revision <= jobs'[i].revision
      BY <1>1, <2>1, <2>2, <2>3 DEF RevisionsInv
    <2>4. i # None
      BY <2>1, PublicationAssumption
    <2> QED
      BY <2>1, <2>3, <2>4 DEF LiveInv
  <1>3. CASE ~\E w \in Workers : FinishPublication(w)
    <2>1. live' = live
      BY <1>3
      DEF Next, vars, portalVars, UserStep, SaveUpload, DeleteUpload, RequestPublication,
          ResumePublication, ChangeMember, DeleteProject, HostingChanges, WorkerStep,
          ClaimPublication, ClaimRefused, Send, GiveUp, WorkerFails, LeaseExpires,
          LeaseOutlived, Expire, RuntimeStep, Publish, PublishRefused, PublishFails, Fault,
          RuntimeRestarts
    <2>2. ASSUME NEW j \in Jobs, jobs'[j].state = "succeeded"
          PROVE  live # None /\ jobs'[j].revision <= jobs'[live].revision
      <3>1. jobs[j].state = "succeeded"
        BY <1>3, <2>2, SucceededJobs
      <3>2. live \in Jobs /\ live # None /\ Exists(live) /\ Exists(j)
        BY <3>1 DEF LiveInv, ReachedInv, TypeOK, Exists
      <3> QED
        BY <1>1, <3>1, <3>2 DEF LiveInv
    <2> QED
      BY <2>1, <2>2 DEF LiveInv
  <1> QED
    BY <1>2, <1>3

\* With nothing pending and nothing failed that was once resumed, memory, disk and
\* whatever a power loss may leave show the live job's release, and no request
\* under way can change that (FinishPublication, Site.publish).
THEOREM SettledAgrees == Spec => []SettledAgreement
  <1>1. Init => LiveInv
    BY DEF Init, NoJob, LiveInv
  <1>2. ASSUME IInv, LiveInv, \A j \in Jobs : ~Pending(j),
               \A j \in resumed : jobs[j].state # "failed"
        PROVE  /\ \A p \in {current, dir.active} \cup {d.active : d \in survivors} :
                    p = LivePointer
               /\ \A q \in requests : jobs[q.job].revision <= current.rev
    <2> USE DEF IInv
    <2>1. ASSUME NEW j \in Jobs, Exists(j)
          PROVE  /\ jobs[j].state \in {"succeeded", "failed"}
                 /\ jobs[j].state = "failed" => j \in Jobs \ resumed
                 /\ jobs[j].revision \in Nat
      BY <1>2, <2>1, JobExists, RevisionIsPositive DEF SomeJob, Pending, Exists
    <2>2. ASSUME live # None
          PROVE  live \in Jobs /\ Exists(live) /\ jobs[live].revision \in Nat \ {0}
      BY <1>2, <2>1, <2>2, RevisionIsPositive DEF TypeOK, ReachedInv, Exists
    <2>3. ASSUME NEW p \in Pointers, NEW j \in Jobs, Exists(j), p = PointerOf(j)
          PROVE  live # None /\ p = PointerOf(live)
      <3>1. p.rev = jobs[j].revision
        BY <2>3 DEF PointerOf
      <3>2. jobs[j].state = "succeeded"
        BY <1>2, <2>1, <2>3, <3>1 DEF UnclaimedInv
      <3>3. live # None /\ jobs[j].revision <= jobs[live].revision
        BY <1>2, <3>2 DEF LiveInv
      <3>4. p.rev >= jobs[live].revision
        BY <1>2, <2>3, <3>3 DEF ReachedInv, Reached
      <3>5. j = live
        BY <1>2, <2>1, <2>2, <2>3, <3>1, <3>3, <3>4 DEF RevisionsInv
      <3> QED
        BY <2>3, <3>3, <3>5
    <2>4. ASSUME NEW p \in Pointers, p = NoPointer, live # None
          PROVE  FALSE
      BY <1>2, <2>2, <2>4 DEF ReachedInv, Reached, NoPointer
    <2>5. ASSUME NEW p \in Pointers
          PROVE  p = LivePointer
      BY <1>2, <2>3, <2>4, <2>5 DEF PointersInv, LivePointer, PointerOf
    <2>6. current \in Pointers /\ dir.active \in Pointers
      BY <1>2 DEF DiskInv, Pointers
    <2>7. ASSUME NEW p \in {current, dir.active} \cup {d.active : d \in survivors}
          PROVE  p = LivePointer
      BY <2>5, <2>6, <2>7 DEF Pointers
    <2>8. ASSUME NEW q \in requests
          PROVE  jobs[q.job].revision <= current.rev
      <3>1. q.job \in Jobs /\ Exists(q.job)
        BY <1>2, RequestNames
      <3>2. jobs[q.job].state = "succeeded"
        BY <1>2, <2>1, <3>1 DEF UnclaimedInv
      <3>3. live # None /\ jobs[q.job].revision <= jobs[live].revision
        BY <1>2, <3>1, <3>2 DEF LiveInv
      <3>4. current.rev = jobs[live].revision
        BY <2>5, <2>6, <3>3 DEF LivePointer
      <3> QED
        BY <3>3, <3>4
    <2> QED
      BY <2>7, <2>8
  <1>3. IInv /\ LiveInv => SettledAgreement
    BY <1>2 DEF SettledAgreement
  <1>4. IInv /\ LiveInv /\ [Next]_vars => LiveInv'
    BY LiveStep
  <1> QED
    BY <1>1, <1>3, <1>4, Invariance, PTL DEF Spec
=============================================================================
