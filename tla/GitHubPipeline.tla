--------------------------- MODULE GitHubPipeline ---------------------------
(***************************************************************************)
(* Automatic deployment of one project from a GitHub branch: push events   *)
(* are accepted from a webhook, each one still naming the branch head is   *)
(* turned into one import, each imported push gets a pipeline, and the     *)
(* pipeline submits a build and a publication to the ordinary queues.      *)
(* (internal/portal/github_push_events.go, github_push_processing.go,      *)
(* github_imports.go, github_pipeline.go and their workers.)               *)
(*                                                                         *)
(* Push n is the n-th change of the branch.  The portal may see the        *)
(* pushes late, twice, in any order or never.  A worker is one portal      *)
(* process; two of them overlap when a new process starts before the old   *)
(* one has stopped, so every lease can be lost while its holder is still   *)
(* working.                                                                *)
(*                                                                         *)
(* The publication and build queues are reduced to what the pipeline sees  *)
(* of them: Publication, NodeDeployment and NodeBuild model them in full.  *)
(***************************************************************************)
EXTENDS Naturals, Sequences, FiniteSets, SequencesExt

CONSTANTS
  Commits,      \* commits the branch can point to
  First,        \* the commit of the first push
  Gone,         \* the head of a deleted branch
  Processes,    \* portal processes that run the GitHub worker
  Nobody,       \* holder of an expired lease
  MaxPushes,    \* bound: changes of the branch
  MaxChanges,   \* bound: what the members and the subscription do meanwhile
  MaxAttempts,  \* claims of a push or an import before it is failed (5)
  ImportLimit,  \* githubImportHistoryLimit (100)
  KeepEvents    \* newest events that retention never removes (20)

ASSUME PipelineAssumption ==
  /\ Gone \notin Commits /\ First \in Commits
  /\ Nobody \notin Processes
  /\ MaxPushes \in Nat \ {0}
  /\ {MaxChanges, MaxAttempts, ImportLimit, KeepEvents} \subseteq Nat

Pushes == 1 .. MaxPushes
Manual == 0                       \* the owner's own import and publication
Jobs   == {Manual} \cup Pushes
Heads  == Commits \cup {Gone}

VARIABLES
  kind,      \* "static" or "node": the project's kind
  branch,    \* Seq of heads: the pushes so far, the last one is the head
  receipts,  \* github_push_receipts: pushes whose payload was stored
  conn,      \* github_connections: its revision and mode
  owner,     \* the authorising user is still an active owner
  hosting,   \* requireHostingKind succeeds
  queue,     \* github_push_events in the order (created_at, id)
  event,     \* github_push_processing of each stored event
  import,    \* github_imports
  pipe,      \* github_pipelines: the state of each pipeline
  build,     \* the node build with key github-auto:<event>
  pub,       \* the publication or deployment with that key
  live,      \* the job the website shows, Manual before the first
  task,      \* what each portal process is working on
  changes    \* what members and subscription did so far: a change of the
             \* connection counts one, every other two

pipelineVars == <<kind, branch, receipts, conn, owner, hosting, queue, event,
                  import, pipe, build, pub, live, task, changes>>

Event(state, error, attempts, lease, rev) ==
  [state |-> state, error |-> error, attempts |-> attempts, lease |-> lease, rev |-> rev]

Import(state, attempts, lease, rev, commit, upload) ==
  [state |-> state, attempts |-> attempts, lease |-> lease, rev |-> rev,
   commit |-> commit, upload |-> upload]

Task(name, n, head) == [job |-> name, n |-> n, head |-> head]

\* A push before it is stored, and after its event is pruned
NoEvent  == Event("none", "none", 0, Nobody, 0)
NoImport == Import("none", 0, Nobody, 0, Gone, Gone)
Idle     == Task("idle", Manual, Gone)

Active == {"waiting", "building", "publishing"}
Unfinished == {"queued", "running"}

Tip == Last(branch)

Events == [state    : {"none", "pending", "running", "skipped", "failed", "imported"},
           error    : {"none", "unavailable"},
           attempts : 0 .. MaxAttempts,
           lease    : Processes \cup {Nobody},
           rev      : Nat]

Imports == [state    : {"none", "queued", "running", "succeeded", "failed"},
            attempts : 0 .. MaxAttempts,
            lease    : Processes \cup {Nobody},
            rev      : Nat,
            commit   : Heads,
            upload   : Heads]

Tasks == [job : {"idle", "push", "pin", "fetch", "pipe"}, n : Jobs, head : Heads]

PipelineTypeOK ==
  /\ kind \in {"static", "node"}
  /\ branch \in Seq(Heads) /\ Len(branch) \in Pushes
  /\ receipts \subseteq Pushes
  /\ conn \in [rev : Nat, mode : {"auto", "manual", "off"}]
  /\ owner \in BOOLEAN /\ hosting \in BOOLEAN
  /\ queue \in Seq(Pushes)
  /\ event \in [Pushes -> Events]
  /\ import \in [Jobs -> Imports]
  /\ pipe \in [Pushes -> {"none", "succeeded", "failed", "cancelled", "superseded"} \cup Active]
  /\ build \in [Pushes -> {"none", "succeeded", "failed", "cancelled"} \cup Unfinished]
  /\ pub \in [Jobs -> {"none", "succeeded", "failed", "cancelled"} \cup Unfinished]
  /\ live \in Jobs
  /\ task \in [Processes -> Tasks]
  /\ changes \in 0 .. MaxChanges

PipelineInit ==
  /\ kind \in {"static", "node"}
  /\ branch = <<First>>
  /\ receipts = {}
  /\ conn = [rev |-> 1, mode |-> "auto"]
  /\ owner = TRUE
  /\ hosting = TRUE
  /\ queue = <<>>
  /\ event = [n \in Pushes |-> NoEvent]
  /\ import = [n \in Jobs |-> NoImport]
  /\ pipe = [n \in Pushes |-> "none"]
  /\ build = [n \in Pushes |-> "none"]
  /\ pub = [n \in Jobs |-> "none"]
  /\ live = Manual
  /\ task = [w \in Processes |-> Idle]
  /\ changes = 0

\* Groups of variables that most steps leave alone together
world == <<kind, branch, conn, owner, hosting>>
inbox == <<receipts, queue, event>>
jobs  == <<pipe, build, pub, live>>

-----------------------------------------------------------------------------
(* The branch, the owner and the subscription.                             *)

\* GitHub: the branch moves, returns to an old commit, is deleted or created
Push == /\ Len(branch) < MaxPushes
        /\ \E h \in Heads \ {Tip} : branch' = Append(branch, h)
        /\ UNCHANGED <<kind, inbox, conn, owner, hosting, import, jobs, task, changes>>

\* One more step of a member or of the subscription, within the bound
Change(cost) == changes + cost <= MaxChanges /\ changes' = changes + cost

Reconnected(mode) ==
  /\ Change(1)
  /\ conn' = [rev |-> conn.rev + 1, mode |-> mode]
  /\ UNCHANGED <<kind, branch, inbox, owner, hosting, import, jobs, task>>

\* The HTTP handler always saves a new connection with deploy_on_push off.
SaveGitHubConnection == hosting /\ Reconnected("manual")

DisconnectGitHub == conn.mode # "off" /\ Reconnected("off")

SetGitHubAutoDeploy ==
  /\ owner
  /\ \/ conn.mode = "manual" /\ hosting /\ Reconnected("auto")
     \/ conn.mode = "auto" /\ Reconnected("manual")

OwnerLeaves == /\ owner /\ Change(2)
               /\ owner' = FALSE
               /\ UNCHANGED <<kind, branch, inbox, conn, hosting, import, jobs, task>>

HostingChanges == /\ Change(2)
                  /\ hosting' = ~hosting
                  /\ UNCHANGED <<kind, branch, inbox, conn, owner, import, jobs, task>>

-----------------------------------------------------------------------------
(* Push intake.                                                            *)

\* Connection, actor and repository of the event are still the project's.
BindingCurrent(rev) == owner /\ conn.mode = "auto" /\ conn.rev = rev

\* Events of one second are ordered by their random id, so that a new event
\* can come before the last one.
AcceptGitHubPush(n) ==
  /\ n <= Len(branch)
  /\ n \notin receipts
  /\ BindingCurrent(conn.rev)
  /\ hosting
  /\ receipts' = receipts \cup {n}
  /\ event' = [event EXCEPT ![n] = Event("pending", "none", 0, Nobody, conn.rev)]
  /\ \E p \in {Len(queue), Len(queue) + 1} \ {0} : queue' = InsertAt(queue, p, n)
  /\ UNCHANGED <<world, import, jobs, task, changes>>

\* Retention: a settled event that nothing refers to, and its import, go.  The
\* receipt stays longer than GitHub redelivers.
PruneGitHubHistory(n) ==
  /\ event[n].state \in {"skipped", "failed", "imported"}
  /\ event[n].state = "imported" =>
       import[n].state = "failed" \/ pipe[n] \in {"succeeded", "failed", "cancelled", "superseded"}
  /\ import[n].state \notin Unfinished
  /\ pipe[n] \notin Active
  /\ pub[n] \notin Unfinished /\ build[n] \notin Unfinished
  /\ live # n
  /\ \E p \in DOMAIN queue : /\ queue[p] = n /\ Len(queue) - p >= KeepEvents
                             /\ queue' = RemoveAt(queue, p)
  /\ event' = [event EXCEPT ![n] = NoEvent]
  /\ import' = [import EXCEPT ![n] = NoImport]
  /\ pipe' = [pipe EXCEPT ![n] = "none"]
  /\ build' = [build EXCEPT ![n] = "none"]
  /\ pub' = [pub EXCEPT ![n] = "none"]
  /\ UNCHANGED <<world, receipts, live, task, changes>>

-----------------------------------------------------------------------------
(* Push processing: claim an event, ask GitHub for the branch head, queue  *)
(* an import if the event still names it.                                  *)

\* Mutant: an event whose lease is lost is not claimed again.
DueOnce(n) == event[n].state = "pending"

Due(n) == event[n].state = "pending" \/ (event[n].state = "running" /\ event[n].lease = Nobody)

\* (the attempts of a settled row are never read again, nor those of an import)
Finished(e, state, error) == Event(state, error, 0, Nobody, e.rev)

\* The event of push n comes first among those of the queue that pass the test.
Oldest(n, Test(_)) ==
  \E p \in DOMAIN queue : /\ queue[p] = n /\ Test(n)
                         /\ \A q \in 1 .. p - 1 : ~Test(queue[q])

\* Claim and ResolveBranch.  A provider that does not answer, a deleted
\* branch and a shutdown leave the lease to expire.
ClaimGitHubPush(w) ==
  /\ task[w] = Idle
  /\ \E n \in Pushes :
       /\ Oldest(n, Due)
       /\ IF event[n].attempts >= MaxAttempts
          THEN /\ event' = [event EXCEPT ![n] = Finished(@, "failed", "unavailable")]
               /\ UNCHANGED task
          ELSE IF branch[n] = Gone
          THEN /\ event' = [event EXCEPT ![n] = Finished(@, "skipped", "none")]
               /\ UNCHANGED task
          ELSE IF ~BindingCurrent(event[n].rev) \/ ~hosting
          THEN /\ event' = [event EXCEPT ![n] = Finished(@, "skipped", "unavailable")]
               /\ UNCHANGED task
          ELSE /\ event' = [event EXCEPT ![n] = Event("running", @.error, @.attempts + 1, w, @.rev)]
               /\ task' = [task EXCEPT ![w] = IF Tip = Gone THEN Idle ELSE Task("push", n, Tip)]
  /\ UNCHANGED <<world, receipts, queue, import, jobs, changes>>

\* Mutant: a push is taken for superseded when a later event is stored.
SupersededByQueue(n, h) == \E p \in DOMAIN queue : queue[p] = n /\ p < Len(queue)

\* The event no longer names the head that GitHub answered with.
Superseded(n, h) == h # branch[n]

PendingImports == {i \in Jobs : import[i].state \in Unfinished}
StoredImports  == {i \in Jobs : import[i].state # "none"}

\* The stable request key finds the import of an event that was queued before;
\* otherwise one import at a time, and a bounded history.
ImportAllowed(n) == \/ import[n].state # "none"
                    \/ PendingImports = {} /\ Cardinality(StoredImports) < ImportLimit

NewImport(commit) == Import("queued", 0, Nobody, conn.rev, commit, Gone)

\* The error returns (lost lease, changed connection, hosting, a pending
\* import, full history) leave the lease to expire.
CompleteGitHubPush(w) ==
  LET n == task[w].n IN
  /\ task[w].job = "push"
  /\ task' = [task EXCEPT ![w] = Idle]
  /\ \/ /\ event[n].state = "running" /\ event[n].lease = w
        /\ Superseded(n, task[w].head)
        /\ event' = [event EXCEPT ![n] = Finished(@, "skipped", "none")]
        /\ UNCHANGED import
     \/ /\ event[n].state = "running" /\ event[n].lease = w
        /\ ~Superseded(n, task[w].head)
        /\ BindingCurrent(event[n].rev) /\ hosting
        /\ ImportAllowed(n)
        /\ import' = IF import[n].state = "none"
                     THEN [import EXCEPT ![n] = NewImport(branch[n])] ELSE import
        /\ event' = [event EXCEPT ![n] = Finished(@, "imported", "none")]
     \/ /\ \/ event[n].state # "running" \/ event[n].lease # w
           \/ /\ ~Superseded(n, task[w].head)
              /\ ~BindingCurrent(event[n].rev) \/ ~hosting \/ ~ImportAllowed(n)
        /\ UNCHANGED <<event, import>>
  /\ UNCHANGED <<world, receipts, queue, jobs, changes>>

PushLeaseExpires(n) ==
  /\ event[n].lease # Nobody
  /\ event' = [event EXCEPT ![n] = [@ EXCEPT !.lease = Nobody]]
  /\ UNCHANGED <<world, receipts, queue, import, jobs, task, changes>>

-----------------------------------------------------------------------------
(* Imports: claim, pin the commit, fetch it, store the upload.             *)

RequestGitHubImport ==
  /\ Change(2)
  /\ owner /\ hosting /\ conn.mode # "off"
  /\ import[Manual].state = "none"
  /\ ImportAllowed(Manual)
  /\ import' = [import EXCEPT ![Manual] = NewImport(Gone)]
  /\ UNCHANGED <<world, inbox, jobs, task>>

\* githubImportCurrent
ImportCurrent(i) == owner /\ hosting /\ conn.mode # "off" /\ conn.rev = import[i].rev

Ended(i, state, upload) == Import(state, 0, Nobody, i.rev, i.commit, upload)

\* An import that is not pinned reads the head after it is claimed.
ImportTask(i) == IF import[i].commit = Gone
                 THEN Task("pin", i, Tip) ELSE Task("fetch", i, import[i].commit)

\* One import is pending in a project, so that the oldest due one is it.
ClaimGitHubImport(w) ==
  /\ task[w] = Idle
  /\ \E i \in PendingImports :
       /\ import[i].lease = Nobody
       /\ IF import[i].attempts >= MaxAttempts \/ ~ImportCurrent(i)
          THEN /\ import' = [import EXCEPT ![i] = Ended(@, "failed", @.upload)]
               /\ UNCHANGED task
          ELSE /\ import' = [import EXCEPT ![i] = Import("running", @.attempts + 1, w, @.rev,
                                                        @.commit, @.upload)]
               /\ task' = [task EXCEPT ![w] = ImportTask(i)]
  /\ UNCHANGED <<world, inbox, jobs, changes>>

HoldsImport(w) == LET i == task[w].n IN
                  import[i].state = "running" /\ import[i].lease = w

PinGitHubImportCommit(w) ==
  LET i == task[w].n IN
  /\ task[w].job = "pin" /\ task[w].head # Gone
  /\ HoldsImport(w) /\ ImportCurrent(i) /\ import[i].commit = Gone
  /\ import' = [import EXCEPT ![i] = [@ EXCEPT !.commit = task[w].head]]
  /\ task' = [task EXCEPT ![w] = [@ EXCEPT !.job = "fetch"]]
  /\ UNCHANGED <<world, inbox, jobs, changes>>

\* The upload holds the commit that this worker fetched.
CompleteGitHubImport(w) ==
  LET i == task[w].n IN
  /\ task[w].job = "fetch"
  /\ HoldsImport(w) /\ ImportCurrent(i)
  /\ import' = [import EXCEPT ![i] = Ended(@, "succeeded", task[w].head)]
  /\ task' = [task EXCEPT ![w] = Idle]
  /\ UNCHANGED <<world, inbox, jobs, changes>>

\* GitHub refused, the archive is invalid, or pin or completion was refused.
FailGitHubImport(w) ==
  /\ task[w].job \in {"pin", "fetch"}
  /\ import' = IF HoldsImport(w)
               THEN [import EXCEPT ![task[w].n] = Ended(@, "failed", @.upload)] ELSE import
  /\ task' = [task EXCEPT ![w] = Idle]
  /\ UNCHANGED <<world, inbox, jobs, changes>>

ImportLeaseExpires(i) ==
  /\ import[i].lease # Nobody
  /\ import' = [import EXCEPT ![i] = [@ EXCEPT !.lease = Nobody]]
  /\ UNCHANGED <<world, inbox, jobs, task, changes>>

-----------------------------------------------------------------------------
(* Pipelines: one active pipeline per project.                             *)

ImportedWithoutPipeline(n) == import[n].state = "succeeded" /\ pipe[n] = "none"

\* A pipeline is started for the oldest imported event, unless one is active.
Materialize ==
  \/ /\ \A m \in Pushes : pipe[m] \notin Active
     /\ \E n \in Pushes : /\ Oldest(n, ImportedWithoutPipeline)
                          /\ pipe' = [pipe EXCEPT ![n] = "waiting"]
  \/ /\ \/ \E m \in Pushes : pipe[m] \in Active
        \/ ~\E n \in Pushes : Oldest(n, ImportedWithoutPipeline)
     /\ UNCHANGED pipe

\* NextGitHubPipeline and ResolveBranch.  The head is read only for a
\* pipeline with a current connection and nothing submitted; when GitHub
\* does not answer (a deleted branch included) nothing is advanced.
NextGitHubPipeline(w) ==
  /\ task[w] = Idle
  /\ Materialize
  /\ \E n \in Pushes :
       /\ pipe'[n] \in Active
       /\ LET asks == BindingCurrent(event[n].rev) /\ pub[n] = "none"
          IN task' = [task EXCEPT ![w] = IF ~asks THEN Task("pipe", n, Gone)
                                         ELSE IF Tip = Gone THEN Idle
                                         ELSE Task("pipe", n, Tip)]
  /\ UNCHANGED <<world, inbox, import, build, pub, live, changes>>

\* The query of AdvanceGitHubPipeline: connection, owner and import are
\* those of the event.
PipelineCurrent(n) == /\ BindingCurrent(event[n].rev)
                      /\ import[n].state = "succeeded"
                      /\ import[n].rev = conn.rev
                      /\ import[n].commit = branch[n]

Submitted(n) == pub[n] # "none"
PublicationPending == \E j \in Jobs : pub[j] \in Unfinished
BuildPending == \E n \in Pushes : build[n] \in Unfinished

\* Mutant: the branch head is not compared again before the job is submitted.
VerdictWithoutHead(n, h) ==
  IF pipe[n] \notin Active THEN "wait"
  ELSE IF Submitted(n)
       THEN IF pub[n] \in Unfinished THEN "wait" ELSE pub[n]
  ELSE IF ~PipelineCurrent(n) THEN "cancelled"
  ELSE IF ~hosting THEN "cancelled"
  ELSE IF kind = "node" /\ build[n] = "none"
       THEN IF BuildPending THEN "wait" ELSE "build"
  ELSE IF kind = "node" /\ build[n] # "succeeded"
       THEN IF build[n] \in Unfinished THEN "wait" ELSE build[n]
  ELSE IF PublicationPending THEN "wait" ELSE "publish"

\* What one call does to pipeline n when GitHub's head is h: the state it
\* ends in, "wait" when nothing changes, "build" or "publish" when a job is
\* submitted.  Submitted work decides first.
Verdict(n, h) ==
  IF pipe[n] \notin Active THEN "wait"
  ELSE IF Submitted(n)
       THEN IF pub[n] \in Unfinished THEN "wait" ELSE pub[n]
  ELSE IF ~PipelineCurrent(n) THEN "cancelled"
  ELSE IF h = Gone THEN "wait"
  ELSE IF Superseded(n, h) THEN "superseded"
  ELSE IF ~hosting THEN "cancelled"
  ELSE IF kind = "node" /\ build[n] = "none"
       THEN IF BuildPending THEN "wait" ELSE "build"
  ELSE IF kind = "node" /\ build[n] # "succeeded"
       THEN IF build[n] \in Unfinished THEN "wait" ELSE build[n]
  ELSE IF PublicationPending THEN "wait" ELSE "publish"

AdvanceGitHubPipeline(w) ==
  LET n == task[w].n
      v == Verdict(n, task[w].head)
  IN
  /\ task[w].job = "pipe"
  /\ task' = [task EXCEPT ![w] = Idle]
  /\ \/ v = "wait" /\ UNCHANGED <<pipe, build, pub>>
     \/ /\ v \in {"succeeded", "failed", "cancelled", "superseded"}
        /\ pipe' = [pipe EXCEPT ![n] = v]
        /\ UNCHANGED <<build, pub>>
     \/ /\ v = "build"
        /\ build' = [build EXCEPT ![n] = "queued"]
        /\ pipe' = [pipe EXCEPT ![n] = "building"]
        /\ UNCHANGED pub
     \/ /\ v = "publish"
        /\ pub' = [pub EXCEPT ![n] = "queued"]
        /\ pipe' = [pipe EXCEPT ![n] = "publishing"]
        /\ UNCHANGED build
     \/ /\ v \in {"build", "publish"}             \* quota: deployment_unavailable
        /\ pipe' = [pipe EXCEPT ![n] = "failed"]
        /\ UNCHANGED <<build, pub>>
  /\ UNCHANGED <<world, inbox, import, live, changes>>

-----------------------------------------------------------------------------
(* The queues that the pipeline submits to.                                *)

\* githubPipelineJobAuthorized: queued automatic work is fenced by the
\* connection, started work is not.
JobAuthorized(j) == j # Manual => BindingCurrent(event[j].rev)

\* A queued job starts.  A static publication that is no longer authorised
\* fails; a node deployment is refused and stays queued.
ClaimPublication(j) ==
  /\ pub[j] = "queued"
  /\ \/ /\ kind = "static" /\ ~JobAuthorized(j)
        /\ pub' = [pub EXCEPT ![j] = "failed"]
     \/ /\ JobAuthorized(j) /\ hosting
        /\ pub' = [pub EXCEPT ![j] = "running"]
  /\ UNCHANGED <<world, inbox, import, pipe, build, live, task, changes>>

\* A static publication is finished only for an actor who still has access;
\* a node deployment records what the runtime shows.
FinishPublication(j) ==
  /\ pub[j] = "running"
  /\ j = Manual \/ owner \/ kind = "node"
  /\ \/ pub' = [pub EXCEPT ![j] = "succeeded"] /\ live' = j
     \/ pub' = [pub EXCEPT ![j] = "failed"] /\ UNCHANGED live
  /\ UNCHANGED <<world, inbox, import, pipe, build, task, changes>>

\* A member publishes another upload or deploys another release.
RequestPublication ==
  /\ Change(2)
  /\ hosting /\ ~PublicationPending
  /\ pub' = [pub EXCEPT ![Manual] = "queued"]
  /\ UNCHANGED <<world, inbox, import, pipe, build, live, task>>

CancelDeployment(j) ==
  /\ kind = "node" /\ pub[j] = "queued"
  /\ pub' = [pub EXCEPT ![j] = "cancelled"]
  /\ UNCHANGED <<world, inbox, import, pipe, build, live, task, changes>>

ClaimNodeBuild(n) ==
  /\ build[n] = "queued" /\ JobAuthorized(n) /\ hosting
  /\ build' = [build EXCEPT ![n] = "running"]
  /\ UNCHANGED <<world, inbox, import, pipe, pub, live, task, changes>>

\* The result of a submitter who lost access is recorded as cancelled.
FinishNodeBuild(n) ==
  /\ build[n] = "running"
  /\ \E r \in {"failed", IF owner THEN "succeeded" ELSE "cancelled"} :
       build' = [build EXCEPT ![n] = r]
  /\ UNCHANGED <<world, inbox, import, pipe, pub, live, task, changes>>

CancelNodeBuild(n) ==
  /\ build[n] = "queued"
  /\ build' = [build EXCEPT ![n] = "cancelled"]
  /\ UNCHANGED <<world, inbox, import, pipe, pub, live, task, changes>>

\* A process stops, or its GitHub call times out, in the middle of a task.
Stop(w) == /\ task[w] # Idle
           /\ task' = [task EXCEPT ![w] = Idle]
           /\ UNCHANGED <<world, inbox, import, jobs, changes>>

-----------------------------------------------------------------------------
Process(w) == \/ ClaimGitHubPush(w) \/ CompleteGitHubPush(w)
              \/ ClaimGitHubImport(w) \/ PinGitHubImportCommit(w)
              \/ CompleteGitHubImport(w) \/ FailGitHubImport(w)
              \/ NextGitHubPipeline(w) \/ AdvanceGitHubPipeline(w)
              \/ Stop(w)

PipelineNext ==
  \/ Push \/ SaveGitHubConnection \/ DisconnectGitHub \/ SetGitHubAutoDeploy
  \/ OwnerLeaves \/ HostingChanges
  \/ RequestGitHubImport \/ RequestPublication
  \/ \E w \in Processes : Process(w)
  \/ \E n \in Pushes : \/ AcceptGitHubPush(n) \/ PruneGitHubHistory(n)
                       \/ PushLeaseExpires(n)
                       \/ ClaimNodeBuild(n) \/ FinishNodeBuild(n) \/ CancelNodeBuild(n)
  \/ \E j \in Jobs : \/ ImportLeaseExpires(j)
                     \/ ClaimPublication(j) \/ FinishPublication(j) \/ CancelDeployment(j)

PipelineSpec == PipelineInit /\ [][PipelineNext]_pipelineVars

(***************************************************************************)
(* Fairness.  The portal runs the three GitHub steps every two seconds     *)
(* (cmd/customer-portal/main.go), a lease ends with time, and the build    *)
(* and publication workers keep polling.  The claims are strongly fair     *)
(* because the process is busy with the other steps in between, and so is  *)
(* advancing a pipeline: GitHub does not fail to answer for ever.          *)
(***************************************************************************)
FinishTask(w) == \/ CompleteGitHubPush(w) \/ PinGitHubImportCommit(w)
                 \/ CompleteGitHubImport(w) \/ FailGitHubImport(w)

PipelineFairness ==
  /\ \A w \in Processes :
       /\ SF_pipelineVars(ClaimGitHubPush(w)) /\ SF_pipelineVars(ClaimGitHubImport(w))
       /\ SF_pipelineVars(NextGitHubPipeline(w)) /\ SF_pipelineVars(AdvanceGitHubPipeline(w))
       /\ WF_pipelineVars(FinishTask(w))
  /\ WF_pipelineVars(\E n \in Pushes : PushLeaseExpires(n))
  /\ WF_pipelineVars(\E j \in Jobs : ImportLeaseExpires(j))
  /\ WF_pipelineVars(\E n \in Pushes : ClaimNodeBuild(n) \/ FinishNodeBuild(n))
  /\ WF_pipelineVars(\E j \in Jobs : ClaimPublication(j) \/ FinishPublication(j))

PipelineFairSpec == PipelineSpec /\ PipelineFairness

-----------------------------------------------------------------------------
(* Properties.                                                             *)

\* An upload holds exactly the commit its import was pinned to, and the
\* import of a push is pinned to the commit that was pushed: neither a
\* restarted process nor one that lost its lease imports a later head
\* (WorkGitHubImport, CompleteGitHubImport).
ImportIsPinned ==
  \A i \in Jobs : import[i].state = "succeeded" =>
    /\ import[i].upload = import[i].commit
    /\ i # Manual => import[i].commit = branch[i]

\* The newest push is never taken for superseded, however late, twice or out
\* of order the pushes arrive: the head it is compared with is read after
\* the push is claimed (CompleteGitHubPush, AdvanceGitHubPipeline).
NewestIsNotSuperseded ==
  LET n == Len(branch) IN
  Tip # Gone =>
    /\ ~(event[n].state = "skipped" /\ event[n].error = "none")
    /\ pipe[n] # "superseded"

\* Once the newest push has been deployed and nothing is being published, an
\* automatically deployed website shows the branch head: no older pipeline
\* finishes after the newer one (AdvanceGitHubPipeline), and what an import
\* holds is what was pushed (ImportIsPinned).
SiteFollowsBranch ==
  LET n == Len(branch) IN
  /\ ImportIsPinned
  /\ pipe[n] = "succeeded" /\ ~PublicationPending /\ live # Manual
       => import[live].upload = Tip

\* A node job that was queued before the connection changed can no longer
\* start, and it holds the project's queue until a member cancels it.
Fenced == kind = "node" /\ \E n \in Pushes : /\ "queued" \in {build[n], pub[n]}
                                             /\ ~JobAuthorized(n)

\* What a pipeline may be left waiting for: the branch, its owner or the
\* subscription to come back, or a member to cancel a fenced job.
Waiting == Tip = Gone \/ ~owner \/ ~hosting \/ Fenced

\* Every stored push is settled, every import ends, and so does every
\* pipeline, although processes stop, leases are lost and the connection
\* changes (WorkGitHubPush, WorkGitHubImport, WorkGitHubPipeline).
GitHubSettles ==
  []<>(/\ \A n \in Pushes : event[n].state \notin {"pending", "running"}
       /\ PendingImports = {}
       /\ \A n \in Pushes : pipe[n] \in Active => Waiting)
=============================================================================
