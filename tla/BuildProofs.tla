---------------------------- MODULE BuildProofs -----------------------------
(***************************************************************************)
(* Proofs about NodeBuild and ContainerBuild, for every set of builds,     *)
(* workers and executions and every number of power losses.                *)
(***************************************************************************)
EXTENDS NodeBuild, ContainerBuild, TLAPS

-----------------------------------------------------------------------------
(* NodeBuild: the inductive invariant.                                     *)

\* A submission is made once, after the intent.
SubmissionInv ==
  /\ \A b \in Builds : Live(b) \/ exec[b] # "none" => job[b].intent = "yes"
  /\ \A b \in wire : exec[b] = "none"
  /\ \A b \in Builds : job[b].intent = "yes" => job[b].state \notin {"none", "queued"}

\* Builds are made one after the other, and one is concluded only from the
\* evidence that its execution is retired, which a worker may carry for long.
QueueInv ==
  /\ \A b, c \in Builds : Pending(b) /\ Pending(c) => b = c
  /\ \A b \in Builds : Live(b) => job[b].state = "running"
  /\ \A w \in Workers : worker[w].pc \in {"retain", "conclude"} => exec[worker[w].build] \in Retired

BuildInv == TypeOK /\ SubmissionInv /\ QueueInv

-----------------------------------------------------------------------------
(* ContainerBuild: the inductive invariant.                                *)

\* Where a call is says what it has done: an execution is started once, from
\* its new record, and only what failed or was exported is cleaned up.
CallInv ==
  \A x \in Executions :
    /\ At(x, "start") => record[x].state = "submitted" /\ container[x] = "absent"
    /\ At(x, "killed") => record[x].state = "submitted" /\ Exited(x)
    /\ At(x, "exported") => record[x].state = "succeeded" /\ x \in archive
    /\ At(x, "cleanup") \/ At(x, "cleaned") =>
         record[x].state = "failed" \/ (record[x].state = "succeeded" /\ record[x].artifact = "yes")

\* There is no container before the record, an artifact that is recorded is
\* there, and a container has its output mounted until power is lost.
OutputInv ==
  \A x \in Executions :
    /\ record[x].state = "none" => container[x] = "absent"
    /\ record[x].artifact = "yes" => x \in archive
    /\ reboots = 0 /\ record[x].state = "submitted" /\ container[x] # "absent" => Readable(x)

ControlInv == ControlTypeOK /\ CallInv /\ OutputInv /\ OutputSurvivesStops

-----------------------------------------------------------------------------
(* NodeBuild: every step preserves the invariant.                          *)

LEMMA InitInv == Init => BuildInv
BY DEF Init, ExecInit, BuildInv, TypeOK, ExecTypeOK, SubmissionInv, QueueInv, Job, Flag, Worker,
       Resting, Live, Pending

LEMMA StutterInv == BuildInv /\ UNCHANGED vars => BuildInv'
BY DEF BuildInv, TypeOK, ExecTypeOK, SubmissionInv, QueueInv, Live, Pending, vars, portalVars

\* The releases, the access and the wish to delete the project are apart.
LEMMA SurroundingsInv ==
  ASSUME BuildInv, DeleteProject \/ AccessChanges \/ \E b \in Builds : DeleteNodeRelease(b)
  PROVE  BuildInv'
BY DEF DeleteProject, AccessChanges, DeleteNodeRelease, BuildInv, TypeOK, ExecTypeOK, SubmissionInv,
       QueueInv, Live, Pending, Flag

\* What is recorded of one build, and the project's other rows, while the
\* workers and the executor stand still.
LEMMA JobChanges ==
  ASSUME BuildInv, NEW b \in Builds, NEW j \in Job, job' = [job EXCEPT ![b] = j],
         j.intent = job[b].intent,
         j.intent = "yes" => j.state \notin {"none", "queued"},
         j.state \in {"queued", "running"} => Pending(b) \/ ~\E c \in Builds : Pending(c),
         Live(b) => j.state = "running",
         UNCHANGED <<wire, worker, access, deleting, exec>>, releases' \subseteq Builds
  PROVE  BuildInv'
<1> USE DEF BuildInv
<1>1. job'[b] = j /\ \A c \in Builds \ {b} : job'[c] = job[c]
  BY DEF TypeOK
<1>2. TypeOK'
  BY DEF TypeOK, ExecTypeOK
<1>3. \A c \in Builds : Live(c)' <=> Live(c)
  BY DEF Live
<1>4. SubmissionInv'
  BY <1>1, <1>3 DEF SubmissionInv
<1>5. \A c, e \in Builds : Pending(c)' /\ Pending(e)' => c = e
  BY <1>1 DEF QueueInv, Pending
<1>6. QueueInv'
  BY <1>1, <1>3, <1>5 DEF QueueInv
<1> QED
  BY <1>2, <1>4, <1>6

LEMMA RowInJob ==
  ASSUME TypeOK, NEW b \in Builds,
         NEW s \in {"none", "queued", "running", "succeeded", "failed", "cancelled"},
         NEW l \in {"none", "held", "expired"}
  PROVE  \E j \in Job : /\ Moved(b, s, l) = [job EXCEPT ![b] = j]
                        /\ j.state = s /\ j.intent = job[b].intent
<1> DEFINE j == [state |-> s, lease |-> l, bundle |-> job[b].bundle, intent |-> job[b].intent]
<1>1. j \in Job
  BY DEF TypeOK, Job
<1>2. Moved(b, s, l) = [job EXCEPT ![b] = j]
  BY DEF Moved, TypeOK
<1>3. j.state = s /\ j.intent = job[b].intent
  OBVIOUS
<1> HIDE DEF j
<1> QED
  BY <1>1, <1>2, <1>3

\* Requests and cancellations; leases; a preparation that is given up.  None is
\* about a build that was dispatched.
LEMMA PortalInv ==
  ASSUME BuildInv, NEW b \in Builds,
         \/ RequestNodeBuild(b) \/ CancelNodeBuild(b)
         \/ LeaseExpires(b) \/ FailUnsubmittedNodeBuild(b)
  PROVE  BuildInv'
<1> USE DEF BuildInv
<1>1. /\ UNCHANGED <<wire, worker, access, deleting, exec>> /\ releases' \subseteq Builds
  BY DEF RequestNodeBuild, CancelNodeBuild, LeaseExpires, FailUnsubmittedNodeBuild, TypeOK
<1>2. job[b] \in Job
  BY DEF TypeOK
<1>3. job[b].intent # "yes" => ~Live(b)
  BY DEF SubmissionInv
<1>4. job[b].state \in {"none", "queued"} => job[b].intent # "yes"
  BY DEF SubmissionInv
<1>5. CASE RequestNodeBuild(b) \/ CancelNodeBuild(b)
  <2>1. PICK s \in {"queued", "cancelled"} :
          /\ job' = [job EXCEPT ![b] = [@ EXCEPT !.state = s]]
          /\ s = "queued" => ~\E c \in Builds : Pending(c)
          /\ job[b].state \in {"none", "queued"}
    BY <1>5 DEF RequestNodeBuild, CancelNodeBuild
  <2> DEFINE j == [job[b] EXCEPT !.state = s]
  <2>2. j \in Job /\ j.state = s /\ j.intent = job[b].intent
    BY <1>2 DEF Job
  <2>3. job' = [job EXCEPT ![b] = j]
    BY <2>1
  <2> HIDE DEF j
  <2> QED
    BY <1>1, <1>3, <1>4, <2>1, <2>2, <2>3, JobChanges
<1>6. CASE LeaseExpires(b)
  <2> DEFINE j == [job[b] EXCEPT !.lease = "expired"]
  <2>1. j \in Job /\ j.state = job[b].state /\ j.intent = job[b].intent
    BY <1>2 DEF Job
  <2>2. job' = [job EXCEPT ![b] = j]
    BY <1>6 DEF LeaseExpires
  <2> HIDE DEF j
  <2> QED
    BY <1>1, <2>1, <2>2, JobChanges DEF SubmissionInv, QueueInv, Pending
<1>7. CASE FailUnsubmittedNodeBuild(b)
  <2>1. job[b].intent = "no" /\ job' = Moved(b, "failed", "none")
    BY <1>7 DEF FailUnsubmittedNodeBuild
  <2>2. PICK j \in Job : /\ Moved(b, "failed", "none") = [job EXCEPT ![b] = j]
                         /\ j.state = "failed" /\ j.intent = job[b].intent
    BY RowInJob
  <2> QED
    BY <1>1, <1>3, <2>1, <2>2, JobChanges
<1> QED
  BY <1>5, <1>6, <1>7

\* A worker moves; what it carries to the end is evidence.
LEMMA WorkerMoves ==
  ASSUME BuildInv, NEW w \in Workers, NEW x \in Worker, x.build = NoBuild <=> x.pc = "idle",
         x.pc \in {"retain", "conclude"} => exec[x.build] \in Retired,
         worker' = [worker EXCEPT ![w] = x],
         UNCHANGED <<job, releases, wire, access, deleting, exec>>
  PROVE  BuildInv'
<1> USE DEF BuildInv
<1>1. worker'[w] = x /\ \A v \in Workers \ {w} : worker'[v] = worker[v]
  BY DEF TypeOK
<1>2. TypeOK'
  BY <1>1 DEF TypeOK, ExecTypeOK
<1> QED
  BY <1>1, <1>2 DEF SubmissionInv, QueueInv, Live, Pending

LEMMA RestingIsIdle == Resting \in Worker /\ Resting.build = NoBuild /\ Resting.pc = "idle"
BY DEF Resting, Worker

LEMMA RestsInv ==
  ASSUME BuildInv, NEW w \in Workers, worker' = [worker EXCEPT ![w] = Resting],
         UNCHANGED <<job, releases, wire, access, deleting, exec>>
  PROVE  BuildInv'
BY RestingIsIdle, WorkerMoves

LEMMA StepsOn ==
  ASSUME TypeOK, NEW w \in Workers, worker[w].pc # "idle",
         NEW p \in {"prepare", "dispatch", "await", "inspect", "artifact", "retain", "recheck",
                    "conclude"}
  PROVE  LET x == [worker[w] EXCEPT !.pc = p] IN
         /\ worker[w].build \in Builds
         /\ x \in Worker /\ x.pc = p /\ x.build = worker[w].build /\ x.build # NoBuild
<1>1. worker[w] \in Worker
  BY DEF TypeOK
<1>2. worker[w].build \in Builds /\ worker[w].build # NoBuild
  BY <1>1 DEF TypeOK, Worker
<1> QED
  BY <1>1, <1>2 DEF Worker

\* Steps that only move the worker.
LEMMA LooksInv ==
  ASSUME BuildInv, NEW w \in Workers,
         \/ PreparationRefused(w) \/ SubmissionFails(w) \/ RetainRefused(w) \/ GiveUp(w)
         \/ InspectNodeExecution(w) \/ ReadNodeArtifact(w) \/ RecheckFailure(w)
  PROVE  BuildInv'
<1> USE DEF BuildInv
<1>1. UNCHANGED <<job, releases, wire, access, deleting, exec>>
  BY DEF PreparationRefused, SubmissionFails, RetainRefused, GiveUp, InspectNodeExecution,
         ReadNodeArtifact, RecheckFailure
<1>2. CASE worker' = [worker EXCEPT ![w] = Resting]
  BY <1>1, <1>2, RestsInv
<1>3. ASSUME NEW p \in {"artifact", "retain", "recheck", "conclude"}, worker[w].pc # "idle",
             p \in {"retain", "conclude"} => exec[worker[w].build] \in Retired,
             worker' = [worker EXCEPT ![w] = [@ EXCEPT !.pc = p]]
      PROVE  BuildInv'
  <2> DEFINE x == [worker[w] EXCEPT !.pc = p]
  <2>1. x \in Worker /\ x.pc = p /\ x.build = worker[w].build /\ x.build # NoBuild
    <3>1. p \in {"prepare", "dispatch", "await", "inspect", "artifact", "retain", "recheck",
                 "conclude"}
      BY <1>3
    <3>2. TypeOK /\ worker[w].pc # "idle"
      BY <1>3
    <3> HIDE DEF BuildInv
    <3> QED
      BY <3>1, <3>2, StepsOn
  <2>2. worker' = [worker EXCEPT ![w] = x]
    BY <1>3
  <2> HIDE DEF x
  <2> QED
    BY <1>1, <1>3, <2>1, <2>2, WorkerMoves
<1>4. CASE InspectNodeExecution(w)
  <2>1. worker[w].pc = "inspect"
    BY <1>4 DEF InspectNodeExecution
  <2>2. \/ worker' = [worker EXCEPT ![w] = [@ EXCEPT !.pc = "artifact"]]
        \/ worker' = [worker EXCEPT ![w] = [@ EXCEPT !.pc = "recheck"]]
        \/ worker' = [worker EXCEPT ![w] = Resting]
    BY <1>4 DEF InspectNodeExecution
  <2> QED
    BY <1>2, <1>3, <2>1, <2>2
<1>5. CASE ReadNodeArtifact(w)
  <2>1. worker[w].pc = "artifact"
    BY <1>5 DEF ReadNodeArtifact
  <2>2. \/ /\ worker' = [worker EXCEPT ![w] = [@ EXCEPT !.pc = "retain"]]
           /\ exec[worker[w].build] = "succeeded"
        \/ worker' = [worker EXCEPT ![w] = Resting]
    BY <1>5 DEF ReadNodeArtifact
  <2> QED
    BY <1>2, <1>3, <2>1, <2>2 DEF Retired
<1>6. CASE RecheckFailure(w)
  <2>1. worker[w].pc = "recheck"
    BY <1>6 DEF RecheckFailure
  <2>2. \/ /\ worker' = [worker EXCEPT ![w] = [@ EXCEPT !.pc = "conclude"]]
           /\ exec[worker[w].build] = "failed"
        \/ worker' = [worker EXCEPT ![w] = Resting]
    BY <1>6 DEF RecheckFailure
  <2> QED
    BY <1>2, <1>3, <2>1, <2>2 DEF Retired
<1> QED
  BY <1>2, <1>4, <1>5, <1>6 DEF PreparationRefused, SubmissionFails, RetainRefused, GiveUp

LEMMA ObserveInv ==
  ASSUME BuildInv, NEW w \in Workers, NEW b \in Builds, ObserveNodeBuild(w, b)
  PROVE  BuildInv'
<1> DEFINE x == [pc |-> "inspect", build |-> b, lease |-> job[b].lease]
<1>1. x \in Worker /\ x.pc = "inspect" /\ x.build = b /\ b # NoBuild
  BY BuildAssumption DEF Worker, BuildInv, TypeOK, Job
<1>2. /\ UNCHANGED <<job, releases, wire, access, deleting, exec>>
      /\ worker' = [worker EXCEPT ![w] = x]
  BY DEF ObserveNodeBuild
<1> HIDE DEF x
<1> QED
  BY <1>1, <1>2, WorkerMoves

\* Steps of a worker that change the build it works on.
LEMMA WorkChanges ==
  ASSUME BuildInv, NEW b \in Builds, NEW j \in Job, job' = [job EXCEPT ![b] = j],
         j.intent = "yes" => j.state \notin {"none", "queued"},
         job[b].intent = "yes" => j.intent = "yes",
         j.state \in {"queued", "running"} => Pending(b),
         Live(b) => j.state = "running",
         wire' = wire \/ (/\ wire' = wire \cup {b} /\ exec[b] = "none"
                          /\ j.intent = "yes" /\ j.state = "running"),
         NEW w \in Workers, NEW x \in Worker, x.build = NoBuild <=> x.pc = "idle",
         x.pc \notin {"retain", "conclude"},
         worker' = [worker EXCEPT ![w] = x],
         UNCHANGED <<access, deleting, exec>>, releases' \subseteq Builds
  PROVE  BuildInv'
<1> USE DEF BuildInv
<1>1. job'[b] = j /\ \A c \in Builds \ {b} : job'[c] = job[c]
  BY DEF TypeOK
<1>2. worker'[w] = x /\ \A v \in Workers \ {w} : worker'[v] = worker[v]
  BY DEF TypeOK
<1>3. TypeOK'
  BY <1>2 DEF TypeOK, ExecTypeOK
<1>4. \A c \in Builds : Live(c)' => Live(c) \/ (c = b /\ j.intent = "yes" /\ j.state = "running")
  BY DEF Live
<1>5. SubmissionInv'
  BY <1>1, <1>4 DEF SubmissionInv
<1>6. \A c, e \in Builds : Pending(c)' /\ Pending(e)' => c = e
  BY <1>1 DEF QueueInv, Pending
<1>7. QueueInv'
  BY <1>1, <1>2, <1>4, <1>6 DEF QueueInv
<1> QED
  BY <1>3, <1>5, <1>7

LEMMA ClaimInv ==
  ASSUME BuildInv, NEW w \in Workers, NEW b \in Builds, ClaimNodeBuild(w, b)
  PROVE  BuildInv'
<1> DEFINE x == [pc |-> "prepare", build |-> b, lease |-> "none"]
<1>1. x \in Worker /\ x.pc = "prepare" /\ x.build = b /\ b # NoBuild
  BY BuildAssumption DEF Worker
<1>2. /\ UNCHANGED <<releases, wire, access, deleting, exec>> /\ releases' \subseteq Builds
      /\ job[b].state = "queued" /\ job' = Moved(b, "running", "held")
      /\ worker' = [worker EXCEPT ![w] = x]
  BY DEF ClaimNodeBuild, BuildInv, TypeOK
<1> HIDE DEF x
<1>3. PICK j \in Job : /\ Moved(b, "running", "held") = [job EXCEPT ![b] = j]
                       /\ j.state = "running" /\ j.intent = job[b].intent
  BY RowInJob DEF BuildInv
<1>4. job' = [job EXCEPT ![b] = j] /\ Pending(b)
  BY <1>2, <1>3 DEF Pending
<1>5. /\ UNCHANGED <<wire, access, deleting, exec>> /\ releases' \subseteq Builds
      /\ x \in Worker /\ x.pc = "prepare" /\ x.build # NoBuild
      /\ worker' = [worker EXCEPT ![w] = x]
  BY <1>1, <1>2
<1>6. j.state = "running" /\ (job[b].intent = "yes" => j.intent = "yes")
  BY <1>3
<1> QED
  BY <1>4, <1>5, <1>6, WorkChanges

LEMMA PrepareInv ==
  ASSUME BuildInv, NEW w \in Workers, BindNodeBuildDependencies(w) \/ DispatchNodeBuild(w)
  PROVE  BuildInv'
<1> DEFINE b == worker[w].build
<1>1. worker[w].pc \in {"prepare", "dispatch"} /\ TypeOK
  BY DEF BindNodeBuildDependencies, DispatchNodeBuild, BuildInv
<1>2. b \in Builds /\ job[b] \in Job
  BY <1>1, StepsOn DEF TypeOK
<1>3. /\ UNCHANGED <<releases, access, deleting, exec>> /\ releases' \subseteq Builds
      /\ job[b].state = "running"
  BY DEF BindNodeBuildDependencies, DispatchNodeBuild, Leased, BuildInv, TypeOK
<1>4. CASE BindNodeBuildDependencies(w)
  <2> DEFINE j == [job[b] EXCEPT !.bundle = "yes"]
             x == [worker[w] EXCEPT !.pc = "dispatch"]
  <2>1. j \in Job /\ j.state = "running" /\ j.intent = job[b].intent
    BY <1>2, <1>3 DEF Job, Flag
  <2>2. x \in Worker /\ x.pc = "dispatch" /\ x.build # NoBuild
    BY <1>1, StepsOn
  <2>3. UNCHANGED wire /\ job' = [job EXCEPT ![b] = j] /\ worker' = [worker EXCEPT ![w] = x]
    BY <1>4 DEF BindNodeBuildDependencies
  <2> HIDE DEF j, x, b
  <2> QED
    BY <1>2, <1>3, <2>1, <2>2, <2>3, WorkChanges DEF Pending
<1>5. CASE DispatchNodeBuild(w)
  <2> DEFINE j == [job[b] EXCEPT !.intent = "yes"]
             x == [worker[w] EXCEPT !.pc = "await"]
  <2>1. j \in Job /\ j.state = "running" /\ j.intent = "yes"
    BY <1>2, <1>3 DEF Job, Flag
  <2>2. x \in Worker /\ x.pc = "await" /\ x.build # NoBuild
    BY <1>1, StepsOn
  <2>3. /\ wire' = wire \cup {b} /\ job[b].intent = "no"
        /\ job' = [job EXCEPT ![b] = j] /\ worker' = [worker EXCEPT ![w] = x]
    BY <1>5 DEF DispatchNodeBuild
  <2>4. exec[b] = "none"
    BY <1>2, <2>3 DEF BuildInv, SubmissionInv
  <2> HIDE DEF j, x, b
  <2> QED
    BY <1>2, <1>3, <2>1, <2>2, <2>3, <2>4, WorkChanges DEF Pending
<1> QED
  BY <1>4, <1>5

\* A build is concluded from evidence that is still true.
LEMMA ConcludeInv ==
  ASSUME BuildInv, NEW w \in Workers, RetainNodeRelease(w) \/ ReconcileNodeBuildFailure(w)
  PROVE  BuildInv'
<1> DEFINE b == worker[w].build
<1>1. worker[w].pc \in {"retain", "conclude"} /\ TypeOK
  BY DEF RetainNodeRelease, ReconcileNodeBuildFailure, BuildInv
<1>2. b \in Builds
  BY <1>1, StepsOn
<1>3. exec[b] \in Retired
  BY <1>1 DEF BuildInv, QueueInv
<1>4. ~Live(b)
  BY <1>2, <1>3 DEF BuildInv, SubmissionInv, Live, Retired
<1>5. /\ UNCHANGED <<wire, access, deleting, exec>> /\ releases' \subseteq Builds
      /\ worker' = [worker EXCEPT ![w] = Resting]
  BY <1>2 DEF RetainNodeRelease, ReconcileNodeBuildFailure, BuildInv, TypeOK
<1>6. \/ UNCHANGED <<job, releases>>
      \/ \E s \in {"succeeded", "cancelled", "failed"} : job' = Moved(b, s, "none")
  BY DEF RetainNodeRelease, ReconcileNodeBuildFailure
<1> HIDE DEF b
<1>7. CASE UNCHANGED <<job, releases>>
  BY <1>5, <1>7, RestsInv
<1>8. ASSUME NEW s \in {"succeeded", "cancelled", "failed"}, job' = Moved(b, s, "none")
      PROVE  BuildInv'
  <2>1. PICK j \in Job : /\ Moved(b, s, "none") = [job EXCEPT ![b] = j]
                         /\ j.state = s /\ j.intent = job[b].intent
    BY <1>1, <1>2, RowInJob
  <2> QED
    BY <1>2, <1>4, <1>5, <1>8, <2>1, RestingIsIdle, WorkChanges
<1> QED
  BY <1>6, <1>7, <1>8

\* The submission and the execution: what is retired stays so.
LEMMA ExecutorInv ==
  ASSUME BuildInv, NEW b \in Builds, Deliver(b) \/ Lose(b) \/ ExecutorStep(b)
  PROVE  BuildInv'
<1> USE DEF BuildInv
<1>1. UNCHANGED <<job, releases, worker, access, deleting>>
  BY DEF Deliver, Lose, ExecutorStep, portalVars
<1>2. /\ wire' \subseteq wire
      /\ ExecTypeOK'
      /\ \A c \in Builds \ {b} : exec'[c] = exec[c]
      /\ exec[b] \in Retired => exec'[b] = exec[b]
      /\ exec'[b] = "none" => exec[b] = "none"
      /\ b \in wire' => exec'[b] = exec[b]
      /\ Live(b)' \/ exec'[b] # "none" => Live(b)  \/ exec[b] # "none"
      /\ Live(b)' => Live(b)
  BY DEF Deliver, Lose, ExecutorStep, Accept, Launch, Retire, ExecTypeOK, TypeOK, Retired, Live,
         portalVars, SubmissionInv
<1>3. TypeOK'
  BY <1>1, <1>2 DEF TypeOK
<1>4. \A c \in Builds : /\ Live(c)' => Live(c)
                        /\ Live(c)' \/ exec'[c] # "none" => Live(c) \/ exec[c] # "none"
                        /\ exec[c] \in Retired => exec'[c] = exec[c]
  BY <1>2 DEF Live
<1>5. SubmissionInv'
  BY <1>1, <1>2, <1>4 DEF SubmissionInv, TypeOK
<1>6. QueueInv'
  <2>1. \A w \in Workers : worker[w].pc \in {"retain", "conclude"} => worker[w].build \in Builds
    BY DEF TypeOK, Worker
  <2> QED
    BY <1>1, <1>4, <2>1 DEF QueueInv, Pending
<1> QED
  BY <1>3, <1>5, <1>6

LEMMA StepInv == BuildInv /\ [Next]_vars => BuildInv'
BY StutterInv, SurroundingsInv, PortalInv, LooksInv, ObserveInv, ClaimInv, PrepareInv, ConcludeInv,
   ExecutorInv
   DEF Next, UserStep, WorkerStep

-----------------------------------------------------------------------------
(* NodeBuild: the theorems.                                                *)

\* The invariant holds whatever the workers, the network, the users and the
\* executor do, in any order.
THEOREM BuildInvariance == Spec => []BuildInv
BY InitInv, StepInv, PTL DEF Spec

\* The variables keep their types (node_builds and the rest of NodeBuild's
\* state).
THEOREM BuildTypeCorrect == Spec => []TypeOK
BY BuildInvariance, PTL DEF BuildInv

\* A project never has two executions that run or may still run, whatever lease
\* expires, answer is lost or submission is late (DispatchNodeBuild,
\* failUnsubmittedNodeBuild, ReconcileNodeBuildFailure).
THEOREM ExecutesOneBuild == Spec => []OneLiveExecution
<1>1. BuildInv => OneLiveExecution
  BY DEF BuildInv, QueueInv, Pending, OneLiveExecution
<1> QED
  BY <1>1, BuildInvariance, PTL

-----------------------------------------------------------------------------
(* ContainerBuild: every step preserves the invariant.  The mutex is in    *)
(* most of the arguments: while a call is at one execution it is at no     *)
(* other.                                                                  *)

LEMMA ControlInitInv == ControlInit => ControlInv
BY ContainerAssumption
   DEF ControlInit, ControlInv, ControlTypeOK, CallInv, OutputInv, OutputSurvivesStops,
       OutputIsRetained, Record, Control, Idle, At, Readable

LEMMA ControlStutterInv == ControlInv /\ UNCHANGED controlVars => ControlInv'
BY DEF ControlInv, ControlTypeOK, CallInv, OutputInv, OutputSurvivesStops, OutputIsRetained,
       At, Exited, Readable, controlVars

\* No call is at an execution.
NoCall == control.on = NoExecution

\* A call ends, the process stops or starts: the files and Docker are left.
LEMMA CallEndsInv ==
  ASSUME ControlInv, control' \in Control, NoCall', draining' \in {"yes", "no"},
         UNCHANGED <<record, archive, output, container, late, reboots>>
  PROVE  ControlInv'
<1>1. \A x \in Executions : \A a : ~At(x, a)'
  BY ContainerAssumption DEF NoCall, At
<1> QED
  BY <1>1 DEF ControlInv, ControlTypeOK, CallInv, OutputInv, OutputSurvivesStops, OutputIsRetained,
              Readable

LEMMA StopsInv ==
  ASSUME ControlInv,
         Shutdown \/ ShutdownEnds \/ ShutdownFails \/ CallFails \/ Crash \/ Restart
  PROVE  ControlInv'
<1>1. control' \in Control /\ NoCall'
  BY DEF Shutdown, ShutdownEnds, ShutdownFails, CallFails, Crash, Restart, GoTo, Idle, Down, Control,
         NoCall
<1>2. draining' \in {"yes", "no"} /\ UNCHANGED <<record, archive, output, container, late, reboots>>
  BY DEF Shutdown, ShutdownEnds, ShutdownFails, CallFails, Crash, Restart, ControlInv, ControlTypeOK
<1> QED
  BY <1>1, <1>2, CallEndsInv

LEMMA PowerInv ==
  ASSUME ControlInv, LosePower
  PROVE  ControlInv'
<1> USE DEF ControlInv, LosePower
<1>1. \A x \in Executions : \A a : ~At(x, a)'
  BY ContainerAssumption DEF Down, At
<1>2. reboots' # 0 /\ reboots' \in 0 .. MaxReboots
  BY ContainerAssumption DEF ControlTypeOK
<1>3. \A x \in Executions : container[x] = "absent" => container'[x] = "absent"
  BY DEF ControlTypeOK
<1>4. ControlTypeOK'
  BY <1>2 DEF ControlTypeOK, Control, Down
<1> QED
  BY <1>1, <1>2, <1>3, <1>4 DEF CallInv, OutputInv, OutputSurvivesStops

\* The deadline of an execution is read by no invariant.
LEMMA DeadlineInv ==
  ASSUME ControlInv, NEW x \in Executions, DeadlinePasses(x)
  PROVE  ControlInv'
BY DEF DeadlinePasses, ControlInv, ControlTypeOK, CallInv, OutputInv, OutputSurvivesStops,
       OutputIsRetained, At, Exited, Readable

\* A container changes that is there: the daemon takes up or drops what it was
\* asked, the guest exits or is killed.
LEMMA ContainerInv ==
  ASSUME ControlInv, NEW x \in Executions,
         DaemonDecides(x) \/ GuestExits(x) \/ ShutdownKills(x) \/ KillLate(x)
  PROVE  ControlInv'
<1> USE DEF ControlInv
<1>1. PICK s \in {"running", "absent", "exit0", "exit1"} :
        /\ container' = [container EXCEPT ![x] = s]
        /\ container[x] = "running" => s \in {"exit0", "exit1"}
        /\ container[x] \in {"asked", "running"}
  BY DEF DaemonDecides, GuestExits, ShutdownKills, KillLate
<1>2. /\ container'[x] = s /\ \A y \in Executions \ {x} : container'[y] = container[y]
      /\ container' \in [Executions -> {"absent", "asked", "running", "exit0", "exit1"}]
  BY <1>1 DEF ControlTypeOK
<1>3. UNCHANGED <<record, archive, output, late, draining, reboots>>
  BY DEF DaemonDecides, GuestExits, ShutdownKills, KillLate
<1>4. \/ UNCHANGED control
      \/ /\ control' = [at |-> "killed", on |-> x] /\ record[x].state = "submitted"
         /\ s \in {"exit0", "exit1"}
  BY <1>1 DEF DaemonDecides, GuestExits, ShutdownKills, KillLate, GoTo
<1>5. ControlTypeOK'
  BY <1>2, <1>3, <1>4 DEF ControlTypeOK, Control
<1>6. CallInv'
  <2>1. CASE UNCHANGED control
    BY <1>1, <1>2, <1>3, <2>1 DEF CallInv, At, Exited
  <2>2. CASE control' = [at |-> "killed", on |-> x] /\ record[x].state = "submitted"
             /\ s \in {"exit0", "exit1"}
    BY <1>2, <1>3, <2>2 DEF CallInv, At, Exited
  <2> QED
    BY <1>4, <2>1, <2>2
<1>7. OutputInv'
  BY <1>1, <1>2, <1>3 DEF OutputInv, Readable
<1>8. OutputSurvivesStops'
  BY <1>3 DEF OutputSurvivesStops, OutputIsRetained, Readable
<1> QED
  BY <1>5, <1>6, <1>7, <1>8

\* The record of one execution is saved.
LEMMA Saved ==
  ASSUME ControlTypeOK, NEW x \in Executions,
         NEW s \in {"none", "submitted", "succeeded", "failed"}, Save(x, s)
  PROVE  /\ record' \in [Executions -> Record]
         /\ record'[x].state = s
         /\ record'[x].artifact = record[x].artifact /\ record'[x].cleaned = record[x].cleaned
         /\ \A y \in Executions \ {x} : record'[y] = record[y]
<1>1. record[x] \in Record
  BY DEF ControlTypeOK
<1>2. /\ [record[x] EXCEPT !.state = s] \in Record
      /\ [record[x] EXCEPT !.state = s].state = s
      /\ [record[x] EXCEPT !.state = s].artifact = record[x].artifact
      /\ [record[x] EXCEPT !.state = s].cleaned = record[x].cleaned
  BY <1>1 DEF Record
<1> DEFINE r == [record[x] EXCEPT !.state = s]
<1>3. record' = [record EXCEPT ![x] = r]
  BY DEF Save
<1>4. r \in Record /\ r.state = s /\ r.artifact = record[x].artifact /\ r.cleaned = record[x].cleaned
  BY <1>2
<1> HIDE DEF r
<1> QED
  BY <1>3, <1>4 DEF ControlTypeOK

LEMMA SubmitInv ==
  ASSUME ControlInv, NEW x \in Executions, Submit(x)
  PROVE  ControlInv'
<1> USE DEF ControlInv
<1>1. /\ record[x].state = "none" /\ Save(x, "submitted")
      /\ control' = [at |-> "start", on |-> x]
      /\ UNCHANGED <<archive, output, container, late, draining, reboots>>
  BY DEF Submit, GoTo
<1>2. /\ record' \in [Executions -> Record]
      /\ record'[x].state = "submitted" /\ record'[x].artifact = record[x].artifact
      /\ \A y \in Executions \ {x} : record'[y] = record[y]
  BY <1>1, Saved
<1>3. container[x] = "absent"
  BY <1>1 DEF OutputInv
<1>4. ControlTypeOK'
  BY <1>1, <1>2 DEF ControlTypeOK, Control
<1>5. CallInv'
  BY <1>1, <1>2, <1>3 DEF CallInv, At
<1>6. OutputInv'
  BY <1>1, <1>2, <1>3 DEF OutputInv, Readable
<1>7. OutputSurvivesStops'
  BY <1>1, <1>2 DEF OutputSurvivesStops, OutputIsRetained, Readable
<1> QED
  BY <1>4, <1>5, <1>6, <1>7

\* The container is started, or asked for, with its output mounted.
LEMMA StartInv ==
  ASSUME ControlInv, NEW x \in Executions, Start(x) \/ StartFails(x)
  PROVE  ControlInv'
<1> USE DEF ControlInv
<1>1. /\ At(x, "start") /\ control' = Idle
      /\ UNCHANGED <<record, archive, late, draining, reboots>>
  BY DEF Start, StartFails
<1>2. record[x].state = "submitted" /\ container[x] = "absent"
  BY <1>1 DEF CallInv
<1>3. PICK m \in {"none", "mounted", "unmounted"}, c \in {"absent", "asked", "running"} :
        /\ output' = [output EXCEPT ![x] = m] /\ container' = [container EXCEPT ![x] = c]
        /\ c # "absent" => m = "mounted"
        /\ m \in {output[x], "mounted"}
  <2>1. CASE UNCHANGED <<output, container>>
    BY <1>2, <2>1 DEF ControlTypeOK
  <2>2. CASE /\ output' = [output EXCEPT ![x] = "mounted"]
             /\ container' \in {container, [container EXCEPT ![x] = "asked"],
                                [container EXCEPT ![x] = "running"]}
    BY <1>2, <2>2 DEF ControlTypeOK
  <2> QED
    BY <2>1, <2>2 DEF Start, StartFails
<1>4. /\ output'[x] = m /\ container'[x] = c
      /\ \A y \in Executions \ {x} : output'[y] = output[y] /\ container'[y] = container[y]
      /\ output' \in [Executions -> {"none", "mounted", "unmounted"}]
      /\ container' \in [Executions -> {"absent", "asked", "running", "exit0", "exit1"}]
  BY <1>3 DEF ControlTypeOK
<1>5. \A y \in Executions : \A a : ~At(y, a)'
  BY <1>1, ContainerAssumption DEF At, Idle
<1>6. ControlTypeOK'
  BY <1>1, <1>4 DEF ControlTypeOK, Control, Idle
<1>7. OutputInv'
  BY <1>1, <1>2, <1>3, <1>4 DEF OutputInv, Readable
<1>8. OutputSurvivesStops'
  BY <1>1, <1>2, <1>4 DEF OutputSurvivesStops, OutputIsRetained, Readable
<1> QED
  BY <1>5, <1>6, <1>7, <1>8 DEF CallInv

\* An execution is retired: its container has stopped, and if it succeeded its
\* output is there.
LEMMA RetireInv ==
  ASSUME ControlInv, NEW x \in Executions,
         RetireExited(x) \/ RetireKilled(x) \/ ShutdownRetires(x)
  PROVE  ControlInv'
<1> USE DEF ControlInv
<1>1. PICK s \in {"succeeded", "failed"} :
        /\ record[x].state = "submitted" /\ Exited(x) /\ Save(x, s)
        /\ \/ UNCHANGED control /\ control.on = NoExecution
           \/ control' = [at |-> "cleanup", on |-> x] /\ s = "failed"
  BY ContainerAssumption
     DEF RetireExited, RetireKilled, ShutdownRetires, Outcome, CallInv, At, Idle, GoTo
<1>2. UNCHANGED <<archive, output, container, late, draining, reboots>>
  BY DEF RetireExited, RetireKilled, ShutdownRetires
<1>3. /\ record' \in [Executions -> Record]
      /\ record'[x].state = s /\ record'[x].artifact = record[x].artifact
      /\ \A y \in Executions \ {x} : record'[y] = record[y]
  BY <1>1, Saved
<1>4. ControlTypeOK'
  BY <1>1, <1>2, <1>3 DEF ControlTypeOK, Control
<1>5. CallInv'
  <2>1. CASE UNCHANGED control /\ control.on = NoExecution
    BY <2>1, ContainerAssumption DEF CallInv, At
  <2>2. CASE control' = [at |-> "cleanup", on |-> x] /\ s = "failed"
    BY <1>3, <2>2 DEF CallInv, At
  <2> QED
    BY <1>1, <2>1, <2>2
<1>6. OutputInv'
  BY <1>2, <1>3 DEF OutputInv, Readable
<1>7. OutputSurvivesStops'
  <2>1. reboots = 0 => Readable(x)
    BY <1>1 DEF OutputInv, Exited
  <2>2. record[x].artifact = "yes" => x \in archive
    BY DEF OutputInv
  <2> QED
    BY <1>2, <1>3, <2>1, <2>2 DEF OutputSurvivesStops, OutputIsRetained, Readable
<1> QED
  BY <1>4, <1>5, <1>6, <1>7

\* What failed, or was exported, is cleaned up.
LEMMA CleanupInv ==
  ASSUME ControlInv, NEW x \in Executions,
         InspectUncleaned(x) \/ Cleanup(x) \/ CleanupFails(x)
  PROVE  ControlInv'
<1> USE DEF ControlInv
<1>1. UNCHANGED <<record, archive, late, draining, reboots>>
  BY DEF InspectUncleaned, Cleanup, CleanupFails
<1>2. record[x].state = "failed" \/ (record[x].state = "succeeded" /\ record[x].artifact = "yes")
  BY DEF InspectUncleaned, Cleanup, CleanupFails, CallInv
<1>3. /\ control' \in {Idle, [at |-> "cleanup", on |-> x], [at |-> "cleaned", on |-> x]}
      /\ control' \in Control
  BY DEF InspectUncleaned, Cleanup, CleanupFails, GoTo, Idle, Control
<1>4. /\ container' \in [Executions -> {"absent", "asked", "running", "exit0", "exit1"}]
      /\ output' \in [Executions -> {"none", "mounted", "unmounted"}]
      /\ \A y \in Executions \ {x} : container'[y] = container[y] /\ output'[y] = output[y]
  BY DEF InspectUncleaned, Cleanup, CleanupFails, ControlTypeOK
<1>5. ControlTypeOK'
  BY <1>1, <1>3, <1>4 DEF ControlTypeOK
<1>6. CallInv'
  BY <1>1, <1>2, <1>3, ContainerAssumption DEF CallInv, At, Idle
<1>7. OutputInv'
  BY <1>1, <1>2, <1>4 DEF OutputInv, Readable
<1>8. OutputSurvivesStops'
  BY <1>1, <1>2, <1>4 DEF OutputInv, OutputSurvivesStops, OutputIsRetained, Readable
<1> QED
  BY <1>5, <1>6, <1>7, <1>8

\* The artifact file is there before the record names it.
LEMMA ArtifactInv ==
  ASSUME ControlInv, NEW x \in Executions,
         ExportArtifact(x) \/ SaveArtifact(x) \/ SaveCleaned(x)
  PROVE  ControlInv'
<1> USE DEF ControlInv
<1>1. UNCHANGED <<output, container, late, draining, reboots>>
  BY DEF ExportArtifact, SaveArtifact, SaveCleaned
<1>2. record[x] \in Record /\ record \in [Executions -> Record]
  BY DEF ControlTypeOK
<1>3. CASE ExportArtifact(x)
  <2>1. /\ UNCHANGED record /\ archive' = archive \cup {x} /\ record[x].state = "succeeded"
        /\ control' = [at |-> "exported", on |-> x]
    BY <1>3 DEF ExportArtifact, GoTo
  <2>2. ControlTypeOK'
    BY <1>1, <2>1 DEF ControlTypeOK, Control
  <2>3. CallInv'
    BY <2>1 DEF CallInv, At
  <2> QED
    BY <1>1, <2>1, <2>2, <2>3 DEF OutputInv, OutputSurvivesStops, OutputIsRetained, Readable
<1>4. CASE SaveArtifact(x)
  <2> DEFINE r == [record[x] EXCEPT !.artifact = "yes"]
  <2>1. /\ UNCHANGED archive /\ record[x].state = "succeeded" /\ x \in archive
        /\ record' = [record EXCEPT ![x] = r]
        /\ control' = [at |-> "cleanup", on |-> x]
    BY <1>4 DEF SaveArtifact, CallInv, GoTo
  <2>2. r \in Record /\ r.state = record[x].state /\ r.artifact = "yes"
    BY <1>2 DEF Record
  <2> HIDE DEF r
  <2>3. /\ record' \in [Executions -> Record] /\ record'[x] = r
        /\ \A y \in Executions \ {x} : record'[y] = record[y]
    BY <1>2, <2>1, <2>2
  <2>4. ControlTypeOK'
    BY <1>1, <2>1, <2>3 DEF ControlTypeOK, Control
  <2>5. CallInv'
    BY <2>1, <2>2, <2>3 DEF CallInv, At
  <2>6. OutputInv'
    BY <1>1, <2>1, <2>2, <2>3 DEF OutputInv, Readable
  <2>7. OutputSurvivesStops'
    BY <1>1, <2>1, <2>2, <2>3 DEF OutputSurvivesStops, OutputIsRetained, Readable
  <2> QED
    BY <2>4, <2>5, <2>6, <2>7
<1>5. CASE SaveCleaned(x)
  <2> DEFINE r == [record[x] EXCEPT !.cleaned = "yes"]
  <2>1. /\ UNCHANGED archive /\ record' = [record EXCEPT ![x] = r] /\ control' = Idle
    BY <1>5 DEF SaveCleaned
  <2>2. r \in Record /\ r.state = record[x].state /\ r.artifact = record[x].artifact
    BY <1>2 DEF Record
  <2> HIDE DEF r
  <2>3. /\ record' \in [Executions -> Record]
        /\ \A y \in Executions : /\ record'[y].state = record[y].state
                                 /\ record'[y].artifact = record[y].artifact
    BY <1>2, <2>1, <2>2
  <2>4. ControlTypeOK'
    BY <1>1, <2>1, <2>3 DEF ControlTypeOK, Control, Idle
  <2>5. \A y \in Executions : \A a : ~At(y, a)'
    BY <2>1, ContainerAssumption DEF At, Idle
  <2>6. OutputInv'
    BY <1>1, <2>1, <2>3 DEF OutputInv, Readable
  <2>7. OutputSurvivesStops'
    BY <1>1, <2>1, <2>3 DEF OutputSurvivesStops, OutputIsRetained, Readable
  <2> QED
    BY <2>4, <2>5, <2>6, <2>7 DEF CallInv
<1> QED
  BY <1>3, <1>4, <1>5

LEMMA ControlStepInv == ControlInv /\ [ControlNext]_controlVars => ControlInv'
BY ControlStutterInv, StopsInv, PowerInv, DeadlineInv, ContainerInv, SubmitInv, StartInv, RetireInv,
   CleanupInv, ArtifactInv
   DEF ControlNext, Inspect, CallStep

-----------------------------------------------------------------------------
(* ContainerBuild: a step on one execution is a step of the contract.      *)

\* The promise is kept for the executions a step does not touch.
LEMMA PromiseOfOne ==
  ASSUME NEW x \in Executions, NEW e,
         \A y \in Executions \ {x} : record'[y].state = record[y].state /\ container'[y] = container[y],
         execution'[x] = e
  PROVE  execution' = [execution EXCEPT ![x] = e]
<1>1. \A y \in Executions \ {x} : execution'[y] = execution[y]
  BY DEF execution
<1>2. /\ execution = [y \in Executions |-> execution[y]]
      /\ execution' = [y \in Executions |-> execution'[y]]
  BY DEF execution
<1> QED
  BY <1>1, <1>2

\* A step that launches, retires or accepts nothing keeps every promise.
LEMMA PromisesKept ==
  ASSUME \A x \in Executions :
           /\ record'[x].state = record[x].state
           /\ record[x].state = "submitted" =>
                (container'[x] \in {"absent", "asked"} <=> container[x] \in {"absent", "asked"})
  PROVE  UNCHANGED execution
BY DEF execution

LEMMA ContractStep ==
  ControlInv /\ [ControlNext]_controlVars => [Contract!ExecNext]_execution
<1> SUFFICES ASSUME ControlInv, [ControlNext]_controlVars
             PROVE  [Contract!ExecNext]_execution
  OBVIOUS
<1> USE DEF ControlInv
<1>1. CASE UNCHANGED controlVars
  BY <1>1, PromisesKept DEF controlVars
<1>2. CASE Shutdown \/ ShutdownEnds \/ ShutdownFails \/ CallFails \/ Crash \/ Restart
  BY <1>2, PromisesKept DEF Shutdown, ShutdownEnds, ShutdownFails, CallFails, Crash, Restart
<1>3. CASE LosePower
  <2>1. \A x \in Executions :
          container'[x] \in {"absent", "asked"} <=> container[x] \in {"absent", "asked"}
    BY <1>3 DEF LosePower
  <2> QED
    BY <1>3, <2>1, PromisesKept DEF LosePower
<1>4. ASSUME NEW x \in Executions, Submit(x)
      PROVE  Contract!Accept(x)
  <2>1. /\ \A y \in Executions \ {x} : record'[y] = record[y]
        /\ record[x].state = "none" /\ record'[x].state = "submitted"
    BY <1>4, Saved DEF Submit
  <2>2. UNCHANGED container /\ container[x] = "absent"
    BY <1>4, <2>1 DEF Submit, OutputInv
  <2>3. execution[x] = "none" /\ execution'[x] = "accepted"
    BY <2>1, <2>2 DEF execution
  <2> QED
    BY <2>1, <2>2, <2>3, PromiseOfOne DEF Contract!Accept
<1>5. ASSUME NEW x \in Executions, Start(x) \/ StartFails(x)
      PROVE  Contract!Launch(x) \/ UNCHANGED execution
  <2>1. UNCHANGED record /\ record[x].state = "submitted" /\ container[x] = "absent"
    BY <1>5 DEF Start, StartFails, CallInv
  <2>2. \/ container' = [container EXCEPT ![x] = "running"]
        \/ container' = [container EXCEPT ![x] = "asked"]
        \/ UNCHANGED container
    BY <1>5 DEF Start, StartFails
  <2>3. CASE container' = [container EXCEPT ![x] = "running"]
    <3>1. container'[x] = "running" /\ \A y \in Executions \ {x} : container'[y] = container[y]
      BY <2>3 DEF ControlTypeOK
    <3>2. execution[x] = "accepted" /\ execution'[x] = "running"
      BY <2>1, <3>1 DEF execution
    <3> QED
      BY <2>1, <3>1, <3>2, PromiseOfOne DEF Contract!Launch
  <2>4. CASE container' = [container EXCEPT ![x] = "asked"] \/ UNCHANGED container
    <3>1. \A y \in Executions :
            container'[y] \in {"absent", "asked"} <=> container[y] \in {"absent", "asked"}
      BY <2>1, <2>4 DEF ControlTypeOK
    <3> QED
      BY <2>1, <3>1, PromisesKept
  <2> QED
    BY <2>2, <2>3, <2>4
<1>6. ASSUME NEW x \in Executions, DaemonDecides(x)
      PROVE  Contract!Launch(x) \/ UNCHANGED execution
  <2>1. /\ UNCHANGED record /\ container[x] = "asked"
        /\ \/ container' = [container EXCEPT ![x] = "running"]
           \/ container' = [container EXCEPT ![x] = "absent"]
    BY <1>6 DEF DaemonDecides
  <2>2. /\ container'[x] \in {"running", "absent"}
        /\ \A y \in Executions \ {x} : container'[y] = container[y]
    BY <2>1 DEF ControlTypeOK
  <2>3. CASE record[x].state = "submitted" /\ container'[x] = "running"
    <3>1. execution[x] = "accepted" /\ execution'[x] = "running"
      BY <2>1, <2>3 DEF execution
    <3> QED
      BY <2>1, <2>2, <3>1, PromiseOfOne DEF Contract!Launch
  <2>4. CASE ~(record[x].state = "submitted" /\ container'[x] = "running")
    BY <2>1, <2>2, <2>4, PromisesKept
  <2> QED
    BY <2>3, <2>4
<1>7. ASSUME NEW x \in Executions, GuestExits(x) \/ ShutdownKills(x) \/ KillLate(x)
      PROVE  UNCHANGED execution
  <2>1. /\ UNCHANGED record /\ container[x] = "running"
        /\ \/ container' = [container EXCEPT ![x] = "exit0"]
           \/ container' = [container EXCEPT ![x] = "exit1"]
    BY <1>7 DEF GuestExits, ShutdownKills, KillLate
  <2>2. \A y \in Executions :
          container'[y] \in {"absent", "asked"} <=> container[y] \in {"absent", "asked"}
    BY <2>1 DEF ControlTypeOK
  <2> QED
    BY <2>1, <2>2, PromisesKept
<1>8. ASSUME NEW x \in Executions, RetireExited(x) \/ RetireKilled(x) \/ ShutdownRetires(x)
      PROVE  Contract!Retire(x)
  <2>1. PICK s \in {"succeeded", "failed"} :
          record[x].state = "submitted" /\ Exited(x) /\ Save(x, s)
    BY <1>8 DEF RetireExited, RetireKilled, ShutdownRetires, Outcome, CallInv
  <2>2. record'[x].state = s /\ \A y \in Executions \ {x} : record'[y] = record[y]
    BY <2>1, Saved
  <2>3. UNCHANGED container
    BY <1>8 DEF RetireExited, RetireKilled, ShutdownRetires
  <2>4. execution[x] = "running" /\ execution'[x] = s
    BY <2>1, <2>2, <2>3 DEF execution, Exited
  <2>5. execution' = [execution EXCEPT ![x] = s]
    BY <2>2, <2>3, <2>4, PromiseOfOne
  <2> QED
    BY <2>4, <2>5 DEF Contract!Retire, Contract!Retired
<1>9. ASSUME NEW x \in Executions, InspectUncleaned(x) \/ Cleanup(x) \/ CleanupFails(x)
      PROVE  UNCHANGED execution
  <2>1. UNCHANGED record /\ record[x].state # "submitted"
    BY <1>9 DEF InspectUncleaned, Cleanup, CleanupFails, CallInv
  <2>2. \A y \in Executions \ {x} : container'[y] = container[y]
    BY <1>9 DEF InspectUncleaned, Cleanup, CleanupFails, ControlTypeOK
  <2> QED
    BY <2>1, <2>2, PromisesKept
<1>10. ASSUME NEW x \in Executions,
              ExportArtifact(x) \/ SaveArtifact(x) \/ SaveCleaned(x) \/ DeadlinePasses(x)
       PROVE  UNCHANGED execution
  <2>1. UNCHANGED container
    BY <1>10 DEF ExportArtifact, SaveArtifact, SaveCleaned, DeadlinePasses
  <2>2. \A y \in Executions : record'[y].state = record[y].state
    BY <1>10 DEF ExportArtifact, SaveArtifact, SaveCleaned, DeadlinePasses, ControlTypeOK, Record
  <2> QED
    BY <2>1, <2>2, PromisesKept
<1> QED
  BY <1>1, <1>2, <1>3, <1>4, <1>5, <1>6, <1>7, <1>8, <1>9, <1>10
     DEF ControlNext, Inspect, CallStep, Contract!ExecNext

-----------------------------------------------------------------------------
(* ContainerBuild: the theorems.                                           *)

\* The invariant holds wherever the controller stops and whatever Docker does.
THEOREM ControlInvariance == ControlSpec => []ControlInv
BY ControlInitInv, ControlStepInv, PTL DEF ControlSpec

\* The variables keep their types (ContainerBuild).
THEOREM ControlTypeCorrect == ControlSpec => []ControlTypeOK
BY ControlInvariance, PTL DEF ControlInv

\* The output of a build that succeeded can be read until its artifact is saved
\* and recorded, wherever the controller stops, while the machine has power
\* (ReadNodeArtifact, cleanup).
THEOREM OutputIsKept == ControlSpec => []OutputSurvivesStops
BY ControlInvariance, PTL DEF ControlInv

\* The controller is the executor that the portal relies on: an execution is
\* accepted, launched and retired at most once, whatever is submitted, killed,
\* cleaned up or restarted (SubmitNodeExecution, InspectNodeExecution, Shutdown).
THEOREM ControllerImplementsContract == ControlSpec => ImplementsContract
<1>1. ControlInit => Contract!ExecInit
  BY DEF ControlInit, Contract!ExecInit, execution
<1> QED
  BY <1>1, ContractStep, ControlInvariance, PTL
     DEF ControlSpec, ImplementsContract, Contract!ExecSpec
=============================================================================
