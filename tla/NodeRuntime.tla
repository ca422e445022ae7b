---------------------------- MODULE NodeRuntime ----------------------------
(***************************************************************************)
(* The dedicated Node runtime of one project (internal/noderuntime,        *)
(* internal/nodelaunch, internal/noderouter): accepted deployment          *)
(* operations wait in the inbox, the runner carries one at a time through  *)
(* reservation, installation, start, health check and route switch, then   *)
(* retires the release it replaces.  The stores are separate databases and *)
(* files, so the runner may stop between any two of their commits;         *)
(* whatever it leaves half done it takes up again after the operation's    *)
(* activation deadline, without installing or starting anything twice.     *)
(*                                                                         *)
(* The portal claims a deployment once, so an operation is known by its    *)
(* deployment's revision.  Times are kept as the one comparison made with  *)
(* them: an operation is late once its activation deadline has passed.     *)
(***************************************************************************)
EXTENDS Naturals

CONSTANTS
  MaxOp,     \* bound on operations
  Slots,     \* the operator's UID/port pairs; each port is a router backend
  NoSlot,
  Artifact,  \* the archive each operation deploys
  Clients    \* content requests that may be in flight at once

Ops == 1..MaxOp
NoOp == 0

ASSUME RuntimeAssumption ==
  /\ MaxOp \in Nat
  /\ NoSlot \notin Slots
  /\ \E s, t \in Slots : s # t          \* OpenPool wants two slots at least
  /\ DOMAIN Artifact = Ops

VARIABLES
  inbox,   \* deployments.state of the inbox
  late,    \* operations whose ActivateBefore has passed
  pool,    \* reservations
  gate,    \* control files: what was attempted, and whether it is retired
  unit,    \* systemd: the operation's service
  route,   \* node_route: the fence, its status and the active operation
  tomb,    \* retired_operations
  conn,    \* the operation whose backend each request in flight was given
  runner   \* where ProcessNext is

vars == <<inbox, late, pool, gate, unit, route, tomb, conn, runner>>

Reservation == [state   : {"none", "reserved", "starting", "retiring", "retired"},
                slot    : Slots \cup {NoSlot},
                install : {"no", "attempted", "done"}]

Route == [fence  : Ops \cup {NoOp},
          status : {"none", "pending", "active", "failed"},
          active : Ops \cup {NoOp}]

\* op is the operation in hand, prior the active one before it, target the one
\* being retired and after what follows its retirement.
Runner == [pc     : {"idle", "reserve", "recover", "prepare", "install", "receipt",
                     "claim", "start", "launch", "probe", "fence", "commit",
                     "sweep", "reject", "refuse", "begin", "tombstone", "drain",
                     "stop", "reconcile", "settle"},
           op     : Ops \cup {NoOp},
           prior  : Ops \cup {NoOp},
           target : Ops \cup {NoOp},
           after  : {"sweep", "settle"}]

\* The runner takes up operation o.
TakeUp(pc, o) == [pc |-> pc, op |-> o, prior |-> NoOp, target |-> NoOp, after |-> "settle"]

Idle == TakeUp("idle", NoOp)

At(pc) == runner.pc = pc

TypeOK ==
  /\ inbox \in [Ops -> {"none", "queued", "processing", "settled"}]
  /\ late \subseteq Ops
  /\ pool \in [Ops -> Reservation]
  /\ gate \in [Ops -> SUBSET {"install", "start", "retire"}]
  /\ unit \in [Ops -> {"absent", "queued", "running", "masked"}]
  /\ route \in Route
  /\ tomb \subseteq Ops
  /\ conn \in [Clients -> Ops \cup {NoOp}]
  /\ runner \in Runner
  /\ \A o \in Ops : pool[o].slot = NoSlot <=> pool[o].state = "none"
  /\ \A o \in Ops : pool[o].state = "starting" => pool[o].install = "done"
  /\ runner.op = NoOp <=> At("idle")

Init ==
  /\ inbox = [o \in Ops |-> "none"]
  /\ late = {}
  /\ pool = [o \in Ops |-> [state |-> "none", slot |-> NoSlot, install |-> "no"]]
  /\ gate = [o \in Ops |-> {}]
  /\ unit = [o \in Ops |-> "absent"]
  /\ route = [fence |-> NoOp, status |-> "none", active |-> NoOp]
  /\ tomb = {}
  /\ conn = [c \in Clients |-> NoOp]
  /\ runner = Idle

-----------------------------------------------------------------------------
Slot(o) == pool[o].slot

\* Two operations on one backend.
SameBackend(a, o) == a # NoOp /\ Slot(a) = Slot(o)

\* A slot is taken until its reservation is retired.
Free(s) == \A o \in Ops : pool[o].slot = s => pool[o].state = "retired"

Outstanding(o) == pool[o].state \notin {"none", "retired"}

\* Requests on o's backend.
Busy(o) == \E c \in Clients : SameBackend(conn[c], o)

\* The staging context ends at the activation deadline.
InTime == runner.op \notin late

GoTo(pc) == runner' = [runner EXCEPT !.pc = pc]

\* The runner goes on to retire t.
Retiring(t, after) ==
  [pc |-> "begin", op |-> runner.op, prior |-> runner.prior, target |-> t, after |-> after]

Routed(fence, status, active) == [fence |-> fence, status |-> status, active |-> active]

-----------------------------------------------------------------------------
(* The inbox.                                                              *)

\* A repeated request is recognised and changes nothing.
SubmitNodeRuntime(o) ==
  /\ inbox[o] = "none"
  /\ o \notin late
  /\ \A p \in Ops : inbox[p] # "none" => p < o
  /\ inbox' = [inbox EXCEPT ![o] = "queued"]
  /\ UNCHANGED <<late, pool, gate, unit, route, tomb, conn, runner>>

DeadlinePasses(o) ==
  /\ o \notin late
  /\ late' = late \cup {o}
  /\ UNCHANGED <<inbox, pool, gate, unit, route, tomb, conn, runner>>

\* One operation is processed at a time, in the order of revisions.
Claim(o) ==
  /\ At("idle")
  /\ \A p \in Ops : inbox[p] # "processing"
  /\ inbox[o] = "queued"
  /\ \A p \in Ops : inbox[p] = "queued" => o <= p
  /\ inbox' = [inbox EXCEPT ![o] = "processing"]
  /\ runner' = TakeUp("reserve", o)
  /\ UNCHANGED <<late, pool, gate, unit, route, tomb, conn>>

\* Work left processing is reconciled once it is late.
RecoverProcessing(o) ==
  /\ At("idle")
  /\ inbox[o] = "processing"
  /\ o \in late
  /\ runner' = TakeUp("recover", o)
  /\ UNCHANGED <<inbox, late, pool, gate, unit, route, tomb, conn>>

Settle ==
  /\ At("settle")
  /\ inbox' = [inbox EXCEPT ![runner.op] = "settled"]
  /\ runner' = Idle
  /\ UNCHANGED <<late, pool, gate, unit, route, tomb, conn>>

-----------------------------------------------------------------------------
(* Reservation, installation, start.                                       *)

\* Has the activation of operation o been committed?
Activated(o) == route.status = "active" /\ route.fence = o /\ route.active = o

\* Mutant: a committed activation is not recognised.
AfterReserveBlind(o) ==
  IF At("reserve") /\ o \notin late THEN "prepare" ELSE "reject"

\* Where the runner goes once it knows the operation's slot.
AfterReserve(o) ==
  IF At("reserve") THEN IF o \in late THEN "reject" ELSE "prepare"
                   ELSE IF Activated(o) THEN "sweep" ELSE "reject"

\* The first free slot; which one it is does not matter.
Reserve ==
  LET o == runner.op IN
  /\ At("reserve") \/ At("recover")
  /\ \/ pool[o].state # "none" /\ UNCHANGED pool
     \/ /\ pool[o].state = "none"
        /\ \E s \in Slots :
             /\ Free(s)
             /\ pool' = [pool EXCEPT ![o] = [state |-> "reserved", slot |-> s, install |-> "no"]]
  /\ GoTo(AfterReserve(o))
  /\ UNCHANGED <<inbox, late, gate, unit, route, tomb, conn>>

\* PrepareRelease records the attempt before it installs ...
PrepareRelease ==
  LET o == runner.op IN
  /\ At("prepare") /\ InTime
  /\ pool[o].state = "reserved" /\ pool[o].install = "no"
  /\ pool' = [pool EXCEPT ![o] = [@ EXCEPT !.install = "attempted"]]
  /\ GoTo("install")
  /\ UNCHANGED <<inbox, late, gate, unit, route, tomb, conn>>

InstallNodeRelease ==
  LET o == runner.op IN
  /\ At("install") /\ InTime
  /\ gate[o] \cap {"install", "retire"} = {}
  /\ gate' = [gate EXCEPT ![o] = @ \cup {"install"}]
  /\ GoTo("receipt")
  /\ UNCHANGED <<inbox, late, pool, unit, route, tomb, conn>>

\* ... and the receipt after it.
RecordInstalled ==
  LET o == runner.op IN
  /\ At("receipt") /\ InTime
  /\ pool[o].state = "reserved" /\ pool[o].install = "attempted"
  /\ pool' = [pool EXCEPT ![o] = [@ EXCEPT !.install = "done"]]
  /\ GoTo("claim")
  /\ UNCHANGED <<inbox, late, gate, unit, route, tomb, conn>>

ClaimStart ==
  LET o == runner.op IN
  /\ At("claim") /\ InTime
  /\ pool[o].state = "reserved" /\ pool[o].install = "done"
  /\ pool' = [pool EXCEPT ![o] = [@ EXCEPT !.state = "starting"]]
  /\ GoTo("start")
  /\ UNCHANGED <<inbox, late, gate, unit, route, tomb, conn>>

\* StartInstalledSystemd commits the intent ...
GateStart ==
  LET o == runner.op IN
  /\ At("start") /\ InTime
  /\ pool[o].state = "starting"
  /\ "install" \in gate[o] /\ gate[o] \cap {"start", "retire"} = {}
  /\ gate' = [gate EXCEPT ![o] = @ \cup {"start"}]
  /\ GoTo("launch")
  /\ UNCHANGED <<inbox, late, pool, unit, route, tomb, conn>>

\* ... and asks systemd, which may still have the job queued when systemctl is
\* given up on.
Launch ==
  LET o == runner.op IN
  /\ At("launch") /\ InTime
  /\ unit[o] = "absent"
  /\ \/ unit' = [unit EXCEPT ![o] = "running"] /\ GoTo("probe")
     \/ unit' = [unit EXCEPT ![o] = "queued"] /\ runner' = Idle
  /\ UNCHANGED <<inbox, late, pool, gate, route, tomb, conn>>

UnitStarts(o) ==
  /\ unit[o] = "queued"
  /\ unit' = [unit EXCEPT ![o] = "running"]
  /\ UNCHANGED <<inbox, late, pool, gate, route, tomb, conn, runner>>

-----------------------------------------------------------------------------
(* The router.                                                             *)

\* The service answers its health check; the route it replaces is noted.
WaitHealthy ==
  /\ At("probe") /\ InTime
  /\ runner.op \notin tomb
  /\ unit[runner.op] = "running"
  /\ runner' = [pc |-> "fence", op |-> runner.op, prior |-> route.active,
                target |-> runner.target, after |-> runner.after]
  /\ UNCHANGED <<inbox, late, pool, gate, unit, route, tomb, conn>>

\* Activate persists the fence ...
ActivateFence ==
  LET o == runner.op IN
  /\ At("fence") /\ InTime
  /\ o \notin tomb
  /\ route.fence < o
  /\ ~(SameBackend(route.active, o) /\ Artifact[route.active] # Artifact[o])
  /\ route' = Routed(o, "pending", route.active)
  /\ GoTo("commit")
  /\ UNCHANGED <<inbox, late, pool, gate, unit, tomb, conn>>

\* ... probes, and switches the route or records the failure.
ActivateCommit ==
  LET o == runner.op IN
  /\ At("commit") /\ InTime
  /\ o \notin tomb
  /\ route.fence = o /\ route.status = "pending"
  /\ \/ /\ unit[o] = "running"
        /\ route' = Routed(o, "active", o)
        /\ IF runner.prior = NoOp THEN GoTo("settle")
           ELSE runner' = Retiring(runner.prior, runner.after)
     \/ /\ route' = Routed(o, "failed", route.active)
        /\ runner' = Idle
  /\ UNCHANGED <<inbox, late, pool, gate, unit, tomb, conn>>

\* A content request is given the active backend under the router's mutex.
BeginRequest(c) ==
  /\ conn[c] = NoOp
  /\ route.active # NoOp
  /\ conn' = [conn EXCEPT ![c] = route.active]
  /\ UNCHANGED <<inbox, late, pool, gate, unit, route, tomb, runner>>

EndRequest(c) ==
  /\ conn[c] # NoOp
  /\ conn' = [conn EXCEPT ![c] = NoOp]
  /\ UNCHANGED <<inbox, late, pool, gate, unit, route, tomb, runner>>

\* FenceRetirement refuses the active operation and its backend.
MayRetire(o) == route.active # o /\ ~SameBackend(route.active, o)

FenceRetirement(o) ==
  /\ \/ o \in tomb /\ UNCHANGED <<tomb, route>>
     \/ /\ o \notin tomb
        /\ MayRetire(o)
        /\ tomb' = tomb \cup {o}
        /\ route' = IF route.fence = o /\ route.status = "pending"
                    THEN Routed(o, "failed", route.active) ELSE route

\* RejectActivation: the operation is fenced ...
RejectFence ==
  /\ At("reject")
  /\ FenceRetirement(runner.op)
  /\ GoTo("refuse")
  /\ UNCHANGED <<inbox, late, pool, gate, unit, conn>>

\* Mutant: the failure is not published.
RejectSilently ==
  /\ At("refuse")
  /\ route.fence <= runner.op
  /\ MayRetire(runner.op)
  /\ runner' = Retiring(runner.op, "settle")
  /\ UNCHANGED <<inbox, late, pool, gate, unit, route, tomb, conn>>

\* ... and its failure published, in a transaction of its own.
RejectActivation ==
  LET o == runner.op IN
  /\ At("refuse")
  /\ route.fence <= o
  /\ MayRetire(o)
  /\ route' = Routed(o, "failed", route.active)
  /\ runner' = Retiring(o, "settle")
  /\ UNCHANGED <<inbox, late, pool, gate, unit, tomb, conn>>

-----------------------------------------------------------------------------
(* Retirement (RetireRoutedNode) of the runner's target.                   *)

\* After a committed activation: every older reservation still occupied.
Sweep ==
  /\ At("sweep")
  /\ \/ \E t \in Ops :
          /\ Outstanding(t) /\ t < runner.op
          /\ runner' = Retiring(t, "sweep")
     \/ /\ \A t \in Ops : Outstanding(t) => t = runner.op
        /\ GoTo("settle")
  /\ UNCHANGED <<inbox, late, pool, gate, unit, route, tomb, conn>>

BeginRetirement ==
  LET t == runner.target IN
  /\ At("begin")
  /\ IF pool[t].state = "retired"
     THEN UNCHANGED pool /\ GoTo(runner.after)
     ELSE pool' = [pool EXCEPT ![t] = [@ EXCEPT !.state = "retiring"]] /\ GoTo("tombstone")
  /\ UNCHANGED <<inbox, late, gate, unit, route, tomb, conn>>

Tombstone ==
  /\ At("tombstone")
  /\ FenceRetirement(runner.target)
  /\ GoTo("drain")
  /\ UNCHANGED <<inbox, late, pool, gate, unit, conn>>

\* Mutant: requests in flight are not waited for.
UndrainedBackend ==
  LET t == runner.target IN
  /\ At("drain")
  /\ ~SameBackend(route.active, t)
  /\ ~(route.status = "pending" /\ SameBackend(route.fence, t))
  /\ gate' = [gate EXCEPT ![t] = @ \cup {"retire"}]
  /\ GoTo("stop")
  /\ UNCHANGED <<inbox, late, pool, unit, route, tomb, conn>>

\* WithDrainedBackend: once the backend has no requests and no route, the
\* control gate is closed for good.
WithDrainedBackend ==
  LET t == runner.target IN
  /\ At("drain")
  /\ ~Busy(t)
  /\ ~SameBackend(route.active, t)
  /\ ~(route.status = "pending" /\ SameBackend(route.fence, t))
  /\ gate' = [gate EXCEPT ![t] = @ \cup {"retire"}]
  /\ GoTo("stop")
  /\ UNCHANGED <<inbox, late, pool, unit, route, tomb, conn>>

RetireSystemd ==
  LET t == runner.target IN
  /\ At("stop")
  /\ unit' = [unit EXCEPT ![t] = "masked"]
  /\ GoTo("reconcile")
  /\ UNCHANGED <<inbox, late, pool, gate, route, tomb, conn>>

\* Mutant: the slot is released although the service may still be there.
ReconcileUnobserved ==
  LET t == runner.target IN
  /\ At("stop") \/ At("reconcile")
  /\ pool[t].state = "retiring"
  /\ pool' = [pool EXCEPT ![t] = [@ EXCEPT !.state = "retired"]]
  /\ GoTo(runner.after)
  /\ UNCHANGED <<inbox, late, gate, unit, route, tomb, conn>>

\* The slot is released on the evidence that the service is gone for good.
ReconcileRetirement ==
  LET t == runner.target IN
  /\ At("reconcile")
  /\ pool[t].state = "retiring"
  /\ "retire" \in gate[t] /\ unit[t] = "masked"
  /\ pool' = [pool EXCEPT ![t] = [@ EXCEPT !.state = "retired"]]
  /\ GoTo(runner.after)
  /\ UNCHANGED <<inbox, late, gate, unit, route, tomb, conn>>

-----------------------------------------------------------------------------
(* Failures.                                                               *)

Staging == runner.pc \in {"prepare", "install", "receipt", "claim", "start",
                          "launch", "probe", "fence", "commit"}

\* The staging context ends: ProcessNext returns, the work stays processing.
StageExpires ==
  /\ Staging /\ ~InTime
  /\ runner' = Idle
  /\ UNCHANGED <<inbox, late, pool, gate, unit, route, tomb, conn>>

\* The service does not answer its health check in time.
Unhealthy ==
  /\ At("probe")
  /\ runner' = Idle
  /\ UNCHANGED <<inbox, late, pool, gate, unit, route, tomb, conn>>

\* An I/O error or a timeout: ProcessNext returns.
RunnerFails ==
  /\ ~At("idle")
  /\ runner' = Idle
  /\ UNCHANGED <<inbox, late, pool, gate, unit, route, tomb, conn>>

\* The runtime process dies, and with it every proxied request.
Crash ==
  /\ runner' = Idle
  /\ conn' = [c \in Clients |-> NoOp]
  /\ UNCHANGED <<inbox, late, pool, gate, unit, route, tomb>>

\* The host restarts: services in /run are gone, masks in /etc stay.
Reboot ==
  /\ runner' = Idle
  /\ conn' = [c \in Clients |-> NoOp]
  /\ unit' = [o \in Ops |-> IF unit[o] = "masked" THEN "masked" ELSE "absent"]
  /\ UNCHANGED <<inbox, late, pool, gate, route, tomb>>

-----------------------------------------------------------------------------
RunnerStep ==
  \/ \E o \in Ops : Claim(o) \/ RecoverProcessing(o)
  \/ Reserve \/ PrepareRelease \/ InstallNodeRelease \/ RecordInstalled
  \/ ClaimStart \/ GateStart \/ Launch \/ WaitHealthy \/ ActivateFence \/ ActivateCommit
  \/ RejectFence \/ RejectActivation \/ Sweep
  \/ BeginRetirement \/ Tombstone \/ WithDrainedBackend \/ RetireSystemd
  \/ ReconcileRetirement \/ Settle
  \/ StageExpires \/ Unhealthy

Fault == RunnerFails \/ Crash \/ Reboot

Next ==
  \/ \E o \in Ops : SubmitNodeRuntime(o) \/ DeadlinePasses(o) \/ UnitStarts(o)
  \/ \E c \in Clients : BeginRequest(c) \/ EndRequest(c)
  \/ RunnerStep
  \/ Fault

Spec == Init /\ [][Next]_vars

\* ProcessNext is called every second, and clocks advance.
Fairness ==
  /\ WF_vars(RunnerStep)
  /\ \A o \in Ops : WF_vars(DeadlinePasses(o))

LiveSpec == Spec /\ Fairness

-----------------------------------------------------------------------------
(* Properties.                                                             *)

\* A UID and port are never used by two services, not even by one that a
\* forgotten systemd job may still start (ReconcileRetirement's evidence).
SlotsAreExclusive ==
  \A o, p \in Ops :
    (o # p /\ unit[o] \in {"queued", "running"} /\ pool[p].state \in {"reserved", "starting", "retiring"})
    => Slot(o) # Slot(p)

\* A release is not stopped under a request that was routed to it, and its
\* backend is not handed to another one (drain before stop).
RequestsAreDrained ==
  \A c \in Clients : conn[c] # NoOp =>
    /\ unit[conn[c]] # "masked"
    /\ "retire" \notin gate[conn[c]]
    /\ \A o \in Ops \ {conn[c]} : Outstanding(o) => Slot(o) # Slot(conn[c])

\* The runtime keeps its promise to the portal: every step of the stores, the
\* runner and systemd is a step of the contract or changes nothing the portal
\* can see; in particular a settled operation is never routed to any more.
Promised == [o \in Ops |-> IF inbox[o] \in {"queued", "processing"} THEN "accepted" ELSE inbox[o]]
Contract == INSTANCE RuntimeContract WITH stage <- Promised
ImplementsContract == Contract!RuntimeSpec

\* Every accepted operation is settled, if from some time on the runner is
\* not interrupted and every content request ends.  The content server sets no
\* write timeout, so the second premise is the application's to keep.
RequestsEnd == \A c \in Clients : []<>(conn[c] = NoOp)
OperationsSettle ==
  (<>[][Fault => RunnerStep]_vars /\ RequestsEnd) =>
    \A o \in Ops : inbox[o] # "none" ~> inbox[o] = "settled"
=============================================================================
