------------------------- MODULE NodeRuntimeProofs --------------------------
(***************************************************************************)
(* Proofs about NodeRuntime, for every number of operations, slots and     *)
(* requests in flight.                                                     *)
(***************************************************************************)
EXTENDS NodeRuntime, TLAPS

-----------------------------------------------------------------------------
(* The inductive invariant.                                                *)

\* Steps at which the runner retires its target.
RetireSteps == {"begin", "tombstone", "drain", "stop", "reconcile"}

\* What the runner has done of its operation, by the step it is at.
RunnerInv ==
  LET o == runner.op
      t == runner.target IN
  /\ o # NoOp => inbox[o] = "processing"
  /\ ~At("idle") /\ ~At("reserve") /\ ~At("recover") => pool[o].state # "none"
  /\ runner.pc \in {"start", "launch", "probe", "fence", "commit"} => pool[o].state = "starting"
  /\ runner.prior # NoOp => pool[runner.prior].state # "none"
  /\ runner.pc \in RetireSteps => t # NoOp /\ pool[t].state # "none"
  /\ runner.pc \in {"tombstone", "drain", "stop", "reconcile"} => pool[t].state = "retiring"
  /\ runner.pc \in {"stop", "reconcile"} => "retire" \in gate[t]
  /\ runner.pc \in RetireSteps \cup {"sweep", "settle"} =>
       route.fence = o /\ route.status \in {"active", "failed"}

\* Slots are given to one outstanding reservation each, and a service that may
\* run has one.
SlotInv ==
  /\ \A o, p \in Ops : o # p /\ Outstanding(o) /\ Outstanding(p) => Slot(o) # Slot(p)
  /\ \A o \in Ops : unit[o] \in {"queued", "running"} => Outstanding(o)

\* The gate is closed during a retirement, before the service is masked.
GateInv ==
  \A o \in Ops :
    /\ "retire" \in gate[o] => pool[o].state \in {"retiring", "retired"}
    /\ unit[o] = "masked" \/ pool[o].state = "retired" => "retire" \in gate[o]

\* The route is on its fence or behind it, and what it or a request is on is
\* not retired.
RouteInv ==
  /\ route.active <= route.fence
  /\ route.status = "pending" => route.active # route.fence
  /\ \A o \in Ops : o = route.active \/ (\E c \in Clients : conn[c] = o) =>
       pool[o].state # "none" /\ "retire" \notin gate[o]

RuntimeInv ==
  /\ TypeOK
  /\ RunnerInv
  /\ SlotInv
  /\ GateInv
  /\ RouteInv

-----------------------------------------------------------------------------
(* Lemmas about the operators.                                             *)

LEMMA OpsAreNumbers == Ops \subseteq Nat /\ NoOp \in Nat /\ NoOp \notin Ops
BY RuntimeAssumption DEF Ops, NoOp

LEMMA IdleRuns == /\ Idle \in Runner /\ Idle.pc = "idle" /\ Idle.op = NoOp
                  /\ Idle.prior = NoOp /\ Idle.target = NoOp
BY DEF Idle, TakeUp, Runner

\* The steps of the runner.
Steps == {"idle", "reserve", "recover", "prepare", "install", "receipt", "claim", "start", "launch",
          "probe", "fence", "commit", "sweep", "reject", "refuse", "begin", "tombstone", "drain",
          "stop", "reconcile", "settle"}

\* Only the step changes.
LEMMA GoesTo ==
  ASSUME runner \in Runner, NEW p \in Steps, GoTo(p)
  PROVE  /\ runner' \in Runner /\ runner'.pc = p
         /\ runner'.op = runner.op /\ runner'.prior = runner.prior
         /\ runner'.target = runner.target /\ runner'.after = runner.after
BY DEF GoTo, Runner, Steps

LEMMA RetiringRuns ==
  ASSUME runner \in Runner, NEW t \in Ops, NEW a \in {"sweep", "settle"}
  PROVE  LET r == Retiring(t, a) IN
         /\ r \in Runner /\ r.pc = "begin" /\ r.op = runner.op /\ r.prior = runner.prior
         /\ r.target = t
BY DEF Retiring, Runner

LEMMA RoutedIs ==
  ASSUME NEW f \in Ops, NEW s \in {"none", "pending", "active", "failed"}, NEW a \in Ops \cup {NoOp}
  PROVE  LET r == Routed(f, s, a) IN r \in Route /\ r.fence = f /\ r.status = s /\ r.active = a
BY DEF Routed, Route

-----------------------------------------------------------------------------
(* Every action preserves the invariant.                                   *)

LEMMA InitInv == Init => RuntimeInv
BY OpsAreNumbers, IdleRuns
   DEF Init, RuntimeInv, TypeOK, RunnerInv, SlotInv, GateInv, RouteInv, Reservation, Route,
       Outstanding, At, RetireSteps

LEMMA StutterInv == RuntimeInv /\ UNCHANGED vars => RuntimeInv'
BY DEF RuntimeInv, TypeOK, RunnerInv, SlotInv, GateInv, RouteInv, Outstanding, Slot, At, vars

\* The runner gives up, or dies with the process or the host: what it has done
\* stays done.
LEMMA StopsInv ==
  ASSUME RuntimeInv, StageExpires \/ Unhealthy \/ RunnerFails \/ Crash \/ Reboot
  PROVE  RuntimeInv'
<1> USE DEF RuntimeInv
<1>1. runner' = Idle /\ UNCHANGED <<inbox, late, pool, gate, route, tomb>>
  BY DEF StageExpires, Unhealthy, RunnerFails, Crash, Reboot
<1>2. conn' \in [Clients -> Ops \cup {NoOp}] /\ \A c \in Clients : conn'[c] \in {conn[c], NoOp}
  BY DEF StageExpires, Unhealthy, RunnerFails, Crash, Reboot, TypeOK
<1>3. /\ unit' \in [Ops -> {"absent", "queued", "running", "masked"}]
      /\ \A o \in Ops : unit'[o] \in {unit[o], "absent"}
  BY DEF StageExpires, Unhealthy, RunnerFails, Crash, Reboot, TypeOK
<1>4. TypeOK'
  BY <1>1, <1>2, <1>3, IdleRuns DEF TypeOK, At
<1>5. RunnerInv'
  BY <1>1, IdleRuns DEF RunnerInv, At, RetireSteps
<1>6. SlotInv' /\ GateInv'
  BY <1>1, <1>3 DEF SlotInv, GateInv, Outstanding, Slot
<1>7. RouteInv'
  <2>1. \A o \in Ops, c \in Clients : conn'[c] = o => conn[c] = o
    BY <1>2, OpsAreNumbers
  <2> QED
    BY <1>1, <2>1 DEF RouteInv
<1> QED
  BY <1>4, <1>5, <1>6, <1>7

\* Submissions, deadlines and late starts of a service.
LEMMA OutsideInv ==
  ASSUME RuntimeInv, NEW o \in Ops, SubmitNodeRuntime(o) \/ DeadlinePasses(o) \/ UnitStarts(o)
  PROVE  RuntimeInv'
<1> USE DEF RuntimeInv
<1>1. UNCHANGED <<pool, gate, route, tomb, conn, runner>>
  BY DEF SubmitNodeRuntime, DeadlinePasses, UnitStarts
<1>2. /\ inbox' \in [Ops -> {"none", "queued", "processing", "settled"}]
      /\ \A p \in Ops : inbox[p] = "processing" => inbox'[p] = "processing"
  BY DEF SubmitNodeRuntime, DeadlinePasses, UnitStarts, TypeOK
<1>3. /\ unit' \in [Ops -> {"absent", "queued", "running", "masked"}]
      /\ \A p \in Ops : unit'[p] = unit[p] \/ (unit[p] = "queued" /\ unit'[p] = "running")
  BY DEF SubmitNodeRuntime, DeadlinePasses, UnitStarts, TypeOK
<1>4. late' \subseteq Ops
  BY DEF SubmitNodeRuntime, DeadlinePasses, UnitStarts, TypeOK
<1>5. TypeOK'
  BY <1>1, <1>2, <1>3, <1>4 DEF TypeOK, At
<1>6. RunnerInv'
  BY <1>1, <1>2 DEF RunnerInv, At, TypeOK, Runner
<1>7. SlotInv' /\ GateInv' /\ RouteInv'
  BY <1>1, <1>3 DEF SlotInv, GateInv, RouteInv, Outstanding, Slot
<1> QED
  BY <1>5, <1>6, <1>7

\* A request is given what is routed.
LEMMA RequestInv ==
  ASSUME RuntimeInv, NEW c \in Clients, BeginRequest(c) \/ EndRequest(c)
  PROVE  RuntimeInv'
<1> USE DEF RuntimeInv
<1>1. UNCHANGED <<inbox, late, pool, gate, unit, route, tomb, runner>>
  BY DEF BeginRequest, EndRequest
<1>2. conn' \in [Clients -> Ops \cup {NoOp}]
  BY DEF BeginRequest, EndRequest, TypeOK, Route
<1>3. \A d \in Clients : conn'[d] \in {conn[d], route.active, NoOp}
  BY DEF BeginRequest, EndRequest, TypeOK
<1>4. TypeOK'
  BY <1>1, <1>2 DEF TypeOK, At
<1>5. RunnerInv' /\ SlotInv' /\ GateInv'
  BY <1>1 DEF RunnerInv, SlotInv, GateInv, Outstanding, Slot, At
<1>6. RouteInv'
  <2>1. \A o \in Ops, d \in Clients : conn'[d] = o => conn[d] = o \/ o = route.active
    BY <1>3, OpsAreNumbers
  <2> QED
    BY <1>1, <2>1 DEF RouteInv
<1> QED
  BY <1>4, <1>5, <1>6

\* Nothing but the runner and the inbox changes.
LEMMA RunnerMoves ==
  ASSUME RuntimeInv, inbox' \in [Ops -> {"none", "queued", "processing", "settled"}],
         runner' \in Runner, runner'.op = NoOp <=> runner'.pc = "idle", RunnerInv',
         UNCHANGED <<late, pool, gate, unit, route, tomb, conn>>
  PROVE  RuntimeInv'
BY DEF RuntimeInv, TypeOK, SlotInv, GateInv, RouteInv, Outstanding, Slot, At

LEMMA TakeUpInv ==
  ASSUME RuntimeInv, NEW o \in Ops, Claim(o) \/ RecoverProcessing(o)
  PROVE  RuntimeInv'
<1>1. UNCHANGED <<late, pool, gate, unit, route, tomb, conn>>
  BY DEF Claim, RecoverProcessing
<1>2. /\ inbox' \in [Ops -> {"none", "queued", "processing", "settled"}]
      /\ inbox'[o] = "processing"
  BY DEF Claim, RecoverProcessing, RuntimeInv, TypeOK
<1>3. /\ runner' \in Runner /\ runner'.pc \in {"reserve", "recover"} /\ runner'.op = o
      /\ runner'.prior = NoOp
  BY DEF Claim, RecoverProcessing, TakeUp, Runner
<1>4. RunnerInv'
  BY <1>2, <1>3 DEF RunnerInv, At, RetireSteps
<1> QED
  BY <1>1, <1>2, <1>3, <1>4, OpsAreNumbers, RunnerMoves

LEMMA SettleInv ==
  ASSUME RuntimeInv, Settle
  PROVE  RuntimeInv'
<1>1. /\ inbox' \in [Ops -> {"none", "queued", "processing", "settled"}] /\ runner' = Idle
      /\ UNCHANGED <<late, pool, gate, unit, route, tomb, conn>>
  BY DEF Settle, RuntimeInv, TypeOK
<1>2. RunnerInv'
  BY <1>1, IdleRuns DEF RunnerInv, At, RetireSteps
<1> QED
  BY <1>1, <1>2, IdleRuns, RunnerMoves

\* The route that is replaced was reserved.
LEMMA HealthyInv ==
  ASSUME RuntimeInv, WaitHealthy
  PROVE  RuntimeInv'
<1>1. /\ UNCHANGED <<inbox, late, pool, gate, unit, route, tomb, conn>>
      /\ runner.pc = "probe"
  BY DEF WaitHealthy, At
<1>2. /\ runner' \in Runner /\ runner'.pc = "fence" /\ runner'.op = runner.op
      /\ runner'.prior = route.active
  BY DEF WaitHealthy, RuntimeInv, TypeOK, Runner, Route
<1>3. route.active # NoOp => pool[route.active].state # "none"
  BY DEF RuntimeInv, RouteInv, TypeOK, Route
<1>4. runner.op # NoOp
  BY <1>1 DEF RuntimeInv, TypeOK, At
<1>5. RunnerInv'
  BY <1>1, <1>2, <1>3 DEF RuntimeInv, RunnerInv, At, RetireSteps
<1>6. inbox' \in [Ops -> {"none", "queued", "processing", "settled"}]
  BY <1>1 DEF RuntimeInv, TypeOK
<1> QED
  BY <1>1, <1>2, <1>4, <1>5, <1>6, RunnerMoves

LEMMA SweepInv ==
  ASSUME RuntimeInv, Sweep
  PROVE  RuntimeInv'
<1>1. /\ UNCHANGED <<inbox, late, pool, gate, unit, route, tomb, conn>>
      /\ runner.pc = "sweep" /\ runner \in Runner /\ runner.op # NoOp
      /\ inbox' \in [Ops -> {"none", "queued", "processing", "settled"}]
  BY DEF Sweep, At, RuntimeInv, TypeOK
<1>2. ASSUME NEW t \in Ops, Outstanding(t), runner' = Retiring(t, "sweep")
      PROVE  RuntimeInv'
  <2>1. /\ runner' \in Runner /\ runner'.pc = "begin" /\ runner'.op = runner.op
        /\ runner'.prior = runner.prior /\ runner'.target = t
    BY <1>1, <1>2, RetiringRuns
  <2>2. RunnerInv'
    BY <1>1, <1>2, <2>1, OpsAreNumbers DEF RuntimeInv, RunnerInv, At, RetireSteps, Outstanding
  <2> QED
    BY <1>1, <2>1, <2>2, RunnerMoves
<1>3. CASE GoTo("settle")
  <2>1. /\ runner' \in Runner /\ runner'.pc = "settle" /\ runner'.op = runner.op
        /\ runner'.prior = runner.prior /\ runner'.target = runner.target
    BY <1>1, <1>3, GoesTo DEF Steps
  <2>2. RunnerInv'
    BY <1>1, <2>1 DEF RuntimeInv, RunnerInv, At, RetireSteps
  <2> QED
    BY <1>1, <2>1, <2>2, RunnerMoves
<1> QED
  BY <1>2, <1>3 DEF Sweep

\* A slot is free when no outstanding reservation has it.
LEMMA ReserveInv ==
  ASSUME RuntimeInv, Reserve
  PROVE  RuntimeInv'
<1> USE DEF RuntimeInv
<1> DEFINE o == runner.op
<1>1. /\ UNCHANGED <<inbox, late, gate, unit, route, tomb, conn>>
      /\ runner.pc \in {"reserve", "recover"} /\ runner \in Runner /\ o \in Ops
  BY DEF Reserve, At, TypeOK, Runner
<1>2. /\ runner' \in Runner /\ runner'.pc \in {"prepare", "reject", "sweep"} /\ runner'.op = o
      /\ runner'.prior = runner.prior /\ runner'.target = runner.target
      /\ runner'.pc = "sweep" => Activated(o)
  <2>1. AfterReserve(o) \in {"prepare", "reject", "sweep"}
    BY DEF AfterReserve
  <2>2. AfterReserve(o) = "sweep" => Activated(o)
    BY DEF AfterReserve
  <2>3. AfterReserve(o) \in Steps /\ GoTo(AfterReserve(o))
    BY <2>1 DEF Reserve, Steps
  <2> QED
    BY <1>1, <2>1, <2>2, <2>3, GoesTo
<1>3. CASE pool[o].state # "none" /\ UNCHANGED pool
  <2>1. RunnerInv'
    BY <1>1, <1>2, <1>3 DEF RunnerInv, At, RetireSteps, Activated
  <2>2. inbox' \in [Ops -> {"none", "queued", "processing", "settled"}] /\ runner'.op # NoOp
    BY <1>1, <1>2, OpsAreNumbers DEF TypeOK
  <2> QED
    BY <1>1, <1>2, <1>3, <2>1, <2>2, RunnerMoves
<1>4. ASSUME pool[o].state = "none", NEW s \in Slots, Free(s),
             pool' = [pool EXCEPT ![o] = [state |-> "reserved", slot |-> s, install |-> "no"]]
      PROVE  RuntimeInv'
  <2> HIDE DEF o
  <2>1. /\ pool' \in [Ops -> Reservation] /\ pool'[o].state = "reserved" /\ pool'[o].slot = s
        /\ \A p \in Ops \ {o} : pool'[p] = pool[p]
    BY <1>1, <1>4 DEF TypeOK, Reservation
  <2>2. \A p \in Ops : pool[p].state # "none" => p # o /\ pool'[p] = pool[p]
    BY <1>4, <2>1
  <2>3. TypeOK'
    BY <1>1, <1>2, <2>1, RuntimeAssumption, OpsAreNumbers DEF TypeOK, At
  <2>4. RunnerInv'
    BY <1>1, <1>2, <2>1, <2>2 DEF RunnerInv, At, RetireSteps, Activated, TypeOK, Runner, o
  <2>5. SlotInv'
    <3>1. \A p \in Ops \ {o} : pool[p].slot = s => ~Outstanding(p)
      BY <1>4 DEF Free, Outstanding
    <3> QED
      BY <1>1, <2>1, <3>1 DEF SlotInv, Outstanding, Slot
  <2>6. GateInv'
    BY <1>1, <1>4, <2>1 DEF GateInv
  <2>7. RouteInv'
    BY <1>1, <1>4, <2>2 DEF RouteInv
  <2> QED
    BY <2>3, <2>4, <2>5, <2>6, <2>7
<1> QED
  BY <1>3, <1>4 DEF Reserve

\* The reservation of one operation changes, and keeps its slot.
LEMMA Reserved ==
  ASSUME TypeOK, NEW o \in Ops, NEW r \in Reservation, pool' = [pool EXCEPT ![o] = r],
         r.slot = pool[o].slot, r.state # "none", pool[o].state # "none",
         r.state = "starting" => r.install = "done"
  PROVE  /\ pool' \in [Ops -> Reservation] /\ pool'[o] = r
         /\ \A p \in Ops \ {o} : pool'[p] = pool[p]
         /\ \A p \in Ops : /\ Slot(p)' = Slot(p)
                           /\ pool'[p].state = "none" <=> pool[p].state = "none"
                           /\ pool'[p].slot = NoSlot <=> pool'[p].state = "none"
                           /\ pool'[p].state = "starting" => pool'[p].install = "done"
<1>1. /\ pool' \in [Ops -> Reservation] /\ pool'[o] = r
      /\ \A p \in Ops \ {o} : pool'[p] = pool[p]
  BY DEF TypeOK
<1> QED
  BY <1>1 DEF TypeOK, Slot

\* The installation is recorded before and after it is made, then the start.
LEMMA PrepareInv ==
  ASSUME RuntimeInv, PrepareRelease \/ RecordInstalled \/ ClaimStart
  PROVE  RuntimeInv'
<1> USE DEF RuntimeInv
<1> DEFINE o == runner.op
<1>1. /\ UNCHANGED <<inbox, late, gate, unit, route, tomb, conn>>
      /\ runner \in Runner /\ o \in Ops /\ pool[o] \in Reservation /\ pool[o].state = "reserved"
  BY DEF PrepareRelease, RecordInstalled, ClaimStart, At, TypeOK, Runner
<1>2. /\ runner' \in Runner /\ runner'.pc \in {"install", "claim", "start"} /\ runner'.op = o
      /\ runner'.prior = runner.prior /\ runner'.target = runner.target
      /\ runner'.pc = "start" => ClaimStart
  <2>1. GoTo("install") \/ GoTo("claim") \/ (GoTo("start") /\ ClaimStart)
    BY DEF PrepareRelease, RecordInstalled, ClaimStart
  <2> QED
    BY <1>1, <2>1, GoesTo DEF Steps
<1>3. PICK r \in Reservation :
        /\ pool' = [pool EXCEPT ![o] = r]
        /\ r.slot = pool[o].slot /\ r.state \in {"reserved", "starting"}
        /\ r.state = "starting" => r.install = "done"
        /\ ClaimStart => r.state = "starting"
  <2>1. CASE PrepareRelease
    <3> DEFINE r == [pool[o] EXCEPT !.install = "attempted"]
    <3>1. r \in Reservation /\ r.slot = pool[o].slot /\ r.state = "reserved"
      BY <1>1 DEF Reservation
    <3>2. pool' = [pool EXCEPT ![o] = r] /\ ~ClaimStart
      BY <2>1 DEF PrepareRelease, ClaimStart, At
    <3> HIDE DEF r
    <3> QED
      BY <3>1, <3>2
  <2>2. CASE RecordInstalled
    <3> DEFINE r == [pool[o] EXCEPT !.install = "done"]
    <3>1. r \in Reservation /\ r.slot = pool[o].slot /\ r.state = "reserved"
      BY <1>1 DEF Reservation
    <3>2. pool' = [pool EXCEPT ![o] = r] /\ ~ClaimStart
      BY <2>2 DEF RecordInstalled, ClaimStart, At
    <3> HIDE DEF r
    <3> QED
      BY <3>1, <3>2
  <2>3. CASE ClaimStart
    <3> DEFINE r == [pool[o] EXCEPT !.state = "starting"]
    <3>1. /\ r \in Reservation /\ r.slot = pool[o].slot /\ r.state = "starting"
          /\ r.install = pool[o].install
      BY <1>1 DEF Reservation
    <3>2. pool' = [pool EXCEPT ![o] = r] /\ pool[o].install = "done"
      BY <2>3 DEF ClaimStart
    <3> HIDE DEF r
    <3> QED
      BY <3>1, <3>2
  <2> QED
    BY <2>1, <2>2, <2>3
<1> HIDE DEF o
<1>4. /\ pool' \in [Ops -> Reservation] /\ pool'[o] = r
      /\ \A p \in Ops \ {o} : pool'[p] = pool[p]
      /\ \A p \in Ops : /\ Slot(p)' = Slot(p)
                        /\ pool'[p].state = "none" <=> pool[p].state = "none"
                        /\ pool'[p].slot = NoSlot <=> pool'[p].state = "none"
                        /\ pool'[p].state = "starting" => pool'[p].install = "done"
  BY <1>1, <1>3, Reserved
<1>5. \A p \in Ops : Outstanding(p)' <=> Outstanding(p)
  BY <1>1, <1>3, <1>4 DEF Outstanding
<1>6. TypeOK'
  BY <1>1, <1>2, <1>4, OpsAreNumbers DEF TypeOK, At
<1>7. RunnerInv'
  <2>1. runner.prior \in Ops \cup {NoOp}
    BY <1>1 DEF Runner
  <2> QED
    BY <1>1, <1>2, <1>3, <1>4, <2>1 DEF RunnerInv, At, RetireSteps, o
<1>8. SlotInv'
  BY <1>1, <1>4, <1>5 DEF SlotInv
<1>9. GateInv'
  BY <1>1, <1>3, <1>4 DEF GateInv
<1>10. RouteInv'
  BY <1>1, <1>4 DEF RouteInv
<1> QED
  BY <1>6, <1>7, <1>8, <1>9, <1>10

\* Control files: an attempt is recorded, which closes no gate.
LEMMA GateAttemptInv ==
  ASSUME RuntimeInv, InstallNodeRelease \/ GateStart
  PROVE  RuntimeInv'
<1> USE DEF RuntimeInv
<1>1. /\ UNCHANGED <<inbox, late, pool, unit, route, tomb, conn>>
      /\ runner \in Runner /\ runner.op \in Ops
  BY DEF InstallNodeRelease, GateStart, At, TypeOK, Runner
<1>2. /\ gate' \in [Ops -> SUBSET {"install", "start", "retire"}]
      /\ \A p \in Ops : "retire" \in gate'[p] <=> "retire" \in gate[p]
  BY <1>1 DEF InstallNodeRelease, GateStart, TypeOK
<1>3. /\ runner' \in Runner /\ runner'.pc \in {"receipt", "launch"} /\ runner'.op = runner.op
      /\ runner'.prior = runner.prior /\ runner'.target = runner.target
      /\ runner'.pc = "launch" => pool[runner.op].state = "starting"
      /\ runner.pc \in {"install", "start"}
  <2>1. GoTo("receipt") \/ (GoTo("launch") /\ pool[runner.op].state = "starting")
    BY DEF InstallNodeRelease, GateStart
  <2>2. runner.pc \in {"install", "start"}
    BY DEF InstallNodeRelease, GateStart, At
  <2> QED
    BY <1>1, <2>1, <2>2, GoesTo DEF Steps
<1>4. TypeOK'
  BY <1>1, <1>2, <1>3, OpsAreNumbers DEF TypeOK, At
<1>5. RunnerInv'
  BY <1>1, <1>3 DEF RunnerInv, At, RetireSteps
<1> QED
  BY <1>1, <1>2, <1>4, <1>5 DEF SlotInv, GateInv, RouteInv, Outstanding, Slot

LEMMA LaunchInv ==
  ASSUME RuntimeInv, Launch
  PROVE  RuntimeInv'
<1> USE DEF RuntimeInv
<1> DEFINE o == runner.op
<1>1. /\ UNCHANGED <<inbox, late, pool, gate, route, tomb, conn>>
      /\ runner \in Runner /\ o \in Ops /\ runner.pc = "launch" /\ pool[o].state = "starting"
  BY DEF Launch, At, TypeOK, Runner, RunnerInv
<1>2. /\ unit' \in [Ops -> {"absent", "queued", "running", "masked"}]
      /\ unit'[o] \in {"queued", "running"} /\ \A p \in Ops \ {o} : unit'[p] = unit[p]
  BY <1>1 DEF Launch, TypeOK
<1>3. CASE runner' = Idle
  <2>1. TypeOK'
    BY <1>1, <1>2, <1>3, IdleRuns DEF TypeOK, At
  <2>2. RunnerInv'
    BY <1>3, IdleRuns DEF RunnerInv, At, RetireSteps
  <2> QED
    BY <1>1, <1>2, <2>1, <2>2 DEF SlotInv, GateInv, RouteInv, Outstanding, Slot
<1>4. CASE GoTo("probe")
  <2>1. /\ runner' \in Runner /\ runner'.pc = "probe" /\ runner'.op = runner.op
        /\ runner'.prior = runner.prior /\ runner'.target = runner.target
    BY <1>1, <1>4, GoesTo DEF Steps
  <2>2. TypeOK'
    BY <1>1, <1>2, <2>1, OpsAreNumbers DEF TypeOK, At
  <2>3. RunnerInv'
    BY <1>1, <2>1 DEF RunnerInv, At, RetireSteps
  <2> QED
    BY <1>1, <1>2, <2>2, <2>3 DEF SlotInv, GateInv, RouteInv, Outstanding, Slot
<1> QED
  BY <1>3, <1>4 DEF Launch

\* Only the route, the tombstones and the runner change.
LEMMA RouteMoves ==
  ASSUME RuntimeInv, route' \in Route, tomb' \subseteq Ops, runner' \in Runner,
         runner'.op = NoOp <=> runner'.pc = "idle", RunnerInv',
         route'.active <= route'.fence, route'.status = "pending" => route'.active # route'.fence,
         \A o \in Ops : o = route'.active => pool[o].state # "none" /\ "retire" \notin gate[o],
         UNCHANGED <<inbox, late, pool, gate, unit, conn>>
  PROVE  RuntimeInv'
BY DEF RuntimeInv, TypeOK, SlotInv, GateInv, RouteInv, Outstanding, Slot, At

\* A new fence is above the route.
LEMMA ActivateFenceInv ==
  ASSUME RuntimeInv, ActivateFence
  PROVE  RuntimeInv'
<1> USE DEF RuntimeInv
<1> DEFINE o == runner.op
<1>1. /\ UNCHANGED <<inbox, late, pool, gate, unit, tomb, conn>> /\ tomb' \subseteq Ops
      /\ runner \in Runner /\ o \in Ops /\ runner.pc = "fence" /\ route.fence < o
  BY DEF ActivateFence, At, TypeOK, Runner
<1>2. route.active \in Ops \cup {NoOp} /\ route.active \in Nat /\ route.fence \in Nat /\ o \in Nat
  BY <1>1, OpsAreNumbers DEF TypeOK, Route
<1>3. /\ route' \in Route /\ route'.fence = o /\ route'.status = "pending"
      /\ route'.active = route.active
  BY <1>1, <1>2, RoutedIs DEF ActivateFence
<1>4. /\ runner' \in Runner /\ runner'.pc = "commit" /\ runner'.op = o
      /\ runner'.prior = runner.prior /\ runner'.target = runner.target
  BY <1>1, GoesTo DEF ActivateFence, Steps
<1>5. RunnerInv'
  BY <1>1, <1>4 DEF RunnerInv, At, RetireSteps
<1>6. route'.active < route'.fence
  BY <1>1, <1>2, <1>3 DEF RouteInv
<1>7. \A p \in Ops : p = route'.active => pool[p].state # "none" /\ "retire" \notin gate[p]
  BY <1>3 DEF RouteInv
<1> HIDE DEF RuntimeInv
<1> QED
  BY <1>1, <1>2, <1>3, <1>4, <1>5, <1>6, <1>7, OpsAreNumbers, RouteMoves

\* What is switched to is starting, so no gate of it is closed.
LEMMA ActivateCommitInv ==
  ASSUME RuntimeInv, ActivateCommit
  PROVE  RuntimeInv'
<1> USE DEF RuntimeInv
<1> DEFINE o == runner.op
<1>1. /\ UNCHANGED <<inbox, late, pool, gate, unit, tomb, conn>> /\ tomb' \subseteq Ops
      /\ runner \in Runner /\ o \in Ops /\ runner.pc = "commit" /\ route.fence = o
  BY DEF ActivateCommit, At, TypeOK, Runner
<1>2. route.active \in Ops \cup {NoOp} /\ route.active \in Nat /\ o \in Nat
  BY <1>1, OpsAreNumbers DEF TypeOK, Route
<1>3. pool[o].state = "starting" /\ "retire" \notin gate[o] /\ inbox[o] = "processing"
  BY <1>1, OpsAreNumbers DEF RunnerInv, GateInv
<1>4. CASE route' = Routed(o, "failed", route.active) /\ runner' = Idle
  <2>1. /\ route' \in Route /\ route'.fence = o /\ route'.status = "failed"
        /\ route'.active = route.active
    BY <1>1, <1>2, <1>4, RoutedIs
  <2>2. RunnerInv'
    BY <1>4, IdleRuns DEF RunnerInv, At, RetireSteps
  <2>3. route'.active <= route'.fence
    BY <1>1, <2>1 DEF RouteInv
  <2>4. \A p \in Ops : p = route'.active => pool[p].state # "none" /\ "retire" \notin gate[p]
    BY <2>1 DEF RouteInv
  <2> HIDE DEF RuntimeInv
  <2> QED
    BY <1>1, <1>4, <2>1, <2>2, <2>3, <2>4, IdleRuns, RouteMoves
<1>5. CASE /\ route' = Routed(o, "active", o)
           /\ IF runner.prior = NoOp THEN GoTo("settle")
              ELSE runner' = Retiring(runner.prior, runner.after)
  <2>1. route' \in Route /\ route'.fence = o /\ route'.status = "active" /\ route'.active = o
    BY <1>1, <1>5, RoutedIs
  <2>2. /\ runner' \in Runner /\ runner'.op = o /\ runner'.prior = runner.prior
        /\ runner'.pc \in {"begin", "settle"}
        /\ runner'.pc = "begin" => runner.prior # NoOp /\ runner'.target = runner.prior
    <3>1. CASE runner.prior = NoOp
      BY <1>1, <1>5, <3>1, GoesTo DEF Steps
    <3>2. CASE runner.prior # NoOp
      BY <1>1, <1>5, <3>2, RetiringRuns DEF Runner
    <3> QED
      BY <3>1, <3>2
  <2>3. RunnerInv'
    BY <1>1, <1>3, <2>1, <2>2 DEF RunnerInv, At, RetireSteps
  <2>4. route'.active <= route'.fence
    BY <1>2, <2>1
  <2> HIDE DEF RuntimeInv
  <2> QED
    BY <1>1, <1>3, <2>1, <2>2, <2>3, <2>4, OpsAreNumbers, RouteMoves
<1> QED
  BY <1>4, <1>5 DEF ActivateCommit

\* What FenceRetirement does to the route: a pending activation fails.
LEMMA FencedRoute ==
  ASSUME RuntimeInv, NEW t \in Ops, FenceRetirement(t)
  PROVE  /\ tomb' \subseteq Ops /\ route' \in Route
         /\ route'.fence = route.fence /\ route'.active = route.active
         /\ route'.status = route.status \/
              (route.status = "pending" /\ route.fence = t /\ route.active # t /\ route'.status = "failed")
<1>1. route \in Route /\ tomb \subseteq Ops /\ route.active \in Ops \cup {NoOp}
  BY DEF RuntimeInv, TypeOK, Route
<1>2. CASE UNCHANGED <<tomb, route>>
  BY <1>1, <1>2
<1>3. CASE /\ tomb' = tomb \cup {t} /\ route.fence = t /\ route.status = "pending" /\ MayRetire(t)
           /\ route' = Routed(t, "failed", route.active)
  BY <1>1, <1>3, RoutedIs DEF MayRetire
<1>4. CASE tomb' = tomb \cup {t} /\ UNCHANGED route
  BY <1>1, <1>4
<1> QED
  BY <1>2, <1>3, <1>4 DEF FenceRetirement

LEMMA FenceRetirementInv ==
  ASSUME RuntimeInv, RejectFence \/ Tombstone
  PROVE  RuntimeInv'
<1> USE DEF RuntimeInv
<1>1. /\ UNCHANGED <<inbox, late, pool, gate, unit, conn>>
      /\ runner \in Runner /\ runner.pc \in {"reject", "tombstone"} /\ runner.op \in Ops
  BY DEF RejectFence, Tombstone, At, TypeOK, Runner
<1>2. PICK t \in Ops : FenceRetirement(t) /\ (runner.pc = "tombstone" => t = runner.target)
  <2>1. runner.pc = "tombstone" => runner.target \in Ops
    BY <1>1 DEF RunnerInv, RetireSteps, Runner
  <2> QED
    BY <1>1, <2>1 DEF RejectFence, Tombstone, At
<1>3. /\ tomb' \subseteq Ops /\ route' \in Route
      /\ route'.fence = route.fence /\ route'.active = route.active
      /\ route'.status = route.status \/ (route.status = "pending" /\ route'.status = "failed")
  <2> HIDE DEF RuntimeInv
  <2> QED
    BY <1>2, FencedRoute
<1>4. /\ runner' \in Runner /\ runner'.op = runner.op /\ runner'.prior = runner.prior
      /\ runner'.target = runner.target
      /\ \/ runner'.pc = "refuse" /\ runner.pc = "reject"
         \/ runner'.pc = "drain" /\ runner.pc = "tombstone"
  <2>1. \/ GoTo("refuse") /\ runner.pc = "reject"
        \/ GoTo("drain") /\ runner.pc = "tombstone"
    BY DEF RejectFence, Tombstone, At
  <2> QED
    BY <1>1, <2>1, GoesTo DEF Steps
<1>5. RunnerInv'
  BY <1>1, <1>3, <1>4 DEF RunnerInv, At, RetireSteps
<1>6. /\ route'.active <= route'.fence
      /\ route'.status = "pending" => route'.active # route'.fence
      /\ \A o \in Ops : o = route'.active => pool[o].state # "none" /\ "retire" \notin gate[o]
  BY <1>3 DEF RouteInv
<1> HIDE DEF RuntimeInv
<1> QED
  BY <1>1, <1>3, <1>4, <1>5, <1>6, OpsAreNumbers, RouteMoves

LEMMA RejectInv ==
  ASSUME RuntimeInv, RejectActivation
  PROVE  RuntimeInv'
<1> USE DEF RuntimeInv
<1> DEFINE o == runner.op
<1>1. /\ UNCHANGED <<inbox, late, pool, gate, unit, tomb, conn>> /\ tomb' \subseteq Ops
      /\ runner \in Runner /\ o \in Ops /\ runner.pc = "refuse" /\ route.fence <= o
  BY DEF RejectActivation, At, TypeOK, Runner
<1>2. route.active \in Ops \cup {NoOp} /\ route.active \in Nat /\ route.fence \in Nat /\ o \in Nat
  BY <1>1, OpsAreNumbers DEF TypeOK, Route
<1>3. /\ route' \in Route /\ route'.fence = o /\ route'.status = "failed"
      /\ route'.active = route.active
  BY <1>1, <1>2, RoutedIs DEF RejectActivation
<1>4. /\ runner' \in Runner /\ runner'.pc = "begin" /\ runner'.op = o
      /\ runner'.prior = runner.prior /\ runner'.target = o
  BY <1>1, RetiringRuns DEF RejectActivation
<1>5. RunnerInv'
  BY <1>1, <1>3, <1>4, OpsAreNumbers DEF RunnerInv, At, RetireSteps
<1>6. route'.active <= route'.fence
  BY <1>1, <1>2, <1>3 DEF RouteInv
<1>7. \A p \in Ops : p = route'.active => pool[p].state # "none" /\ "retire" \notin gate[p]
  BY <1>3 DEF RouteInv
<1> HIDE DEF RuntimeInv
<1> QED
  BY <1>1, <1>3, <1>4, <1>5, <1>6, <1>7, OpsAreNumbers, RouteMoves

\* A reservation that is being retired keeps its slot, until the service is
\* masked and the gate closed.
LEMMA RetirementInv ==
  ASSUME RuntimeInv, BeginRetirement \/ ReconcileRetirement
  PROVE  RuntimeInv'
<1> USE DEF RuntimeInv
<1> DEFINE t == runner.target
           o == runner.op
<1>1. /\ UNCHANGED <<inbox, late, gate, unit, route, tomb, conn>>
      /\ runner \in Runner /\ runner.pc \in {"begin", "reconcile"} /\ o \in Ops /\ o # NoOp
      /\ t \in Ops /\ pool[t] \in Reservation /\ pool[t].state # "none"
      /\ route.fence = o /\ route.status \in {"active", "failed"} /\ pool[o].state # "none"
  BY OpsAreNumbers
     DEF BeginRetirement, ReconcileRetirement, At, TypeOK, Runner, RunnerInv, RetireSteps
<1>2. runner.after \in {"sweep", "settle"} /\ runner.after \in Steps
  BY <1>1 DEF Runner, Steps
<1>3. CASE UNCHANGED pool /\ GoTo(runner.after)
  <2>1. /\ runner' \in Runner /\ runner'.pc \in {"sweep", "settle"} /\ runner'.op = o
        /\ runner'.prior = runner.prior
    BY <1>1, <1>2, <1>3, GoesTo
  <2>2. RunnerInv'
    BY <1>1, <1>3, <2>1 DEF RunnerInv, At, RetireSteps
  <2>3. inbox' \in [Ops -> {"none", "queued", "processing", "settled"}]
    BY <1>1 DEF TypeOK
  <2> HIDE DEF RuntimeInv
  <2> QED
    BY <1>1, <1>3, <2>1, <2>2, <2>3, RunnerMoves
<1>4. ASSUME NEW s \in {"retiring", "retired"},
             pool' = [pool EXCEPT ![t] = [@ EXCEPT !.state = s]],
             s = "retired" => "retire" \in gate[t] /\ unit[t] = "masked" /\ GoTo(runner.after),
             s = "retiring" => GoTo("tombstone") /\ pool[t].state # "retired"
      PROVE  RuntimeInv'
  <2> DEFINE r == [pool[t] EXCEPT !.state = s]
  <2>1. r \in Reservation /\ r.slot = pool[t].slot /\ r.state = s
    BY <1>1 DEF Reservation
  <2>2. pool' = [pool EXCEPT ![t] = r]
    BY <1>4
  <2> HIDE DEF r, t, o
  <2>3. /\ pool' \in [Ops -> Reservation] /\ pool'[t] = r
        /\ \A p \in Ops \ {t} : pool'[p] = pool[p]
        /\ \A p \in Ops : /\ Slot(p)' = Slot(p)
                          /\ pool'[p].state = "none" <=> pool[p].state = "none"
                          /\ pool'[p].slot = NoSlot <=> pool'[p].state = "none"
                          /\ pool'[p].state = "starting" => pool'[p].install = "done"
    BY <1>1, <2>1, <2>2, Reserved
  <2>4. /\ runner' \in Runner /\ runner'.op = o /\ runner'.prior = runner.prior
        /\ runner'.target = t
        /\ \/ runner'.pc = "tombstone" /\ s = "retiring"
           \/ runner'.pc \in {"sweep", "settle"} /\ s = "retired"
    BY <1>1, <1>2, <1>4, GoesTo DEF Steps, t, o
  <2>5. \A p \in Ops : Outstanding(p)' => Outstanding(p)
    BY <1>1, <1>4, <2>1, <2>3 DEF Outstanding
  <2>6. TypeOK'
    BY <1>1, <2>3, <2>4 DEF TypeOK, At
  <2>7. RunnerInv'
    <3>1. runner.prior # NoOp => pool'[runner.prior].state # "none"
      BY <1>1, <2>3 DEF Runner, RunnerInv
    <3>2. pool'[o].state # "none" /\ pool'[t].state = s /\ t # NoOp
      BY <1>1, <2>1, <2>3, OpsAreNumbers
    <3>3. inbox'[o] = "processing" /\ route'.fence = o /\ route'.status \in {"active", "failed"}
      BY <1>1 DEF RunnerInv, o
    <3> QED
      BY <2>4, <3>1, <3>2, <3>3 DEF RunnerInv, At, RetireSteps
  <2>8. SlotInv'
    <3>1. \A p \in Ops : unit[p] \in {"queued", "running"} => Outstanding(p)'
      BY <1>4, <2>1, <2>3 DEF SlotInv, Outstanding
    <3> QED
      BY <1>1, <2>3, <2>5, <3>1 DEF SlotInv
  <2>9. GateInv'
    <3>1. \A p \in Ops : "retire" \in gate[p] => pool'[p].state \in {"retiring", "retired"}
      BY <2>1, <2>3 DEF GateInv
    <3>2. \A p \in Ops : unit[p] = "masked" \/ pool'[p].state = "retired" => "retire" \in gate[p]
      BY <1>4, <2>1, <2>3 DEF GateInv
    <3> QED
      BY <1>1, <3>1, <3>2 DEF GateInv
  <2>10. RouteInv'
    BY <1>1, <2>3 DEF RouteInv
  <2> QED
    BY <2>6, <2>7, <2>8, <2>9, <2>10
<1> QED
  BY <1>3, <1>4 DEF BeginRetirement, ReconcileRetirement

\* The gate is closed when neither a request nor the route is on the backend.
LEMMA DrainedInv ==
  ASSUME RuntimeInv, WithDrainedBackend
  PROVE  RuntimeInv'
<1> USE DEF RuntimeInv
<1> DEFINE t == runner.target
<1>1. /\ UNCHANGED <<inbox, late, pool, unit, route, tomb, conn>>
      /\ runner \in Runner /\ runner.pc = "drain" /\ runner.op # NoOp
      /\ t \in Ops /\ pool[t].state = "retiring"
  BY DEF WithDrainedBackend, At, TypeOK, Runner, RunnerInv, RetireSteps
<1>2. route.active # t /\ \A c \in Clients : conn[c] # t
  BY <1>1, OpsAreNumbers DEF WithDrainedBackend, Busy, SameBackend
<1>3. gate' = [gate EXCEPT ![t] = @ \cup {"retire"}] /\ GoTo("stop")
  BY DEF WithDrainedBackend
<1>4. /\ runner' \in Runner /\ runner'.pc = "stop" /\ runner'.op = runner.op
      /\ runner'.prior = runner.prior /\ runner'.target = t
  BY <1>1, <1>3, GoesTo DEF Steps
<1> HIDE DEF t
<1>5. /\ gate' \in [Ops -> SUBSET {"install", "start", "retire"}] /\ "retire" \in gate'[t]
      /\ \A p \in Ops \ {t} : gate'[p] = gate[p]
  BY <1>1, <1>3 DEF TypeOK
<1>6. TypeOK'
  BY <1>1, <1>4, <1>5 DEF TypeOK, At
<1>7. RunnerInv'
  BY <1>1, <1>4, <1>5 DEF RunnerInv, At, RetireSteps, t
<1>8. GateInv'
  BY <1>1, <1>5 DEF GateInv
<1>9. RouteInv'
  BY <1>1, <1>2, <1>5 DEF RouteInv
<1> QED
  BY <1>1, <1>6, <1>7, <1>8, <1>9 DEF SlotInv, Outstanding, Slot

LEMMA MaskInv ==
  ASSUME RuntimeInv, RetireSystemd
  PROVE  RuntimeInv'
<1> USE DEF RuntimeInv
<1> DEFINE t == runner.target
<1>1. /\ UNCHANGED <<inbox, late, pool, gate, route, tomb, conn>>
      /\ runner \in Runner /\ runner.pc = "stop" /\ runner.op # NoOp
      /\ t \in Ops /\ "retire" \in gate[t]
      /\ unit' = [unit EXCEPT ![t] = "masked"] /\ GoTo("reconcile")
  BY DEF RetireSystemd, At, TypeOK, Runner, RunnerInv, RetireSteps
<1>2. /\ runner' \in Runner /\ runner'.pc = "reconcile" /\ runner'.op = runner.op
      /\ runner'.prior = runner.prior /\ runner'.target = t
  BY <1>1, GoesTo DEF Steps
<1>3. /\ unit' \in [Ops -> {"absent", "queued", "running", "masked"}] /\ unit'[t] = "masked"
      /\ \A p \in Ops \ {t} : unit'[p] = unit[p]
  BY <1>1 DEF TypeOK
<1>4. TypeOK'
  BY <1>1, <1>2, <1>3 DEF TypeOK, At
<1>5. RunnerInv'
  BY <1>1, <1>2 DEF RunnerInv, At, RetireSteps
<1> HIDE DEF t
<1>6. SlotInv' /\ GateInv' /\ RouteInv'
  BY <1>1, <1>3 DEF SlotInv, GateInv, RouteInv, Outstanding, Slot
<1> QED
  BY <1>4, <1>5, <1>6

LEMMA StepInv == RuntimeInv /\ [Next]_vars => RuntimeInv'
BY StutterInv, StopsInv, OutsideInv, RequestInv, TakeUpInv, SettleInv, HealthyInv, SweepInv,
   ReserveInv, PrepareInv, GateAttemptInv, LaunchInv, ActivateFenceInv, ActivateCommitInv,
   FenceRetirementInv, RejectInv, RetirementInv, DrainedInv, MaskInv
   DEF Next, RunnerStep, Fault

-----------------------------------------------------------------------------
(* Every step is one of the contract, or one the portal cannot see.        *)

\* The promise of an operation that the inbox moves from one state to another.
LEMMA PromiseOfOne ==
  ASSUME NEW o \in Ops, NEW e, Promised'[o] = e, \A p \in Ops \ {o} : inbox'[p] = inbox[p]
  PROVE  Promised' = [Promised EXCEPT ![o] = e]
<1>1. \A p \in Ops \ {o} : Promised'[p] = Promised[p]
  BY DEF Promised
<1>2. /\ Promised = [p \in Ops |-> Promised[p]]
      /\ Promised' = [p \in Ops |-> Promised'[p]]
  BY DEF Promised
<1> QED
  BY <1>1, <1>2

\* The operation in hand is accepted and not settled.
LEMMA InHandIsAccepted ==
  ASSUME RuntimeInv, ~At("idle")
  PROVE  runner.op \in Ops /\ Promised[runner.op] = "accepted" /\ inbox[runner.op] = "processing"
<1>1. runner.op \in Ops /\ runner.op # NoOp
  BY DEF RuntimeInv, TypeOK, Runner
<1> QED
  BY <1>1 DEF RuntimeInv, RunnerInv, Promised

LEMMA ContractStep ==
  RuntimeInv /\ [Next]_vars => [Contract!RuntimeNext]_<<Promised, route>>
<1> SUFFICES ASSUME RuntimeInv, [Next]_vars
             PROVE  Contract!RuntimeNext \/ UNCHANGED <<Promised, route>>
  OBVIOUS
<1>1. UNCHANGED inbox => UNCHANGED Promised
  BY DEF Promised
<1>2. ASSUME NEW o \in Ops, SubmitNodeRuntime(o)
      PROVE  Contract!Accept(o)
  <2>1. /\ inbox[o] = "none" /\ inbox' = [inbox EXCEPT ![o] = "queued"] /\ UNCHANGED route
        /\ \A p \in Ops : inbox[p] # "none" => p < o
    BY <1>2 DEF SubmitNodeRuntime
  <2>2. inbox'[o] = "queued" /\ \A p \in Ops \ {o} : inbox'[p] = inbox[p]
    BY <2>1 DEF RuntimeInv, TypeOK
  <2>3. Promised[o] = "none" /\ Promised'[o] = "accepted"
    BY <2>1, <2>2 DEF Promised
  <2>4. \A p \in Ops : Promised[p] # "none" => p < o
    BY <2>1 DEF Promised
  <2>5. Promised' = [Promised EXCEPT ![o] = "accepted"]
    BY <2>2, <2>3, PromiseOfOne
  <2> QED
    BY <2>1, <2>3, <2>4, <2>5 DEF Contract!Accept, Contract!Ops, Ops
<1>3. ASSUME NEW o \in Ops, Claim(o)
      PROVE  UNCHANGED <<Promised, route>>
  <2>1. inbox[o] = "queued" /\ inbox' = [inbox EXCEPT ![o] = "processing"] /\ UNCHANGED route
    BY <1>3 DEF Claim
  <2>2. inbox'[o] = "processing" /\ \A p \in Ops \ {o} : inbox'[p] = inbox[p]
    BY <2>1 DEF RuntimeInv, TypeOK
  <2> QED
    BY <2>1, <2>2 DEF Promised
<1>4. CASE Settle
  <2> DEFINE o == runner.op
  <2>1. /\ o \in Ops /\ Promised[o] = "accepted"
        /\ route.fence = o /\ route.status \in {"active", "failed"}
    BY <1>4, InHandIsAccepted DEF Settle, At, RuntimeInv, RunnerInv
  <2>2. inbox' = [inbox EXCEPT ![o] = "settled"] /\ UNCHANGED route
    BY <1>4 DEF Settle
  <2> HIDE DEF o
  <2>3. inbox'[o] = "settled" /\ \A p \in Ops \ {o} : inbox'[p] = inbox[p]
    BY <2>1, <2>2 DEF RuntimeInv, TypeOK
  <2>4. Promised'[o] = "settled"
    BY <2>1, <2>3 DEF Promised
  <2>5. Promised' = [Promised EXCEPT ![o] = "settled"]
    BY <2>1, <2>3, <2>4, PromiseOfOne
  <2> QED
    BY <2>1, <2>2, <2>5 DEF Contract!RuntimeNext, Contract!RuntimeStep, Contract!Close, Contract!Ops, Ops
<1>5. CASE ActivateFence
  <2>1. /\ runner.op \in Ops /\ Promised[runner.op] = "accepted" /\ route.fence < runner.op
        /\ route' = [fence |-> runner.op, status |-> "pending", active |-> route.active]
        /\ UNCHANGED Promised
    BY <1>1, <1>5, InHandIsAccepted DEF ActivateFence, At, Routed
  <2>2. Contract!Fence(runner.op)
    BY <2>1 DEF Contract!Fence
  <2> QED
    BY <2>1, <2>2 DEF Contract!RuntimeNext, Contract!RuntimeStep, Contract!Ops, Ops
<1>6. CASE ActivateCommit
  <2> DEFINE o == runner.op
  <2>1. /\ o \in Ops /\ Promised[o] = "accepted" /\ UNCHANGED Promised
        /\ route.fence = o /\ route.status = "pending"
    BY <1>1, <1>6, InHandIsAccepted DEF ActivateCommit, At
  <2> HIDE DEF o
  <2>2. o \in Nat
    BY <2>1, OpsAreNumbers
  <2>3. route.fence <= o
    BY <2>1, <2>2
  <2>4. route.active # o
    BY <2>1 DEF RuntimeInv, RouteInv
  <2>5. \/ route' = [fence |-> o, status |-> "active", active |-> o]
        \/ route' = [fence |-> o, status |-> "failed", active |-> route.active]
    BY <1>6 DEF ActivateCommit, Routed, o
  <2>6. Contract!Switch(o) \/ Contract!Refuse(o)
    BY <2>1, <2>3, <2>4, <2>5 DEF Contract!Switch, Contract!Refuse
  <2> QED
    BY <2>1, <2>6 DEF Contract!RuntimeNext, Contract!RuntimeStep, Contract!Ops, Ops
<1>7. CASE RejectFence
  <2> DEFINE o == runner.op
  <2>1. o \in Ops /\ Promised[o] = "accepted" /\ UNCHANGED Promised /\ FenceRetirement(o)
    BY <1>1, <1>7, InHandIsAccepted DEF RejectFence, At
  <2>2. CASE UNCHANGED route
    BY <2>1, <2>2
  <2>3. CASE /\ route.fence = o /\ MayRetire(o)
             /\ route' = [fence |-> o, status |-> "failed", active |-> route.active]
    <3> HIDE DEF o
    <3>1. o \in Nat
      BY <2>1, OpsAreNumbers
    <3>2. route.fence <= o
      BY <2>3, <3>1
    <3>3. route.active # o
      BY <2>3 DEF MayRetire
    <3>4. Contract!Refuse(o)
      BY <2>1, <2>3, <3>2, <3>3 DEF Contract!Refuse
    <3> QED
      BY <2>1, <3>4 DEF Contract!RuntimeNext, Contract!RuntimeStep, Contract!Ops, Ops
  <2> QED
    BY <2>1, <2>2, <2>3 DEF FenceRetirement, Routed
<1>8. CASE RejectActivation
  <2> DEFINE o == runner.op
  <2>1. /\ o \in Ops /\ Promised[o] = "accepted" /\ UNCHANGED Promised
        /\ route.fence <= o /\ route.active # o
        /\ route' = [fence |-> o, status |-> "failed", active |-> route.active]
    BY <1>1, <1>8, InHandIsAccepted DEF RejectActivation, At, MayRetire, Routed
  <2>2. Contract!Refuse(o)
    BY <2>1 DEF Contract!Refuse
  <2> QED
    BY <2>1, <2>2 DEF Contract!RuntimeNext, Contract!RuntimeStep, Contract!Ops, Ops
<1>9. CASE Tombstone
  <2>1. UNCHANGED inbox /\ runner.pc = "tombstone" /\ FenceRetirement(runner.target)
    BY <1>9 DEF Tombstone, At
  <2>2. route.status \in {"active", "failed"}
    BY <2>1 DEF RuntimeInv, RunnerInv, RetireSteps
  <2>3. UNCHANGED route
    BY <2>1, <2>2 DEF FenceRetirement
  <2> QED
    BY <1>1, <2>1, <2>3
<1>10. CASE \/ UNCHANGED vars
            \/ \E o \in Ops : DeadlinePasses(o) \/ UnitStarts(o) \/ RecoverProcessing(o)
            \/ \E c \in Clients : BeginRequest(c) \/ EndRequest(c)
            \/ Reserve \/ PrepareRelease \/ InstallNodeRelease \/ RecordInstalled \/ ClaimStart
            \/ GateStart \/ Launch \/ WaitHealthy \/ Sweep \/ BeginRetirement
            \/ WithDrainedBackend \/ RetireSystemd \/ ReconcileRetirement
            \/ StageExpires \/ Unhealthy \/ Fault
  <2>1. UNCHANGED <<inbox, route>>
    BY <1>10
       DEF vars, DeadlinePasses, UnitStarts, RecoverProcessing, BeginRequest, EndRequest, Reserve,
           PrepareRelease, InstallNodeRelease, RecordInstalled, ClaimStart, GateStart, Launch,
           WaitHealthy, Sweep, BeginRetirement, WithDrainedBackend, RetireSystemd,
           ReconcileRetirement, StageExpires, Unhealthy, Fault, RunnerFails, Crash, Reboot
  <2> QED
    BY <1>1, <2>1
<1> QED
  BY <1>2, <1>3, <1>4, <1>5, <1>6, <1>7, <1>8, <1>9, <1>10
     DEF Next, RunnerStep, Contract!RuntimeNext, Contract!Ops, Ops

-----------------------------------------------------------------------------
(* The theorems.                                                           *)

\* The invariant holds wherever the runner, the process or the host stops.
THEOREM Invariance == Spec => []RuntimeInv
BY InitInv, StepInv, PTL DEF Spec

\* The variables keep their types (NodeRuntime): a reservation has a slot from
\* the time it is made, and nothing starts before its installation is recorded.
THEOREM TypeCorrect == Spec => []TypeOK
BY Invariance, PTL DEF RuntimeInv

\* A UID and port are never used by two services, not even by one that a
\* forgotten systemd job may still start (Reserve, ReconcileRetirement).
THEOREM SlotsStayExclusive == Spec => []SlotsAreExclusive
<1>1. RuntimeInv => SlotsAreExclusive
  BY DEF RuntimeInv, SlotInv, SlotsAreExclusive, Outstanding
<1> QED
  BY <1>1, Invariance, PTL

\* A release is not stopped under a request that was routed to it, and its
\* backend is not handed to another one (BeginRequest, WithDrainedBackend,
\* RetireSystemd).
THEOREM RequestsStayDrained == Spec => []RequestsAreDrained
<1>1. RuntimeInv => RequestsAreDrained
  <2> SUFFICES ASSUME RuntimeInv, NEW c \in Clients, conn[c] # NoOp
               PROVE  /\ unit[conn[c]] # "masked" /\ "retire" \notin gate[conn[c]]
                      /\ \A o \in Ops \ {conn[c]} : Outstanding(o) => Slot(o) # Slot(conn[c])
    BY DEF RequestsAreDrained
  <2>1. conn[c] \in Ops
    BY DEF RuntimeInv, TypeOK
  <2>2. pool[conn[c]].state # "none" /\ "retire" \notin gate[conn[c]]
    BY <2>1 DEF RuntimeInv, RouteInv
  <2>3. unit[conn[c]] # "masked" /\ Outstanding(conn[c])
    BY <2>1, <2>2 DEF RuntimeInv, GateInv, Outstanding
  <2> QED
    BY <2>1, <2>2, <2>3 DEF RuntimeInv, SlotInv
<1> QED
  BY <1>1, Invariance, PTL

\* The runtime keeps its promise to the portal: every step of the stores, the
\* runner and systemd is a step of RuntimeContract or changes nothing the portal
\* can see, so that a settled operation is never routed to any more (Settle,
\* Activate, RejectActivation, FenceRetirement).
THEOREM RuntimeImplementsContract == Spec => ImplementsContract
<1>1. Init => Contract!RuntimeInit
  BY DEF Init, Contract!RuntimeInit, Promised, Contract!Ops, Contract!NoOp, Ops, NoOp
<1> QED
  BY <1>1, ContractStep, Invariance, PTL
     DEF Spec, ImplementsContract, Contract!RuntimeSpec, Contract!runtimeVars
=============================================================================
