-------------------------- MODULE RuntimeContract --------------------------
(***************************************************************************)
(* What a Node runtime promises the portal (the interfaces                 *)
(* NodeRuntimeSubmitter and NodeRuntimeReader): an accepted operation may  *)
(* fence the route, switch it to itself or be refused, and once it is      *)
(* settled none of this happens any more.  NodeRuntime implements it.      *)
(***************************************************************************)
EXTENDS Naturals

CONSTANT MaxOp     \* bound on operations; an operation is its revision

Ops == 1..MaxOp
NoOp == 0

VARIABLES
  stage,   \* what the runtime has promised of each operation
  route    \* the routing state it reports: fence, status, active

runtimeVars == <<stage, route>>

RuntimeTypeOK ==
  /\ stage \in [Ops -> {"none", "accepted", "settled"}]
  /\ route \in [fence  : Ops \cup {NoOp},
                status : {"none", "pending", "active", "failed"},
                active : Ops \cup {NoOp}]

RuntimeInit ==
  /\ stage = [o \in Ops |-> "none"]
  /\ route = [fence |-> NoOp, status |-> "none", active |-> NoOp]

\* Operations are accepted once, in the order of revisions.
Accept(o) ==
  /\ stage[o] = "none"
  /\ \A p \in Ops : stage[p] # "none" => p < o
  /\ stage' = [stage EXCEPT ![o] = "accepted"]
  /\ UNCHANGED route

\* The operation is known to the router and its outcome is not.
Fence(o) ==
  /\ stage[o] = "accepted"
  /\ route.fence < o
  /\ route' = [fence |-> o, status |-> "pending", active |-> route.active]
  /\ UNCHANGED stage

Switch(o) ==
  /\ stage[o] = "accepted"
  /\ route.fence = o /\ route.status = "pending"
  /\ route' = [fence |-> o, status |-> "active", active |-> o]
  /\ UNCHANGED stage

\* The failure is published and the serving route retained.
Refuse(o) ==
  /\ stage[o] = "accepted"
  /\ route.fence <= o /\ route.active # o
  /\ route' = [fence |-> o, status |-> "failed", active |-> route.active]
  /\ UNCHANGED stage

\* Settled: nothing outstanding can change the operation's result.
Close(o) ==
  /\ stage[o] = "accepted"
  /\ route.fence = o /\ route.status \in {"active", "failed"}
  /\ stage' = [stage EXCEPT ![o] = "settled"]
  /\ UNCHANGED route

RuntimeStep == \E o \in Ops : Fence(o) \/ Switch(o) \/ Refuse(o) \/ Close(o)

RuntimeNext == RuntimeStep \/ \E o \in Ops : Accept(o)

RuntimeSpec == RuntimeInit /\ [][RuntimeNext]_runtimeVars
=============================================================================
