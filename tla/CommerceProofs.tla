--------------------------- MODULE CommerceProofs --------------------------
(***************************************************************************)
(* Proofs about HostingBilling, DomainPurchase and ProjectDeletion, for    *)
(* every number of checkouts, workers, changes at the provider and faults, *)
(* and every set of orders and of websites.                                *)
(***************************************************************************)
EXTENDS HostingBilling, DomainPurchase, ProjectDeletion, FiniteSetTheorems, TLAPS

-----------------------------------------------------------------------------
(* HostingBilling: the inductive invariant.                                *)

\* A worker's task tells where it can be.
TaskInv ==
  \A w \in BillingWorkers :
    /\ worker[w].task = "idle" <=> worker[w].at = "rest"
    /\ worker[w].task = "create" <=> worker[w].at \in {"call", "bind"}
    /\ worker[w].at = "signal" => worker[w].task = "event"

\* A create is of a pending request, whose key the provider still knows, and no
\* two are of the same one.
CreateInv ==
  /\ \A q \in Requests : made[q] <= 1
  /\ \A w \in BillingWorkers : worker[w].task = "create" =>
       request[worker[w].ref] = "pending" /\ age[worker[w].ref] <= 1
  /\ \A w, x \in BillingWorkers :
       worker[w].task = "create" /\ worker[x].task = "create" /\ worker[w].ref = worker[x].ref
         => w = x

\* One checkout is held at a time, and one whose session was completed is held
\* for good: its session cannot also expire.
BillingSessionInv ==
  /\ \A c, d \in Checkouts : HoldsCheckout(c) /\ HoldsCheckout(d) => c = d
  /\ \A c \in Checkouts : session[c] = "completed" => request[c] \in {"open", "completed"}
  /\ \A c \in Checkouts : made[c] = 0 => session[c] = "none"
  /\ \A c \in Checkouts : inbox[<<"expired", c>>] # "none" => session[c] = "expired"

\* Signals come after the change they are about.
SignalInv ==
  /\ \A e \in Signals : inbox[e] # "none" => e[2] <= Len(history)
  /\ \A w \in BillingWorkers : worker[w].task = "event" =>
       worker[w].event \in 1 .. MaxChanges /\ worker[w].event <= Len(history)

\* A processed signal leaves no observation of the subscription from before its
\* change, neither stored nor about to be.
SubscriptionInv ==
  \A e \in Signals : inbox[e] = "processed" =>
    /\ observed["subscription"] = 0 \/ observed["subscription"] > e[2]
    /\ \A w \in BillingWorkers :
         worker[w].task = "subscription" /\ worker[w].at = "store" /\ worker[w].fenced = "no"
           => worker[w].seen > e[2]

ReadsCharge(w) == worker[w].task \in {"charge", "event"} /\ worker[w].at \in {"read", "store"}

\* Of the reads of the charge the newest alone is not fenced, so that its
\* observation never goes back; that of a charge event is from after its change.
ChargeInv ==
  /\ observed["charge"] <= Version
  /\ \A w, x \in BillingWorkers :
       ReadsCharge(w) /\ ReadsCharge(x) /\ worker[w].fenced = "no" /\ worker[x].fenced = "no"
         => w = x
  /\ \A w \in BillingWorkers : ReadsCharge(w) /\ worker[w].at = "store" =>
       /\ worker[w].seen <= Version
       /\ worker[w].fenced = "no" => observed["charge"] <= worker[w].seen
       /\ worker[w].task = "event" => worker[w].seen > worker[w].event
  /\ \A w \in BillingWorkers : worker[w].at = "signal" => observed["charge"] > worker[w].event
  /\ \A e \in Signals : e[1] = "charge" /\ inbox[e] = "processed" => observed["charge"] > e[2]

BillingInv ==
  /\ BillingTypeOK
  /\ TaskInv
  /\ CreateInv
  /\ BillingSessionInv
  /\ SignalInv
  /\ SubscriptionInv
  /\ ChargeInv

-----------------------------------------------------------------------------
(* HostingBilling: lemmas about the operators.                             *)

\* A signal names an aspect and a change; it is not the end of a session.
LEMMA EventFacts ==
  /\ \A e \in Signals : e \in Events /\ e[1] \in Aspects /\ e[2] \in 1 .. MaxChanges
                        /\ e \notin SessionEvents
  /\ \A e \in SessionEvents : /\ e \in Events /\ e[1] \in {"completed", "expired"}
                              /\ e[2] \in Checkouts /\ e = <<e[1], e[2]>>
                              /\ e \notin Signals
  /\ \A c \in Checkouts : <<"expired", c>> \in SessionEvents
BY DEF Signals, SessionEvents, Events, Aspects

LEMMA RestingFacts ==
  /\ Resting \in Worker /\ Resting.task = "idle" /\ Resting.at = "rest"
BY BillingAssumption DEF Resting, Task, Worker, Requests, CustomerRequest

\* Fencing changes nothing but the fence of the workers that read.
LEMMA FenceFacts ==
  ASSUME BillingTypeOK, NEW tasks
  PROVE  /\ Fence(tasks) \in [BillingWorkers -> Worker]
         /\ \A w \in BillingWorkers :
              /\ Fence(tasks)[w].task = worker[w].task /\ Fence(tasks)[w].ref = worker[w].ref
              /\ Fence(tasks)[w].event = worker[w].event /\ Fence(tasks)[w].at = worker[w].at
              /\ Fence(tasks)[w].seen = worker[w].seen
              /\ Fence(tasks)[w].fenced =
                   IF worker[w].task \in tasks /\ worker[w].at \in {"read", "store"}
                   THEN "yes" ELSE worker[w].fenced
<1>1. \A w \in BillingWorkers : worker[w] \in Worker
  BY DEF BillingTypeOK
<1>2. \A w \in BillingWorkers :
        Fence(tasks)[w] = IF worker[w].task \in tasks /\ worker[w].at \in {"read", "store"}
                          THEN [worker[w] EXCEPT !.fenced = "yes"] ELSE worker[w]
  BY DEF Fence, Reading
<1>3. \A w \in BillingWorkers : Fence(tasks)[w] \in Worker
  BY <1>1, <1>2 DEF Worker
<1>4. Fence(tasks) \in [BillingWorkers -> Worker]
  BY <1>3 DEF Fence
<1>5. ASSUME NEW w \in BillingWorkers
      PROVE  /\ Fence(tasks)[w].task = worker[w].task /\ Fence(tasks)[w].ref = worker[w].ref
             /\ Fence(tasks)[w].event = worker[w].event /\ Fence(tasks)[w].at = worker[w].at
             /\ Fence(tasks)[w].seen = worker[w].seen
             /\ Fence(tasks)[w].fenced =
                  IF worker[w].task \in tasks /\ worker[w].at \in {"read", "store"}
                  THEN "yes" ELSE worker[w].fenced
  BY <1>1, <1>2 DEF Worker
<1> QED
  BY <1>4, <1>5

-----------------------------------------------------------------------------
(* HostingBilling: every action preserves the invariant.                   *)

LEMMA BillingInitInv == BillingInit => BillingInv
<1> SUFFICES ASSUME BillingInit
             PROVE  BillingInv
  OBVIOUS
<1> USE DEF BillingInit
<1>1. BillingTypeOK
  BY RestingFacts, BillingAssumption DEF BillingTypeOK
<1>2. TaskInv /\ CreateInv
  BY RestingFacts DEF TaskInv, CreateInv
<1>3. BillingSessionInv
  BY EventFacts DEF BillingSessionInv, HoldsCheckout, Requests
<1>4. SignalInv /\ SubscriptionInv
  BY RestingFacts, EventFacts DEF SignalInv, SubscriptionInv
<1>5. ChargeInv
  BY RestingFacts, EventFacts DEF ChargeInv, ReadsCharge, Version, Aspects
<1> QED
  BY <1>1, <1>2, <1>3, <1>4, <1>5 DEF BillingInv

LEMMA BillingStutterInv == BillingInv /\ UNCHANGED billingVars => BillingInv'
BY DEF BillingInv, BillingTypeOK, TaskInv, CreateInv, BillingSessionInv, HoldsCheckout, SignalInv,
       SubscriptionInv, ChargeInv, ReadsCharge, Version, billingVars

\* The provider: a session that was completed is of an open checkout.
LEMMA SessionEndsInv ==
  ASSUME BillingInv, NEW c \in Checkouts, NEW s \in {"completed", "expired"}, SessionEnds(c, s)
  PROVE  BillingInv'
<1> USE DEF BillingInv, SessionEnds
<1>1. BillingTypeOK'
  BY DEF BillingTypeOK
<1>2. TaskInv' /\ CreateInv' /\ SignalInv' /\ SubscriptionInv'
  BY DEF TaskInv, CreateInv, SignalInv, SubscriptionInv
<1>3. ChargeInv'
  BY DEF ChargeInv, ReadsCharge, Version
<1>4. BillingSessionInv'
  BY DEF BillingSessionInv, HoldsCheckout, BillingTypeOK
<1> QED
  BY <1>1, <1>2, <1>3, <1>4

LEMMA ProviderChangesInv ==
  ASSUME BillingInv, NEW a \in Aspects, ProviderChanges(a)
  PROVE  BillingInv'
<1> USE DEF BillingInv, ProviderChanges
<1>1. history' \in Seq(Aspects) /\ Len(history) \in Nat /\ Len(history') = Len(history) + 1
  BY DEF BillingTypeOK
<1>2. BillingTypeOK'
  BY <1>1 DEF BillingTypeOK
<1>3. TaskInv' /\ CreateInv' /\ BillingSessionInv' /\ SubscriptionInv'
  BY DEF TaskInv, CreateInv, BillingSessionInv, HoldsCheckout, SubscriptionInv
<1>4. SignalInv'
  BY <1>1, EventFacts, BillingAssumption DEF SignalInv, BillingTypeOK, Worker
<1>5. ChargeInv'
  BY <1>1 DEF ChargeInv, ReadsCharge, Version, BillingTypeOK, Worker, Aspects
<1> QED
  BY <1>2, <1>3, <1>4, <1>5

LEMMA ObservationAgesInv ==
  ASSUME BillingInv, NEW a \in Aspects, ObservationAges(a)
  PROVE  BillingInv'
<1> USE DEF BillingInv, ObservationAges
<1>1. BillingTypeOK'
  BY BillingAssumption DEF BillingTypeOK
<1>2. TaskInv' /\ CreateInv' /\ BillingSessionInv'
  BY DEF TaskInv, CreateInv, BillingSessionInv, HoldsCheckout
<1>3. SignalInv' /\ SubscriptionInv' /\ ChargeInv'
  BY DEF SignalInv, SubscriptionInv, ChargeInv, ReadsCharge, Version
<1> QED
  BY <1>1, <1>2, <1>3

\* An event is delivered after what it tells of.
LEMMA AcceptBillingWebhookInv ==
  ASSUME BillingInv, NEW e \in Events, AcceptBillingWebhook(e)
  PROVE  BillingInv'
<1> USE DEF BillingInv, AcceptBillingWebhook
<1>1. inbox'[e] = "pending" /\ \A f \in Events \ {e} : inbox'[f] = inbox[f]
  BY DEF BillingTypeOK
<1>2. \A f \in Events : inbox'[f] = "processed" => inbox[f] = "processed"
  BY <1>1
<1>3. BillingTypeOK'
  BY DEF BillingTypeOK
<1>4. TaskInv' /\ CreateInv'
  BY DEF TaskInv, CreateInv
<1>5. BillingSessionInv'
  <2>1. e \in SessionEvents => session[e[2]] = e[1]
    BY DEF Emitted
  <2>2. \A c \in Checkouts : e = <<"expired", c>> => session[c] = "expired"
    BY <2>1, EventFacts
  <2> QED
    BY <1>1, <2>2, EventFacts DEF BillingSessionInv, HoldsCheckout
<1>6. SignalInv'
  <2>1. e \in Signals => e[2] <= Len(history)
    BY EventFacts DEF Emitted
  <2> QED
    BY <1>1, <2>1, EventFacts DEF SignalInv
<1>7. SubscriptionInv' /\ ChargeInv'
  BY <1>2, EventFacts DEF SubscriptionInv, ChargeInv, ReadsCharge, Version
<1> QED
  BY <1>3, <1>4, <1>5, <1>6, <1>7

\* The owner's requests: a checkout when none is held.
LEMMA RequestsInv ==
  ASSUME BillingInv, NEW q \in Requests, request[q] = "none",
         q \in Checkouts => \A d \in Checkouts : ~ HoldsCheckout(d),
         request' = [request EXCEPT ![q] = "pending"],
         UNCHANGED <<age, made, session, history, inbox, known, chargeRow, observed, fresh, worker,
                     faults>>
  PROVE  BillingInv'
<1> USE DEF BillingInv
<1>1. request'[q] = "pending" /\ \A r \in Requests \ {q} : request'[r] = request[r]
  BY DEF BillingTypeOK
<1>2. BillingTypeOK'
  BY DEF BillingTypeOK
<1>3. CreateInv'
  BY <1>1 DEF CreateInv, BillingTypeOK, Worker
<1>4. BillingSessionInv'
  BY <1>1 DEF BillingSessionInv, HoldsCheckout, Requests
<1>5. TaskInv' /\ SignalInv' /\ SubscriptionInv' /\ ChargeInv'
  BY DEF TaskInv, SignalInv, SubscriptionInv, ChargeInv, ReadsCharge, Version
<1> QED
  BY <1>2, <1>3, <1>4, <1>5

LEMMA OwnerInv ==
  ASSUME BillingInv, RequestBillingCustomer \/ \E c \in Checkouts : RequestBillingCheckout(c)
  PROVE  BillingInv'
<1>1. CustomerRequest \in Requests /\ CustomerRequest \notin Checkouts
  BY BillingAssumption DEF Requests, CustomerRequest, Checkouts
<1>2. CASE RequestBillingCustomer
  BY <1>1, <1>2, RequestsInv DEF RequestBillingCustomer
<1>3. ASSUME NEW c \in Checkouts, RequestBillingCheckout(c)
      PROVE  BillingInv'
  BY <1>3, RequestsInv DEF RequestBillingCheckout, Requests
<1> QED
  BY <1>2, <1>3

\* A day does not end during a create.
LEMMA HoursPassInv ==
  ASSUME BillingInv, NEW q \in Requests, HoursPass(q)
  PROVE  BillingInv'
<1> USE DEF BillingInv, HoursPass
<1>1. /\ age[q] \in 0 .. 1 /\ age' \in [Requests -> 0 .. 2] /\ age'[q] = age[q] + 1
      /\ \A r \in Requests \ {q} : age'[r] = age[r]
  <2>1. age \in [Requests -> 0 .. 2] /\ age[q] \in 0 .. 1
    BY DEF BillingTypeOK
  <2>2. age' = [age EXCEPT ![q] = age[q] + 1] /\ age[q] + 1 \in 0 .. 2
    BY <2>1
  <2> QED
    BY <2>1, <2>2
<1>2. CreateInv'
  <2> SUFFICES ASSUME NEW w \in BillingWorkers, worker[w].task = "create"
               PROVE  age'[worker[w].ref] <= 1
    BY DEF CreateInv
  <2>1. worker[w].ref \in Requests
    BY DEF BillingTypeOK, Worker
  <2>2. CASE worker[w].ref = q
    BY <1>1, <2>2
  <2>3. CASE worker[w].ref # q
    BY <1>1, <2>1, <2>3 DEF CreateInv
  <2> QED
    BY <2>2, <2>3
<1>4. BillingTypeOK'
  BY <1>1 DEF BillingTypeOK
<1>3. TaskInv' /\ BillingSessionInv' /\ SignalInv' /\ SubscriptionInv' /\ ChargeInv'
  BY DEF TaskInv, BillingSessionInv, HoldsCheckout, SignalInv, SubscriptionInv, ChargeInv, ReadsCharge,
         Version
<1> QED
  BY <1>2, <1>3, <1>4

\* A task that ends without a trace leaves everything to the next one.
LEMMA EndsInv ==
  ASSUME BillingInv, NEW w \in BillingWorkers, worker' = [worker EXCEPT ![w] = Resting],
         faults' \in 0 .. MaxBillingFaults,
         UNCHANGED <<request, age, made, session, history, inbox, known, chargeRow, observed, fresh>>
  PROVE  BillingInv'
<1> USE DEF BillingInv
<1>1. worker'[w] = Resting /\ \A x \in BillingWorkers \ {w} : worker'[x] = worker[x]
  BY DEF BillingTypeOK
<1>2. BillingTypeOK'
  BY RestingFacts DEF BillingTypeOK
<1>3. TaskInv' /\ CreateInv'
  BY <1>1, RestingFacts DEF TaskInv, CreateInv
<1>4. BillingSessionInv' /\ SignalInv' /\ SubscriptionInv'
  BY <1>1, RestingFacts DEF BillingSessionInv, HoldsCheckout, SignalInv, SubscriptionInv
<1>5. ChargeInv'
  BY <1>1, RestingFacts DEF ChargeInv, ReadsCharge, Version
<1> QED
  BY <1>2, <1>3, <1>4, <1>5

LEMMA TaskEndsInv ==
  ASSUME BillingInv, NEW w \in BillingWorkers, TaskFails(w) \/ ReadIsDropped(w)
  PROVE  BillingInv'
<1>1. faults' \in 0 .. MaxBillingFaults
  BY BillingAssumption DEF TaskFails, ReadIsDropped, BillingInv, BillingTypeOK
<1> QED
  BY <1>1, EndsInv DEF TaskFails, ReadIsDropped

LEMMA TakeCreateInv ==
  ASSUME BillingInv, NEW w \in BillingWorkers, NEW q \in Requests, TakeCreate(w, q)
  PROVE  BillingInv'
<1> USE DEF BillingInv, TakeCreate
<1>1. worker' = [worker EXCEPT ![w] =
                  [task |-> "create", ref |-> q, event |-> 0, at |-> "call", fenced |-> "no",
                   seen |-> 0]]
  BY DEF Take, Task
<1>2. /\ worker'[w] = [task |-> "create", ref |-> q, event |-> 0, at |-> "call", fenced |-> "no",
                       seen |-> 0]
      /\ \A x \in BillingWorkers \ {w} : worker'[x] = worker[x]
  BY <1>1 DEF BillingTypeOK
<1>3. worker' \in [BillingWorkers -> Worker]
  BY <1>1, BillingAssumption DEF BillingTypeOK, Worker
<1>4. BillingTypeOK'
  BY <1>3 DEF BillingTypeOK
<1>5. TaskInv'
  BY <1>2 DEF TaskInv
<1>6. CreateInv'
  BY <1>2 DEF CreateInv, CustomerRetryable, CheckoutRetryable, Doing
<1>7. BillingSessionInv' /\ SignalInv' /\ SubscriptionInv'
  BY <1>2 DEF BillingSessionInv, HoldsCheckout, SignalInv, SubscriptionInv
<1>8. ChargeInv'
  BY <1>2 DEF ChargeInv, ReadsCharge, Version
<1> QED
  BY <1>4, <1>5, <1>6, <1>7, <1>8

\* The create of a request whose key the provider knows makes one object.
LEMMA CreateStepInv ==
  ASSUME BillingInv, NEW w \in BillingWorkers, CreateCustomer(w) \/ CreatePinnedCheckout(w)
  PROVE  BillingInv'
<1> USE DEF BillingInv
<1>1. PICK q \in Requests :
        /\ Create(w, q)
        /\ session' = IF q = CustomerRequest \/ made' = made THEN session
                      ELSE [session EXCEPT ![q] = "open"]
  BY BillingAssumption DEF CreateCustomer, CreatePinnedCheckout, Requests, CustomerRequest, Checkouts
<1>2. worker[w] \in Worker /\ worker[w].task = "create" /\ worker[w].ref = q
  BY <1>1 DEF Create, TaskInv, BillingTypeOK
<1>3. request[q] = "pending" /\ age[q] \in 0 .. 1
  BY <1>2 DEF CreateInv, BillingTypeOK
<1>4. \/ made[q] = 0 /\ made' = [made EXCEPT ![q] = 1]
      \/ made[q] # 0 /\ made' = made
  <2>1. made' = IF made[q] = 0 \/ age[q] = 2 THEN [made EXCEPT ![q] = made[q] + 1] ELSE made
    BY <1>1 DEF Create
  <2>2. age[q] # 2
    BY <1>3
  <2>3. CASE made[q] = 0
    <3>1. made[q] + 1 = 1
      BY <2>3
    <3> QED
      BY <2>1, <2>3, <3>1
  <2>4. CASE made[q] # 0
    BY <2>1, <2>2, <2>4
  <2> QED
    BY <2>3, <2>4
<1>5. /\ worker'[w] \in Worker /\ worker'[w].task = "create" /\ worker'[w].ref = q
      /\ worker'[w].at = "bind"
      /\ worker' \in [BillingWorkers -> Worker]
      /\ \A x \in BillingWorkers \ {w} : worker'[x] = worker[x]
  BY <1>1, <1>2 DEF Create, BillingTypeOK, Worker
<1>6. UNCHANGED <<request, age, history, inbox, known, chargeRow, observed, fresh, faults>>
  BY <1>1 DEF Create
<1>7. session' \in [Checkouts -> {"none", "open", "completed", "expired"}]
  BY <1>1 DEF BillingTypeOK
<1>8. BillingTypeOK'
  <2>1. made' \in [Requests -> Nat]
    BY <1>4 DEF BillingTypeOK
  <2> QED
    BY <1>5, <1>6, <1>7, <2>1 DEF BillingTypeOK
<1>9. TaskInv'
  BY <1>5 DEF TaskInv
<1>10. CreateInv'
  <2>1. \A r \in Requests : made'[r] <= 1
    <3>1. made \in [Requests -> Nat] /\ \A r \in Requests : made[r] <= 1
      BY DEF CreateInv, BillingTypeOK
    <3> QED
      BY <1>4, <3>1
  <2> QED
    BY <1>2, <1>5, <1>6, <2>1 DEF CreateInv
<1>11. BillingSessionInv'
  <2>1. \A c \in Checkouts \ {q} : session'[c] = session[c] /\ made'[c] = made[c]
    BY <1>1, <1>4 DEF BillingTypeOK, Requests
  <2>2. CASE q \in Checkouts
    <3>1. q # CustomerRequest
      BY <2>2 DEF CustomerRequest, Checkouts
    <3>2. CASE made[q] = 0
      <4>1. session[q] = "none" /\ session'[q] = "open" /\ made'[q] = 1
        BY <1>1, <1>4, <2>2, <3>1, <3>2 DEF BillingSessionInv, BillingTypeOK
      <4>2. inbox[<<"expired", q>>] = "none"
        BY <2>2, <4>1 DEF BillingSessionInv
      <4> QED
        BY <1>6, <2>1, <2>2, <4>1, <4>2 DEF BillingSessionInv, HoldsCheckout
    <3>3. CASE made[q] # 0
      BY <1>1, <1>4, <1>6, <3>3 DEF BillingSessionInv, HoldsCheckout
    <3> QED
      BY <3>2, <3>3
  <2>3. CASE q \notin Checkouts
    BY <1>6, <2>1, <2>3 DEF BillingSessionInv, HoldsCheckout
  <2> QED
    BY <2>2, <2>3
<1>12. SignalInv' /\ SubscriptionInv'
  BY <1>5, <1>6 DEF SignalInv, SubscriptionInv
<1>13. ChargeInv'
  BY <1>5, <1>6 DEF ChargeInv, ReadsCharge, Version
<1> QED
  BY <1>8, <1>9, <1>10, <1>11, <1>12, <1>13

\* The answer is bound to the request that is pending.
LEMMA BindInv ==
  ASSUME BillingInv, NEW w \in BillingWorkers, BindBillingCustomer(w) \/ BindBillingCheckout(w)
  PROVE  BillingInv'
<1> USE DEF BillingInv
<1>1. PICK q \in Requests : Bind(w, q)
  BY DEF BindBillingCustomer, BindBillingCheckout, Requests
<1>2. worker[w].task = "create" /\ worker[w].ref = q /\ request[q] = "pending"
  BY <1>1 DEF Bind, TaskInv, CreateInv
<1>3. /\ request'[q] = "open" /\ \A r \in Requests \ {q} : request'[r] = request[r] /\ age'[r] = age[r]
      /\ age'[q] = 0
  BY <1>1 DEF Bind, BillingTypeOK
<1>4. worker'[w] = Resting /\ \A x \in BillingWorkers \ {w} : worker'[x] = worker[x]
  BY <1>1 DEF Bind, BillingTypeOK
<1>5. UNCHANGED <<made, session, history, inbox, known, chargeRow, observed, fresh, faults>>
  BY <1>1 DEF Bind
<1>6. BillingTypeOK'
  BY <1>1, RestingFacts DEF Bind, BillingTypeOK
<1>7. TaskInv'
  BY <1>4, RestingFacts DEF TaskInv
<1>8. CreateInv'
  <2>1. \A x \in BillingWorkers : worker[x].ref \in Requests
    BY DEF BillingTypeOK, Worker
  <2>2. \A x \in BillingWorkers : worker'[x].task = "create" =>
          x # w /\ worker'[x] = worker[x] /\ worker[x].ref # q
    BY <1>2, <1>4, RestingFacts DEF CreateInv
  <2> QED
    BY <1>3, <1>5, <2>1, <2>2 DEF CreateInv
<1>9. BillingSessionInv'
  BY <1>2, <1>3, <1>5 DEF BillingSessionInv, HoldsCheckout, Requests
<1>10. SignalInv' /\ SubscriptionInv'
  BY <1>4, <1>5, RestingFacts DEF SignalInv, SubscriptionInv
<1>11. ChargeInv'
  BY <1>4, <1>5, RestingFacts DEF ChargeInv, ReadsCharge, Version
<1> QED
  BY <1>6, <1>7, <1>8, <1>9, <1>10, <1>11

\* The end of a session: a completed one cannot have expired.
LEMMA ProcessCheckoutEventInv ==
  ASSUME BillingInv, NEW w \in BillingWorkers, NEW e \in Events, ProcessCheckoutEvent(w, e)
  PROVE  BillingInv'
<1> USE DEF BillingInv
<1> DEFINE c == e[2]
<1>1. e \in SessionEvents /\ inbox[e] = "pending"
  BY DEF ProcessCheckoutEvent
<1>2. c \in Checkouts /\ c \in Requests /\ e[1] \in {"completed", "expired"} /\ e = <<e[1], c>>
  BY <1>1, EventFacts DEF Requests
<1>3. UNCHANGED <<age, made, session, history, chargeRow, observed, fresh, worker, faults>>
  BY DEF ProcessCheckoutEvent
<1>4. \/ UNCHANGED request
      \/ request[c] \in {"open", e[1]} /\ request' = [request EXCEPT ![c] = e[1]]
  BY DEF ProcessCheckoutEvent
<1>5. /\ inbox' \in [Events -> {"none", "pending", "processed", "ignored"}]
      /\ inbox'[e] # "none" /\ \A f \in Events \ {e} : inbox'[f] = inbox[f]
  BY DEF ProcessCheckoutEvent, BillingTypeOK
<1>6. known' \in {"yes", "no"}
  BY DEF ProcessCheckoutEvent, BillingTypeOK
<1> HIDE DEF c
<1>7. BillingTypeOK'
  <2>1. request' \in [Requests -> {"none", "pending", "open", "completed", "expired"}]
    BY <1>2, <1>4 DEF BillingTypeOK
  <2> QED
    BY <1>3, <1>5, <1>6, <2>1 DEF BillingTypeOK
<1>8. TaskInv'
  BY <1>3 DEF TaskInv
<1>9. CreateInv'
  <2>1. \A x \in BillingWorkers : worker[x].task = "create" =>
          worker[x].ref # c \/ UNCHANGED request
    BY <1>2, <1>4 DEF CreateInv, BillingTypeOK, Worker
  <2>2. \A r \in Requests \ {c} : request'[r] = request[r]
    BY <1>2, <1>4 DEF BillingTypeOK
  <2> QED
    BY <1>3, <2>1, <2>2 DEF CreateInv, BillingTypeOK, Worker
<1>10. BillingSessionInv'
  <2>1. e[1] = "expired" => session[c] = "expired"
    BY <1>1, <1>2 DEF BillingSessionInv
  <2>2. \A d \in Checkouts : HoldsCheckout(d)' => HoldsCheckout(d)
    BY <1>2, <1>4 DEF HoldsCheckout, BillingTypeOK, Requests
  <2>3. \A d \in Checkouts : session[d] = "completed" => request'[d] \in {"open", "completed"}
    BY <1>2, <1>4, <2>1 DEF BillingSessionInv, BillingTypeOK, Requests
  <2>4. \A d \in Checkouts : inbox'[<<"expired", d>>] # "none" => inbox[<<"expired", d>>] # "none"
    BY <1>1, <1>5, EventFacts
  <2> QED
    BY <1>3, <2>2, <2>3, <2>4 DEF BillingSessionInv
<1>11. \A f \in Signals : inbox'[f] = inbox[f]
  BY <1>1, <1>5, EventFacts
<1>12. SignalInv' /\ SubscriptionInv' /\ ChargeInv'
  BY <1>3, <1>11 DEF SignalInv, SubscriptionInv, ChargeInv, ReadsCharge, Version
<1> QED
  BY <1>7, <1>8, <1>9, <1>10, <1>12

\* A signal was processed: it is not a session's, the snapshot is dropped, and
\* reads of the subscription under way are fenced.  The rest of two actions.
LEMMA SubscriptionDropped ==
  ASSUME BillingInv, NEW e \in Signals,
         e[2] <= Len(history), e[1] = "charge" => observed["charge"] > e[2],
         observed' = [observed EXCEPT !["subscription"] = 0],
         fresh' = fresh \ {"subscription"},
         inbox' = [inbox EXCEPT ![e] = "processed"],
         worker' \in [BillingWorkers -> Worker],
         \A x \in BillingWorkers :
           \/ worker'[x] = Resting
           \/ worker'[x] = Fence({"subscription"})[x],
         UNCHANGED <<request, age, made, session, history, known, chargeRow, faults>>
  PROVE  BillingInv'
<1> USE DEF BillingInv
<1> DEFINE F == Fence({"subscription"})
<1>1. /\ observed' \in [Aspects -> Nat]
      /\ observed'["subscription"] = 0 /\ observed'["charge"] = observed["charge"]
  BY DEF BillingTypeOK, Aspects
<1>2. /\ inbox' \in [Events -> {"none", "pending", "processed", "ignored"}]
      /\ inbox'[e] = "processed" /\ \A f \in Events \ {e} : inbox'[f] = inbox[f]
  BY EventFacts DEF BillingTypeOK
<1>3. \A x \in BillingWorkers : worker'[x].task # "idle" =>
        /\ worker'[x].task = worker[x].task /\ worker'[x].ref = worker[x].ref
        /\ worker'[x].event = worker[x].event /\ worker'[x].at = worker[x].at
        /\ worker'[x].seen = worker[x].seen
        /\ worker'[x].fenced =
             IF worker[x].task \in {"subscription"} /\ worker[x].at \in {"read", "store"}
             THEN "yes" ELSE worker[x].fenced
  <2> SUFFICES ASSUME NEW x \in BillingWorkers, worker'[x].task # "idle"
               PROVE  /\ worker'[x].task = worker[x].task /\ worker'[x].ref = worker[x].ref
                      /\ worker'[x].event = worker[x].event /\ worker'[x].at = worker[x].at
                      /\ worker'[x].seen = worker[x].seen
                      /\ worker'[x].fenced =
                           IF worker[x].task \in {"subscription"} /\ worker[x].at \in {"read", "store"}
                           THEN "yes" ELSE worker[x].fenced
    OBVIOUS
  <2>1. worker'[x] = F[x]
    BY RestingFacts
  <2> HIDE DEF F
  <2> QED
    BY <2>1, FenceFacts DEF F
<1>4. \A x \in BillingWorkers : worker'[x].task = "idle" => worker'[x].at = "rest"
  <2>1. \A x \in BillingWorkers : F[x].task = worker[x].task /\ F[x].at = worker[x].at
    BY FenceFacts
  <2> QED
    BY <2>1, RestingFacts DEF TaskInv
<1>5. BillingTypeOK'
  BY <1>1, <1>2 DEF BillingTypeOK
<1>6. TaskInv' /\ CreateInv'
  BY <1>3, <1>4 DEF TaskInv, CreateInv
<1>7. BillingSessionInv'
  BY <1>2, EventFacts DEF BillingSessionInv, HoldsCheckout
<1>8. SignalInv'
  BY <1>2, <1>3, EventFacts DEF SignalInv
<1>9. SubscriptionInv'
  BY <1>1, <1>3, <1>4 DEF SubscriptionInv
<1>10. ChargeInv'
  <2>1. \A x \in BillingWorkers : ReadsCharge(x)' =>
          ReadsCharge(x) /\ worker'[x].fenced = worker[x].fenced
    BY <1>3 DEF ReadsCharge
  <2>2. \A f \in Signals : f[1] = "charge" /\ inbox'[f] = "processed" => observed["charge"] > f[2]
    BY <1>2, EventFacts DEF ChargeInv
  <2> QED
    BY <1>1, <1>3, <1>4, <2>1, <2>2 DEF ChargeInv, ReadsCharge, Version
<1> QED
  BY <1>5, <1>6, <1>7, <1>8, <1>9, <1>10

LEMMA ProcessSubscriptionEventInv ==
  ASSUME BillingInv, NEW w \in BillingWorkers, NEW e \in Events, ProcessSubscriptionEvent(w, e)
  PROVE  BillingInv'
<1> USE DEF BillingInv, ProcessSubscriptionEvent
<1>1. e \in Signals /\ e[2] <= Len(history)
  BY DEF SignalInv
<1>2. worker' \in [BillingWorkers -> Worker]
  BY FenceFacts
<1> QED
  BY <1>1, <1>2, SubscriptionDropped

LEMMA FinishChargeEventInv ==
  ASSUME BillingInv, NEW w \in BillingWorkers, FinishChargeEvent(w)
  PROVE  BillingInv'
<1> USE DEF BillingInv
<1> DEFINE e == <<"charge", worker[w].event>>
<1>1. worker[w].task = "event" /\ observed["charge"] > worker[w].event
  BY DEF FinishChargeEvent, TaskInv, ChargeInv
<1>2. worker[w].event \in 1 .. MaxChanges /\ worker[w].event <= Len(history)
  BY <1>1 DEF SignalInv
<1>3. e \in Signals
  BY <1>2 DEF Signals, Aspects
<1>4. worker' = [Fence({"subscription"}) EXCEPT ![w] = Resting]
  BY DEF FinishChargeEvent
<1>5. worker' \in [BillingWorkers -> Worker]
  BY <1>4, FenceFacts, RestingFacts
<1>6. \A x \in BillingWorkers : worker'[x] = Resting \/ worker'[x] = Fence({"subscription"})[x]
  BY <1>4, FenceFacts
<1> QED
  BY <1>1, <1>2, <1>3, <1>5, <1>6, SubscriptionDropped DEF FinishChargeEvent

\* A read of the subscription has seen nothing yet.
LEMMA StartSubscriptionInv ==
  ASSUME BillingInv, NEW w \in BillingWorkers, StartSubscription(w)
  PROVE  BillingInv'
<1> USE DEF BillingInv, StartSubscription
<1> DEFINE t == Task("subscription", CustomerRequest, 0, "read")
<1>1. t \in Worker /\ t.task = "subscription" /\ t.at = "read"
  BY BillingAssumption DEF Task, Worker, Requests
<1>2. worker' = [worker EXCEPT ![w] = t]
  BY DEF Take
<1> HIDE DEF t
<1>3. worker'[w] = t /\ \A x \in BillingWorkers \ {w} : worker'[x] = worker[x]
  BY <1>2 DEF BillingTypeOK
<1>4. BillingTypeOK'
  BY <1>1, <1>2 DEF BillingTypeOK
<1>5. TaskInv' /\ CreateInv'
  BY <1>1, <1>3 DEF TaskInv, CreateInv
<1>6. BillingSessionInv' /\ SignalInv' /\ SubscriptionInv'
  BY <1>1, <1>3 DEF BillingSessionInv, HoldsCheckout, SignalInv, SubscriptionInv
<1>7. ChargeInv'
  BY <1>1, <1>3 DEF ChargeInv, ReadsCharge, Version
<1> QED
  BY <1>4, <1>5, <1>6, <1>7

\* A read of the charge fences the others.
LEMMA ChargeReadInv ==
  ASSUME BillingInv, NEW w \in BillingWorkers, NEW task \in {"charge", "event"},
         NEW event \in 0 .. MaxChanges,
         task = "event" => event \in 1 .. MaxChanges /\ event <= Len(history),
         TakeChargeGeneration(w, task, event), chargeRow' \in {"yes", "no"},
         UNCHANGED <<request, age, made, session, history, inbox, known, observed, fresh>>
  PROVE  BillingInv'
<1> USE DEF BillingInv
<1> DEFINE t == Task(task, CustomerRequest, event, "read")
           F == Fence({"charge", "event"})
<1>1. t \in Worker /\ t.task = task /\ t.at = "read" /\ t.event = event
  BY BillingAssumption DEF Task, Worker, Requests
<1>2. worker' = [F EXCEPT ![w] = t]
  BY DEF TakeChargeGeneration
<1>3. F \in [BillingWorkers -> Worker]
  BY FenceFacts
<1>4. worker' \in [BillingWorkers -> Worker] /\ worker'[w] = t
  BY <1>1, <1>2, <1>3
<1>5. \A x \in BillingWorkers \ {w} :
        /\ worker'[x].task = worker[x].task /\ worker'[x].ref = worker[x].ref
        /\ worker'[x].event = worker[x].event /\ worker'[x].at = worker[x].at
        /\ worker'[x].seen = worker[x].seen
        /\ worker'[x].fenced =
             IF worker[x].task \in {"charge", "event"} /\ worker[x].at \in {"read", "store"}
             THEN "yes" ELSE worker[x].fenced
  <2> SUFFICES ASSUME NEW x \in BillingWorkers \ {w}
               PROVE  /\ worker'[x].task = worker[x].task /\ worker'[x].ref = worker[x].ref
                      /\ worker'[x].event = worker[x].event /\ worker'[x].at = worker[x].at
                      /\ worker'[x].seen = worker[x].seen
                      /\ worker'[x].fenced =
                           IF worker[x].task \in {"charge", "event"} /\ worker[x].at \in {"read", "store"}
                           THEN "yes" ELSE worker[x].fenced
    OBVIOUS
  <2>1. worker'[x] = F[x]
    BY <1>2, <1>3
  <2> HIDE DEF F
  <2> QED
    BY <2>1, FenceFacts DEF F
<1> HIDE DEF t, F
<1>6. faults' \in 0 .. MaxBillingFaults
  BY BillingAssumption DEF TakeChargeGeneration, BillingTypeOK
<1>7. BillingTypeOK'
  BY <1>4, <1>6 DEF BillingTypeOK
<1>8. TaskInv' /\ CreateInv'
  BY <1>1, <1>4, <1>5 DEF TaskInv, CreateInv
<1>9. BillingSessionInv'
  BY DEF BillingSessionInv, HoldsCheckout
<1>10. SignalInv'
  BY <1>1, <1>4, <1>5 DEF SignalInv
<1>11. SubscriptionInv'
  BY <1>1, <1>4, <1>5 DEF SubscriptionInv
<1>12. ChargeInv'
  BY <1>1, <1>4, <1>5 DEF ChargeInv, ReadsCharge, Version
<1> QED
  BY <1>7, <1>8, <1>9, <1>10, <1>11, <1>12

LEMMA StartChargeInv ==
  ASSUME BillingInv, NEW w \in BillingWorkers,
         StartCharge(w) \/ \E e \in Events : StartChargeEvent(w, e)
  PROVE  BillingInv'
<1> USE DEF BillingInv
<1>1. CASE StartCharge(w)
  <2>1. chargeRow' \in {"yes", "no"} /\ 0 \in 0 .. MaxChanges
    BY <1>1, BillingAssumption DEF StartCharge, BillingTypeOK
  <2> QED
    BY <1>1, <2>1, ChargeReadInv DEF StartCharge
<1>2. ASSUME NEW e \in Events, StartChargeEvent(w, e)
      PROVE  BillingInv'
  <2>1. e \in Signals /\ e[2] <= Len(history)
    BY <1>2 DEF StartChargeEvent, SignalInv
  <2>2. e[2] \in 0 .. MaxChanges /\ e[2] \in 1 .. MaxChanges
    BY <2>1, EventFacts, BillingAssumption
  <2> QED
    BY <1>2, <2>1, <2>2, ChargeReadInv DEF StartChargeEvent
<1> QED
  BY <1>1, <1>2

\* What is read now is after every change that was signalled.
LEMMA ReadProviderInv ==
  ASSUME BillingInv, NEW w \in BillingWorkers, ReadProvider(w)
  PROVE  BillingInv'
<1> USE DEF BillingInv, ReadProvider
<1>1. Len(history) \in Nat /\ Version \in Nat /\ Version > Len(history)
  BY DEF BillingTypeOK, Version
<1>2. worker[w] \in Worker
  BY DEF BillingTypeOK
<1>3. /\ worker'[w] \in Worker /\ worker'[w].task = worker[w].task
      /\ worker'[w].event = worker[w].event /\ worker'[w].fenced = worker[w].fenced
      /\ worker'[w].at = "store" /\ worker'[w].seen = Version
      /\ \A x \in BillingWorkers \ {w} : worker'[x] = worker[x]
      /\ worker' \in [BillingWorkers -> Worker]
  BY <1>1, <1>2 DEF BillingTypeOK, Worker
<1>4. worker[w].task \in {"subscription", "charge", "event"}
  BY <1>2 DEF TaskInv, Worker
<1>5. BillingTypeOK'
  BY <1>3 DEF BillingTypeOK
<1>6. TaskInv' /\ CreateInv'
  BY <1>3, <1>4 DEF TaskInv, CreateInv
<1>7. BillingSessionInv' /\ SignalInv'
  BY <1>3 DEF BillingSessionInv, HoldsCheckout, SignalInv
<1>8. SubscriptionInv'
  <2>1. \A e \in Signals : inbox[e] = "processed" => e[2] <= Len(history) /\ e[2] \in Nat
    BY EventFacts, BillingAssumption DEF SignalInv
  <2> QED
    BY <1>1, <1>3, <2>1 DEF SubscriptionInv
<1>9. ChargeInv'
  <2>1. \A x \in BillingWorkers : ReadsCharge(x)' => ReadsCharge(x)
    BY <1>3 DEF ReadsCharge
  <2>2. worker[w].task = "event" => worker[w].event \in Nat /\ Version > worker[w].event
    BY <1>1, <1>2, BillingAssumption DEF SignalInv, Worker
  <2>3. Version' = Version
    BY DEF Version
  <2> QED
    BY <1>1, <1>3, <2>1, <2>2, <2>3 DEF ChargeInv, ReadsCharge
<1> QED
  BY <1>5, <1>6, <1>7, <1>8, <1>9

\* The snapshot of a read that was not fenced is after every processed signal.
LEMMA StoreSubscriptionInv ==
  ASSUME BillingInv, NEW w \in BillingWorkers, StoreSubscription(w)
  PROVE  BillingInv'
<1> USE DEF BillingInv, StoreSubscription, MayStore
<1>1. worker'[w] = Resting /\ \A x \in BillingWorkers \ {w} : worker'[x] = worker[x]
  BY DEF BillingTypeOK
<1>2. /\ observed'["subscription"] = worker[w].seen /\ observed'["charge"] = observed["charge"]
      /\ observed' \in [Aspects -> Nat]
  BY DEF BillingTypeOK, Worker, Aspects
<1>3. BillingTypeOK'
  BY <1>2, RestingFacts DEF BillingTypeOK, Aspects
<1>4. TaskInv' /\ CreateInv'
  BY <1>1, RestingFacts DEF TaskInv, CreateInv
<1>5. BillingSessionInv' /\ SignalInv'
  BY <1>1, RestingFacts DEF BillingSessionInv, HoldsCheckout, SignalInv
<1>6. SubscriptionInv'
  BY <1>1, <1>2, RestingFacts DEF SubscriptionInv
<1>7. ChargeInv'
  BY <1>1, <1>2, RestingFacts DEF ChargeInv, ReadsCharge, Version
<1> QED
  BY <1>3, <1>4, <1>5, <1>6, <1>7

\* The observation of the charge only grows.
LEMMA StoreChargeInv ==
  ASSUME BillingInv, NEW w \in BillingWorkers, StoreCharge(w)
  PROVE  BillingInv'
<1> USE DEF BillingInv, StoreCharge, MayStore
<1>1. /\ worker[w] \in Worker /\ ReadsCharge(w) /\ worker[w].seen \in Nat
      /\ worker[w].seen <= Version /\ observed["charge"] <= worker[w].seen
      /\ observed["charge"] \in Nat
  BY DEF BillingTypeOK, Worker, ReadsCharge, ChargeInv, Aspects
<1>2. /\ observed'["charge"] = worker[w].seen /\ observed'["subscription"] = observed["subscription"]
      /\ observed' \in [Aspects -> Nat]
  BY <1>1 DEF BillingTypeOK, Aspects
<1>3. \/ worker'[w] = Resting
      \/ /\ worker[w].task = "event" /\ worker'[w] \in Worker
         /\ worker'[w].task = "event" /\ worker'[w].at = "signal"
         /\ worker'[w].event = worker[w].event
  BY <1>1 DEF BillingTypeOK, Worker
<1>4. \A x \in BillingWorkers \ {w} : worker'[x] = worker[x]
  BY DEF BillingTypeOK
<1>5. worker' \in [BillingWorkers -> Worker]
  BY <1>3, RestingFacts DEF BillingTypeOK
<1>6. BillingTypeOK'
  BY <1>2, <1>5 DEF BillingTypeOK, Aspects
<1>7. TaskInv' /\ CreateInv'
  BY <1>3, <1>4, RestingFacts DEF TaskInv, CreateInv
<1>8. BillingSessionInv' /\ SignalInv'
  BY <1>3, <1>4, RestingFacts DEF BillingSessionInv, HoldsCheckout, SignalInv
<1>9. SubscriptionInv'
  BY <1>2, <1>3, <1>4, RestingFacts DEF SubscriptionInv
<1>10. ChargeInv'
  <2>1. \A x \in BillingWorkers : ReadsCharge(x)' =>
          x # w /\ ReadsCharge(x) /\ worker[x].fenced = "yes" /\ worker'[x] = worker[x]
    BY <1>1, <1>3, <1>4, RestingFacts DEF ReadsCharge, ChargeInv, BillingTypeOK, Worker
  <2>2. \A x \in BillingWorkers : worker'[x].at = "signal" => observed'["charge"] > worker'[x].event
    <3>1. \A x \in BillingWorkers : worker[x].event \in Nat
      BY BillingAssumption DEF BillingTypeOK, Worker
    <3>2. worker[w].task = "event" => worker[w].seen > worker[w].event
      BY <1>1 DEF ChargeInv
    <3> QED
      BY <1>1, <1>2, <1>3, <1>4, <3>1, <3>2, RestingFacts DEF ChargeInv
  <2>3. \A e \in Signals : e[1] = "charge" /\ inbox[e] = "processed" => observed'["charge"] > e[2]
    BY <1>1, <1>2, EventFacts, BillingAssumption DEF ChargeInv
  <2>4. Version' = Version
    BY DEF Version
  <2> QED
    BY <1>1, <1>2, <2>1, <2>2, <2>3, <2>4 DEF ChargeInv
<1> QED
  BY <1>6, <1>7, <1>8, <1>9, <1>10

LEMMA BillingStepInv == BillingInv /\ [BillingNext]_billingVars => BillingInv'
BY BillingStutterInv, SessionEndsInv, ProviderChangesInv, ObservationAgesInv, AcceptBillingWebhookInv,
   OwnerInv, HoursPassInv, TaskEndsInv, TakeCreateInv, CreateStepInv, BindInv,
   ProcessCheckoutEventInv, ProcessSubscriptionEventInv, FinishChargeEventInv,
   StartSubscriptionInv, StartChargeInv, ReadProviderInv, StoreSubscriptionInv, StoreChargeInv
   DEF BillingNext, WorkerProceeds

-----------------------------------------------------------------------------
(* HostingBilling: the theorems.                                           *)

\* The invariant holds of hosting billing, whatever is lost, repeated or late.
THEOREM BillingInvariance == BillingSpec => []BillingInv
BY BillingInitInv, BillingStepInv, PTL DEF BillingSpec

\* The variables keep their types (HostingBilling).
THEOREM BillingTypeCorrect == BillingSpec => []BillingTypeOK
BY BillingInvariance, PTL DEF BillingInv

\* No request makes a second customer or session at the provider, and a workspace
\* never completes two checkouts, for any number of workers that repeat creates
\* after lost answers (BillingCheckoutWork, RequestBillingCheckout).
THEOREM ChargedOnce == BillingSpec => []BilledOnce
<1>1. BillingInv => BilledOnce
  <2> SUFFICES ASSUME BillingInv
               PROVE  BilledOnce
    OBVIOUS
  <2>1. \A q \in Requests : made[q] <= 1
    BY DEF BillingInv, CreateInv
  <2> DEFINE done == {c \in Checkouts : session[c] = "completed"}
  <2>2. \A c, d \in done : c = d
    BY DEF BillingInv, BillingSessionInv, HoldsCheckout
  <2>3. Cardinality(done) <= 1
    <3> HIDE DEF done
    <3>1. CASE done = {}
      BY <3>1, FS_EmptySet
    <3>2. CASE done # {}
      <4>1. PICK c : c \in done
        BY <3>2
      <4>2. done = {c}
        BY <2>2, <4>1
      <4>3. Cardinality({c}) = 1
        BY FS_Singleton
      <4> QED
        BY <4>2, <4>3
    <3> QED
      BY <3>1, <3>2
  <2> QED
    BY <2>1, <2>3 DEF BilledOnce
<1> QED
  BY <1>1, BillingInvariance, PTL

\* Hosting is never allowed on an observation older than a change whose signal
\* was processed, for any number of workers whose reads and events complete in
\* any order (the generations of ReconcileBillingSubscription and
\* ReconcileBillingCharge).
THEOREM SignalsAreHeeded == BillingSpec => []AccessHeedsSignals
<1>1. BillingInv => AccessHeedsSignals
  <2> SUFFICES ASSUME BillingInv, Allowed,
                      NEW e \in Signals, inbox[e] = "processed"
               PROVE  observed[e[1]] > e[2] /\ observed["subscription"] > e[2]
    BY DEF AccessHeedsSignals
  <2>1. observed["subscription"] # 0
    BY DEF Allowed, Good, Aspects
  <2>2. observed["subscription"] > e[2]
    BY <2>1 DEF BillingInv, SubscriptionInv
  <2>3. e[1] = "charge" => observed["charge"] > e[2]
    BY DEF BillingInv, ChargeInv
  <2>4. e[1] \in {"subscription", "charge"}
    BY EventFacts DEF Aspects
  <2> QED
    BY <2>2, <2>3, <2>4
<1> QED
  BY <1>1, BillingInvariance, PTL

-----------------------------------------------------------------------------
(* DomainPurchase: the inductive invariant.                                *)

\* A name has one purchase, a cancelled order none, and only a purchase is
\* charged.
PurchaseInv ==
  /\ \A o, p \in Orders :
       purchase[o] # "none" /\ purchase[p] # "none" /\ domain[o] = domain[p] => o = p
  /\ \A o \in Orders : order[o] = "canceled" => purchase[o] = "none"
  /\ \A o \in Orders : sessions[o] > 0 => purchase[o] # "none"
  /\ \A o \in Orders : o \in pass \/ starting[o] = "process" => purchase[o] # "none"
  /\ step.at # "rest" => step.of \in Orders /\ purchase[step.of] # "none"

\* A session is made again only under a key that the provider still knows.
DomainSessionInv ==
  /\ \A o \in Orders : sessions[o] <= 1
  /\ step.at \in {"create", "save"} => hours[step.of] <= 1

\* The attempt file is written before the registration, which is of a paid
\* session.
AttemptInv ==
  /\ \A o \in Orders : registered[o] <= 1
  /\ \A o \in Orders : registered[o] > 0 => attempt[o] # "none" /\ o \in paid
  /\ \A o \in Orders : purchase[o] = "registering" => o \in paid
  /\ step.at \in {"register", "order"} => step.of \in paid
  /\ step.at = "order" => registered[step.of] = 0 /\ attempt[step.of] # "none"

\* The intent file is written before the record is added.
IntentInv ==
  /\ \A o \in Orders : dns[o] <= 1
  /\ \A o \in Orders : dns[o] > 0 => o \in dnsIntent
  /\ step.at = "record" => dns[step.of] = 0 /\ step.of \in dnsIntent

DomainInv ==
  /\ DomainTypeOK
  /\ PurchaseInv
  /\ DomainSessionInv
  /\ AttemptInv
  /\ IntentInv

-----------------------------------------------------------------------------
(* DomainPurchase: every action preserves the invariant.                   *)

\* Who asks for a process, what the ticker has listed, and the faults.
CallsOK ==
  /\ starting \in [Orders -> {"no", "quote", "process"}]
  /\ pass \subseteq Orders
  /\ \A o \in Orders : o \in pass \/ starting[o] = "process" => purchase[o] # "none"
  /\ setbacks \in 0 .. MaxDomainFaults

LEMMA DomainInitInv == DomainInit => DomainInv
BY DomainAssumption
   DEF DomainInit, DomainInv, DomainTypeOK, PurchaseInv, DomainSessionInv, AttemptInv, IntentInv,
       AtRest, NoOrder

LEMMA DomainStutterInv == DomainInv /\ UNCHANGED domainVars => DomainInv'
BY DEF DomainInv, DomainTypeOK, PurchaseInv, DomainSessionInv, AttemptInv, IntentInv, domainVars

\* A purchase that exists moves on to another state, or to review, and process
\* comes to rest: nothing that counts depends on where it was.
LEMMA RestInv ==
  ASSUME DomainInv,
         \/ UNCHANGED purchase
         \/ \E o \in Orders, s \in {"connecting", "connected", "needs_review"} :
              purchase[o] # "none" /\ purchase' = [purchase EXCEPT ![o] = s],
         step' = AtRest, CallsOK',
         UNCHANGED <<domain, older, order, checkout, hours, website, attempt, dnsIntent,
                     sessions, paid, registered, dns>>
  PROVE  DomainInv'
<1> USE DEF DomainInv
<1>1. AtRest \in [at : {"rest"}, of : {NoOrder}]
  BY DEF AtRest
<1>2. /\ purchase' \in [Orders -> {"none", "payment_pending", "registering", "connecting",
                                   "connected", "needs_review"}]
      /\ \A p \in Orders : purchase'[p] # "none" <=> purchase[p] # "none"
      /\ \A p \in Orders : purchase'[p] = "registering" => purchase[p] = "registering"
  BY DEF DomainTypeOK
<1>3. DomainTypeOK'
  BY <1>1, <1>2 DEF DomainTypeOK, CallsOK
<1>4. PurchaseInv' /\ DomainSessionInv'
  BY <1>1, <1>2 DEF PurchaseInv, DomainSessionInv, CallsOK
<1>5. AttemptInv' /\ IntentInv'
  BY <1>1, <1>2 DEF AttemptInv, IntentInv
<1> QED
  BY <1>3, <1>4, <1>5

\* Orders, the website and the buyer.
LEMMA OrderInv ==
  ASSUME DomainInv, NEW o \in Orders,
         RequestDomainOrder(o) \/ CancelDomainOrder(o) \/ BeginStart(o)
  PROVE  DomainInv'
<1> USE DEF DomainInv
<1>1. UNCHANGED <<domain, older, pass, purchase, checkout, hours, website, step, attempt, dnsIntent, sessions, paid,
                  registered, dns, setbacks>>
  BY DEF RequestDomainOrder, CancelDomainOrder, BeginStart
<1>2. /\ order' \in [Orders -> {"none", "awaiting_payment", "canceled"}]
      /\ starting' \in [Orders -> {"no", "quote", "process"}]
      /\ \A p \in Orders : starting'[p] = "process" => starting[p] = "process"
      /\ \A p \in Orders : order'[p] = "canceled" =>
           order[p] = "canceled" \/ purchase[p] = "none"
  BY DEF RequestDomainOrder, CancelDomainOrder, MayCancel, BeginStart, DomainTypeOK
<1> QED
  BY <1>1, <1>2 DEF DomainTypeOK, PurchaseInv, DomainSessionInv, AttemptInv, IntentInv

\* The one purchase of a name comes to be, after those that are there.
LEMMA FinishStartInv ==
  ASSUME DomainInv, NEW o \in Orders, FinishStart(o)
  PROVE  DomainInv'
<1> USE DEF DomainInv, FinishStart
<1>1. CASE UNCHANGED <<purchase, older>>
  BY <1>1 DEF DomainTypeOK, PurchaseInv, DomainSessionInv, AttemptInv, IntentInv
<1>2. CASE ~ UNCHANGED <<purchase, older>>
  <2>1. /\ order[o] = "awaiting_payment"
        /\ \A p \in Orders : domain[p] = domain[o] => purchase[p] = "none"
        /\ purchase' = [purchase EXCEPT ![o] = "payment_pending"]
        /\ older' = [older EXCEPT ![o] = {p \in Orders : purchase[p] # "none"}]
    BY <1>2
  <2>2. UNCHANGED <<domain, order, checkout, hours, website, step, attempt, dnsIntent, sessions,
                    paid, registered, dns, setbacks>>
    OBVIOUS
  <2>3. /\ purchase'[o] = "payment_pending"
        /\ \A p \in Orders \ {o} : purchase'[p] = purchase[p] /\ starting'[p] = starting[p]
    BY <2>1 DEF DomainTypeOK
  <2>4. DomainTypeOK'
    BY <2>1 DEF DomainTypeOK
  <2>5. PurchaseInv'
    BY <2>1, <2>2, <2>3 DEF PurchaseInv
  <2>6. DomainSessionInv' /\ AttemptInv' /\ IntentInv'
    BY <2>2, <2>3 DEF DomainSessionInv, AttemptInv, IntentInv
  <2> QED
    BY <2>4, <2>5, <2>6
<1> QED
  BY <1>1, <1>2

LEMMA OutsideInv ==
  ASSUME DomainInv, NEW o \in Orders, RemoveWebsite(o) \/ BuyerPays(o)
  PROVE  DomainInv'
<1> USE DEF DomainInv
<1>1. UNCHANGED <<domain, older, pass, order, starting, purchase, checkout, hours, step, attempt, dnsIntent, sessions,
                  registered, dns, setbacks>>
  BY DEF RemoveWebsite, BuyerPays
<1>2. website' \in [Orders -> {"live", "removed"}] /\ paid' \subseteq Orders /\ paid \subseteq paid'
  BY DEF RemoveWebsite, BuyerPays, DomainTypeOK
<1> QED
  BY <1>1, <1>2 DEF DomainTypeOK, PurchaseInv, DomainSessionInv, AttemptInv, IntentInv

\* A day does not end during a call.
LEMMA HoursGoByInv ==
  ASSUME DomainInv, NEW o \in Orders, HoursGoBy(o)
  PROVE  DomainInv'
<1> USE DEF DomainInv, HoursGoBy
<1>1. DomainTypeOK'
  BY DEF DomainTypeOK
<1>2. PurchaseInv' /\ AttemptInv' /\ IntentInv'
  BY DEF PurchaseInv, AttemptInv, IntentInv
<1>3. DomainSessionInv'
  BY DEF DomainSessionInv, PurchaseInv, DomainTypeOK
<1> QED
  BY <1>1, <1>2, <1>3

\* Where process takes a purchase up; an old one without checkout is for review.
LEMMA ProcessInv ==
  ASSUME DomainInv, NEW o \in Orders, purchase[o] # "none", Process(o), CallsOK'
  PROVE  DomainInv'
<1> USE DEF DomainInv
<1> DEFINE ended == purchase[o] \in {"connected", "needs_review"}
           taken == website[o] = "live" /\ StepFor(o) # "review"
<1>1. step = AtRest /\ UNCHANGED <<domain, older, order, checkout, hours, website, attempt, dnsIntent,
                                  sessions, paid, registered, dns>>
  BY DEF Process
<1>2. CASE ended
  BY <1>1, <1>2, RestInv DEF Process
<1>3. CASE ~ended /\ taken
  <2>1. step' = [at |-> StepFor(o), of |-> o] /\ UNCHANGED purchase
    BY <1>3 DEF Process
  <2>2. /\ StepFor(o) \in {"register", "connect", "read", "create"}
        /\ StepFor(o) = "register" => purchase[o] = "registering"
        /\ StepFor(o) = "create" => hours[o] = 0
    BY <1>3 DEF StepFor
  <2>3. DomainTypeOK' /\ PurchaseInv'
    BY <1>1, <2>1, <2>2 DEF DomainTypeOK, PurchaseInv, CallsOK
  <2>4. DomainSessionInv' /\ AttemptInv' /\ IntentInv'
    BY <1>1, <2>1, <2>2 DEF DomainSessionInv, AttemptInv, IntentInv
  <2> QED
    BY <2>3, <2>4
<1>4. CASE ~ended /\ ~taken
  <2>1. step' = AtRest /\ purchase' = [purchase EXCEPT ![o] = "needs_review"]
    BY <1>1, <1>4 DEF Process, Review
  <2> QED
    BY <1>1, <2>1, RestInv
<1> QED
  BY <1>2, <1>3, <1>4

\* Who asks for it: Start, a page, or the ticker, whose list is of purchases.
LEMMA ProcessAskedInv ==
  ASSUME DomainInv, NEW o \in Orders,
         ProcessStarted(o) \/ ProcessWoken(o) \/ ProcessListed(o)
  PROVE  DomainInv'
<1> USE DEF DomainInv
<1>1. purchase[o] # "none"
  BY DEF ProcessStarted, ProcessWoken, ProcessListed, PurchaseInv
<1>2. CallsOK'
  BY DEF ProcessStarted, ProcessWoken, ProcessListed, Process, Review, CallsOK, DomainTypeOK, PurchaseInv
<1> QED
  BY <1>1, <1>2, ProcessInv DEF ProcessStarted, ProcessWoken, ProcessListed

\* The ticker lists purchases that are there.
LEMMA TickInv ==
  ASSUME DomainInv, Tick
  PROVE  DomainInv'
<1> USE DEF DomainInv, Tick
<1>1. UNCHANGED <<domain, older, order, starting, purchase, checkout, hours, website, step, attempt,
                  dnsIntent, sessions, paid, registered, dns, setbacks>>
  OBVIOUS
<1>2. pass' \subseteq Orders /\ \A o \in pass' : purchase[o] # "none"
  BY DEF RunLists, TakenUp
<1> QED
  BY <1>1, <1>2 DEF DomainTypeOK, PurchaseInv, DomainSessionInv, AttemptInv, IntentInv

\* The session is made, saved and read.
LEMMA CheckoutInv ==
  ASSUME DomainInv, CreateCheckout \/ SaveCheckout
  PROVE  DomainInv'
<1> USE DEF DomainInv
<1> DEFINE o == step.of
<1>1. o \in Orders /\ purchase[o] # "none" /\ hours[o] \in 0 .. 1
  BY DEF CreateCheckout, SaveCheckout, PurchaseInv, DomainSessionInv, DomainTypeOK
<1>2. step' \in [at : {"save", "read"}, of : {o}]
  BY <1>1 DEF CreateCheckout, SaveCheckout, Proceed, DomainTypeOK
<1>3. UNCHANGED <<domain, older, pass, order, starting, purchase, website, attempt, dnsIntent, paid, registered, dns,
                  setbacks>>
  BY DEF CreateCheckout, SaveCheckout
<1>4. /\ sessions' \in [Orders -> Nat] /\ sessions'[o] <= 1
      /\ \A p \in Orders \ {o} : sessions'[p] = sessions[p]
  BY <1>1 DEF CreateCheckout, SaveCheckout, DomainTypeOK, DomainSessionInv
<1>5. checkout' \in [Orders -> Nat] /\ hours' \in [Orders -> 0 .. 2] /\ hours'[o] <= 1
  BY <1>1 DEF CreateCheckout, SaveCheckout, DomainTypeOK
<1>6. DomainTypeOK'
  BY <1>1, <1>2, <1>3, <1>4, <1>5 DEF DomainTypeOK
<1>7. PurchaseInv' /\ DomainSessionInv'
  BY <1>1, <1>2, <1>3, <1>4, <1>5 DEF PurchaseInv, DomainSessionInv
<1>8. AttemptInv' /\ IntentInv'
  BY <1>2, <1>3 DEF AttemptInv, IntentInv
<1> QED
  BY <1>6, <1>7, <1>8

LEMMA ReadCheckoutInv ==
  ASSUME DomainInv, ReadCheckout
  PROVE  DomainInv'
<1> USE DEF DomainInv
<1> DEFINE o == step.of
<1>1. o \in Orders /\ purchase[o] # "none"
  BY DEF ReadCheckout, PurchaseInv
<1>2. CASE o \in paid
  <2>1. /\ purchase' = [purchase EXCEPT ![o] = "registering"]
        /\ step' = [at |-> "register", of |-> o]
        /\ UNCHANGED <<domain, older, pass, order, starting, checkout, hours, website, attempt, dnsIntent,
                       sessions, paid, registered, dns, setbacks>>
    BY <1>2 DEF ReadCheckout, Proceed, DomainTypeOK
  <2>2. /\ purchase'[o] = "registering"
        /\ \A p \in Orders \ {o} : purchase'[p] = purchase[p]
    BY <1>1, <2>1 DEF DomainTypeOK
  <2>3. DomainTypeOK'
    BY <1>1, <2>1 DEF DomainTypeOK
  <2>4. PurchaseInv'
    BY <1>1, <2>1, <2>2 DEF PurchaseInv
  <2>5. DomainSessionInv' /\ AttemptInv' /\ IntentInv'
    BY <1>2, <2>1, <2>2 DEF DomainSessionInv, AttemptInv, IntentInv
  <2> QED
    BY <2>3, <2>4, <2>5
<1>3. CASE o \notin paid
  <2>1. CallsOK'
    BY <1>1 DEF CallsOK, PurchaseInv, Review, ReadCheckout, DomainTypeOK
  <2> QED
    BY <1>1, <1>3, <2>1, RestInv DEF ReadCheckout
<1> QED
  BY <1>2, <1>3

\* The first attempt has registered nothing yet.
LEMMA AttemptStepsInv ==
  ASSUME DomainInv, BeginAttempt \/ WriteReceipt
  PROVE  DomainInv'
<1> USE DEF DomainInv
<1> DEFINE o == step.of
<1>1. o \in Orders /\ purchase[o] # "none"
  BY DEF BeginAttempt, WriteReceipt, PurchaseInv
<1>2. UNCHANGED <<domain, older, pass, order, starting, purchase, checkout, hours, website, dnsIntent, sessions, paid,
                  registered, dns, setbacks>>
  BY DEF BeginAttempt, WriteReceipt
<1>3. /\ attempt' \in [Orders -> {"none", "intent", "receipt"}]
      /\ attempt'[o] # "none" /\ \A p \in Orders \ {o} : attempt'[p] = attempt[p]
  BY <1>1 DEF BeginAttempt, WriteReceipt, DomainTypeOK
<1>4. \/ step' = [at |-> "confirm", of |-> o]
      \/ step' = [at |-> "order", of |-> o] /\ o \in paid /\ registered[o] = 0
  <2>1. CASE BeginAttempt
    BY <1>1, <2>1 DEF BeginAttempt, Proceed, Attempted, AttemptInv, DomainTypeOK
  <2>2. CASE WriteReceipt
    BY <2>2 DEF WriteReceipt, Proceed, DomainTypeOK
  <2> QED
    BY <2>1, <2>2
<1>5. DomainTypeOK' /\ PurchaseInv' /\ DomainSessionInv'
  BY <1>1, <1>2, <1>3, <1>4 DEF DomainTypeOK, PurchaseInv, DomainSessionInv
<1>6. AttemptInv' /\ IntentInv'
  BY <1>1, <1>2, <1>3, <1>4 DEF AttemptInv, IntentInv
<1> QED
  BY <1>5, <1>6

LEMMA ReplayAttemptInv ==
  ASSUME DomainInv, ReplayAttempt
  PROVE  DomainInv'
<1> USE DEF DomainInv
<1> DEFINE o == step.of
<1>1. o \in Orders /\ purchase[o] # "none"
  BY DEF ReplayAttempt, PurchaseInv
<1>2. CASE attempt[o] = "receipt"
  <2>1. /\ step' = [at |-> "confirm", of |-> o]
        /\ UNCHANGED <<domain, older, pass, order, starting, purchase, checkout, hours, website, attempt, dnsIntent,
                       sessions, paid, registered, dns, setbacks>>
    BY <1>2 DEF ReplayAttempt, Proceed, DomainTypeOK
  <2> QED
    BY <1>1, <2>1 DEF DomainTypeOK, PurchaseInv, DomainSessionInv, AttemptInv, IntentInv
<1>3. CASE attempt[o] # "receipt"
  <2>1. CallsOK'
    BY <1>1 DEF CallsOK, PurchaseInv, Review, ReplayAttempt, DomainTypeOK
  <2> QED
    BY <1>1, <1>3, <2>1, RestInv DEF ReplayAttempt, Review
<1> QED
  BY <1>2, <1>3

\* The registrar registers the name for the first time, or refuses.
LEMMA RegisterDomainInv ==
  ASSUME DomainInv, RegisterDomain
  PROVE  DomainInv'
<1> USE DEF DomainInv
<1> DEFINE o == step.of
<1>1. o \in Orders /\ purchase[o] # "none" /\ o \in paid /\ registered[o] = 0 /\ attempt[o] # "none"
  BY DEF RegisterDomain, PurchaseInv, AttemptInv
<1>2. CASE registered' = [registered EXCEPT ![o] = @ + 1] /\ Proceed("receipt") /\ UNCHANGED purchase
  <2>1. step' = [at |-> "receipt", of |-> o] /\ registered' = [registered EXCEPT ![o] = 1]
    BY <1>1, <1>2 DEF Proceed, DomainTypeOK
  <2>2. UNCHANGED <<domain, older, pass, order, starting, purchase, checkout, hours, website, attempt, dnsIntent,
                    sessions, paid, dns, setbacks>>
    BY <1>2 DEF RegisterDomain
  <2>3. registered'[o] = 1 /\ \A p \in Orders \ {o} : registered'[p] = registered[p]
    BY <1>1, <2>1 DEF DomainTypeOK
  <2>4. DomainTypeOK' /\ PurchaseInv' /\ DomainSessionInv'
    BY <1>1, <2>1, <2>2 DEF DomainTypeOK, PurchaseInv, DomainSessionInv
  <2>5. AttemptInv' /\ IntentInv'
    BY <1>1, <2>1, <2>2, <2>3 DEF AttemptInv, IntentInv
  <2> QED
    BY <2>4, <2>5
<1>3. CASE Review(o) /\ step' = AtRest /\ UNCHANGED registered
  <2>1. CallsOK'
    BY <1>1 DEF CallsOK, PurchaseInv, Review, RegisterDomain, DomainTypeOK
  <2> QED
    BY <1>1, <1>3, <2>1, RestInv DEF RegisterDomain, Review
<1> QED
  BY <1>2, <1>3 DEF RegisterDomain

LEMMA ConfirmRegistrationInv ==
  ASSUME DomainInv, ConfirmRegistration
  PROVE  DomainInv'
<1> USE DEF DomainInv
<1> DEFINE o == step.of
<1>1. o \in Orders /\ purchase[o] # "none"
  BY DEF ConfirmRegistration, PurchaseInv
<1>2. /\ purchase' = [purchase EXCEPT ![o] = "connecting"] /\ step' = [at |-> "connect", of |-> o]
      /\ UNCHANGED <<domain, older, pass, order, starting, checkout, hours, website, attempt, dnsIntent, sessions, paid,
                     registered, dns, setbacks>>
  BY DEF ConfirmRegistration, Proceed, DomainTypeOK
<1>3. purchase'[o] = "connecting" /\ \A p \in Orders \ {o} : purchase'[p] = purchase[p]
  BY <1>1, <1>2 DEF DomainTypeOK
<1>4. DomainTypeOK' /\ PurchaseInv' /\ DomainSessionInv'
  BY <1>1, <1>2, <1>3 DEF DomainTypeOK, PurchaseInv, DomainSessionInv
<1>5. AttemptInv' /\ IntentInv'
  BY <1>1, <1>2, <1>3 DEF AttemptInv, IntentInv
<1> QED
  BY <1>4, <1>5

\* The record is there, was attempted, or is attempted now.
LEMMA ConnectInv ==
  ASSUME DomainInv, Connect
  PROVE  DomainInv'
<1> USE DEF DomainInv
<1> DEFINE o == step.of
<1>1. o \in Orders /\ purchase[o] # "none"
  BY DEF Connect, PurchaseInv
<1>2. CASE dns[o] > 0 \/ o \in dnsIntent
  <2>1. CallsOK'
    BY <1>1 DEF CallsOK, PurchaseInv, Review, Connect, DomainTypeOK
  <2> QED
    BY <1>1, <1>2, <2>1, RestInv DEF Connect, Review, DomainTypeOK
<1>3. CASE dns[o] = 0 /\ o \notin dnsIntent
  <2>1. /\ dnsIntent' = dnsIntent \cup {o} /\ step' = [at |-> "record", of |-> o]
        /\ UNCHANGED <<domain, older, pass, order, starting, purchase, checkout, hours, website, attempt, sessions, paid,
                       registered, dns, setbacks>>
    BY <1>1, <1>3 DEF Connect, Proceed, DomainTypeOK
  <2> QED
    BY <1>1, <1>3, <2>1 DEF DomainTypeOK, PurchaseInv, DomainSessionInv, AttemptInv, IntentInv
<1> QED
  BY <1>1, <1>2, <1>3 DEF DomainTypeOK

LEMMA AddRecordInv ==
  ASSUME DomainInv, AddRecord
  PROVE  DomainInv'
<1> USE DEF DomainInv
<1> DEFINE o == step.of
<1>1. o \in Orders /\ purchase[o] # "none" /\ dns[o] = 0 /\ o \in dnsIntent
  BY DEF AddRecord, PurchaseInv, IntentInv
<1>2. /\ dns' = [dns EXCEPT ![o] = 1] /\ step' = [at |-> "connect", of |-> o]
      /\ UNCHANGED <<domain, older, pass, order, starting, purchase, checkout, hours, website, attempt, dnsIntent,
                     sessions, paid, registered, setbacks>>
  BY <1>1 DEF AddRecord, Proceed, DomainTypeOK
<1>3. dns'[o] = 1 /\ \A p \in Orders \ {o} : dns'[p] = dns[p]
  BY <1>1, <1>2 DEF DomainTypeOK
<1>4. DomainTypeOK' /\ PurchaseInv' /\ DomainSessionInv'
  BY <1>1, <1>2 DEF DomainTypeOK, PurchaseInv, DomainSessionInv
<1>5. AttemptInv' /\ IntentInv'
  BY <1>1, <1>2, <1>3 DEF AttemptInv, IntentInv
<1> QED
  BY <1>4, <1>5

\* The faults: what was saved remains.
LEMMA FaultsInv ==
  ASSUME DomainInv, ProcessStops \/ AnswerIsLost \/ ReadFails
  PROVE  DomainInv'
<1>1. AnswerIsLost \/ ReadFails => step.of \in Orders /\ purchase[step.of] # "none"
  BY DEF DomainInv, PurchaseInv, AnswerIsLost, ReadFails
<1>2. CallsOK'
  BY <1>1, DomainAssumption
     DEF DomainInv, DomainTypeOK, PurchaseInv, CallsOK, ProcessStops, AnswerIsLost, ReadFails, Review
<1>3. /\ step' = AtRest
      /\ UNCHANGED <<domain, older, order, checkout, hours, website, attempt, dnsIntent, sessions, paid,
                     registered, dns>>
      /\ \/ UNCHANGED purchase
         \/ /\ step.of \in Orders /\ purchase[step.of] # "none"
            /\ purchase' = [purchase EXCEPT ![step.of] = "needs_review"]
  BY <1>1 DEF ProcessStops, AnswerIsLost, ReadFails, Review
<1> QED
  BY <1>1, <1>2, <1>3, RestInv

LEMMA DomainStepInv == DomainInv /\ [DomainNext]_domainVars => DomainInv'
BY DomainStutterInv, OrderInv, FinishStartInv, OutsideInv, HoursGoByInv, ProcessAskedInv, TickInv, CheckoutInv,
   ReadCheckoutInv, AttemptStepsInv, ReplayAttemptInv, RegisterDomainInv, ConfirmRegistrationInv,
   ConnectInv, AddRecordInv, FaultsInv
   DEF DomainNext, ProcessProceeds

-----------------------------------------------------------------------------
(* DomainPurchase: the theorems.                                           *)

\* The invariant holds of the purchase wherever the process stops.
THEOREM DomainInvariance == DomainSpec => []DomainInv
BY DomainInitInv, DomainStepInv, PTL DEF DomainSpec

\* The variables keep their types (DomainPurchase).
THEOREM DomainTypeCorrect == DomainSpec => []DomainTypeOK
BY DomainInvariance, PTL DEF DomainInv

\* A name is charged, registered and given its record at most once, registered
\* only when paid, and a cancelled order is never charged, for any number of
\* orders and of lost answers (process, ExecuteOnce, Start, CancelDomainOrder).
THEOREM BoughtOnce == DomainSpec => []DomainBoughtOnce
<1>1. DomainInv => DomainBoughtOnce
  <2> SUFFICES ASSUME DomainInv
               PROVE  DomainBoughtOnce
    OBVIOUS
  <2> USE DEF DomainInv
  <2>1. \A o \in Orders : sessions[o] <= 1 /\ registered[o] <= 1 /\ dns[o] <= 1
    BY DEF DomainSessionInv, AttemptInv, IntentInv
  <2>2. ASSUME NEW n \in Names
        PROVE  Cardinality({o \in Orders : domain[o] = n /\ sessions[o] > 0}) <= 1
    <3> DEFINE charged == {o \in Orders : domain[o] = n /\ sessions[o] > 0}
    <3>1. CASE charged = {}
      BY <3>1, FS_EmptySet
    <3>2. CASE charged # {}
      <4>1. PICK o : o \in charged
        BY <3>2
      <4>2. charged = {o}
        BY <4>1 DEF PurchaseInv
      <4>3. Cardinality({o}) = 1
        BY FS_Singleton
      <4> QED
        BY <4>2, <4>3
    <3> QED
      BY <3>1, <3>2
  <2>3. \A o \in Orders : registered[o] > 0 => o \in paid
    BY DEF AttemptInv
  <2>4. \A o \in Orders : order[o] = "canceled" => sessions[o] = 0
    BY DEF PurchaseInv, DomainTypeOK
  <2> QED
    BY <2>1, <2>2, <2>3, <2>4 DEF DomainBoughtOnce
<1> QED
  BY <1>1, DomainInvariance, PTL

-----------------------------------------------------------------------------
(* ProjectDeletion: the inductive invariant.                               *)

\* The two lock files: provision.lock is held by the provisioner or by the
\* deletion worker, domains.lock by the reconciler or by the deletion worker.
\* While a program rests it has nothing in hand.
LockInv ==
  /\ deleter.at # "rest" => provisioner.at = "rest"
  /\ deleter.at \notin {"rest", "waiting"} => reconciler.at = "rest"
  /\ provisioner.at = "rest" => provisioner.todo = {} /\ provisioner.new = {}
  /\ reconciler.at = "rest" => reconciler.todo = {}
  /\ deleter.at \in {"rest", "waiting"} => deleter.todo = {}
  /\ deleter.at \in {"rest", "waiting", "next"} => deleter.new = {}

\* The portal's side of a deletion, and what the provisioner has in hand.
ProjectInv ==
  /\ \A p \in Websites :
       project[p] # "live" => p \notin job /\ row[p] \in {"none", "removing"}
  /\ \A p \in provisioner.todo \cup provisioner.new : project[p] # "gone"
  /\ \A p \in deleter.todo \cup deleter.new : project[p] = "deleting"

\* What the removal of a route has reached: the row is kept until both objects
\* are gone.
RouteRemoval(p, at) ==
  /\ at \in {"ingress", "certificate", "row"} => row[p] = "removing"
  /\ at \in {"certificate", "row"} => "ingress" \notin route[p]
  /\ at = "row" => "certificate" \notin route[p]

\* The pass over one row: nothing but a pass removes it.
ReconcileInv ==
  /\ \A p, q \in reconciler.todo : p = q
  /\ \A p \in reconciler.todo : Listed(p) /\ RouteRemoval(p, reconciler.at)

\* What the deletion of one website has given back so far.
DeleteInv ==
  /\ \A p, q \in deleter.new : p = q
  /\ deleter.new \cap deleter.todo = {}
  /\ \A p \in deleter.new :
       LET at == deleter.at IN
       /\ RouteRemoval(p, at)
       /\ at \notin {"ingress", "certificate", "row"} => row[p] = "none"
       /\ at \in {"app", "fleet", "portal", "restart", "files", "purge"} => "builder" \notin held[p]
       /\ at \in {"fleet", "portal", "restart", "files", "purge"} => "app" \notin held[p]
       /\ at \in {"portal", "restart", "files", "purge"} => "fleet" \notin held[p]
       /\ at \in {"restart", "files", "purge"} => "portal" \notin held[p]
       /\ at \in {"files", "purge"} => p \notin loaded
       /\ at = "purge" => "files" \notin held[p]

RemovalInv ==
  /\ RemovalTypeOK
  /\ LockInv
  /\ ProjectInv
  /\ ReconcileInv
  /\ DeleteInv
  /\ NothingOutlivesItsRecord

-----------------------------------------------------------------------------
(* ProjectDeletion: every action preserves the invariant.                  *)

LEMMA RemovalInitInv == RemovalInit => RemovalInv
<1> SUFFICES ASSUME RemovalInit
             PROVE  RemovalInv
  OBVIOUS
<1>1. RemovalTypeOK
  BY DEF RemovalInit, RemovalTypeOK, NoPass, Pass
<1>2. LockInv /\ ProjectInv /\ ReconcileInv /\ DeleteInv
  BY DEF RemovalInit, LockInv, ProjectInv, ReconcileInv, DeleteInv, NoPass, Pass
<1>3. NothingOutlivesItsRecord
  BY DEF RemovalInit, NothingOutlivesItsRecord
<1> QED
  BY <1>1, <1>2, <1>3 DEF RemovalInv

\* The portal's own steps.
LEMMA EnqueueJobInv ==
  ASSUME RemovalInv, NEW p \in Websites, EnqueueJob(p)
  PROVE  RemovalInv'
<1>1. RemovalTypeOK'
  BY DEF RemovalInv, RemovalTypeOK, EnqueueJob
<1>2. LockInv'
  BY DEF RemovalInv, LockInv, EnqueueJob
<1>3. ProjectInv'
  BY DEF RemovalInv, ProjectInv, EnqueueJob
<1>4. ReconcileInv'
  BY DEF RemovalInv, ReconcileInv, RouteRemoval, Listed, EnqueueJob
<1>5. DeleteInv'
  BY DEF RemovalInv, DeleteInv, RouteRemoval, EnqueueJob
<1>6. NothingOutlivesItsRecord'
  BY DEF RemovalInv, NothingOutlivesItsRecord, EnqueueJob
<1> QED
  BY <1>1, <1>2, <1>3, <1>4, <1>5, <1>6 DEF RemovalInv

LEMMA SettleJobInv ==
  ASSUME RemovalInv, NEW p \in Websites, SettleJob(p)
  PROVE  RemovalInv'
<1>1. RemovalTypeOK'
  BY DEF RemovalInv, RemovalTypeOK, SettleJob, Resources
<1>2. LockInv'
  BY DEF RemovalInv, LockInv, SettleJob
<1>3. ProjectInv'
  BY DEF RemovalInv, ProjectInv, SettleJob
<1>4. ReconcileInv'
  BY DEF RemovalInv, ReconcileInv, RouteRemoval, Listed, SettleJob
<1>5. DeleteInv'
  BY DEF RemovalInv, ProjectInv, DeleteInv, RouteRemoval, SettleJob
<1>6. NothingOutlivesItsRecord'
  BY DEF RemovalInv, NothingOutlivesItsRecord, SettleJob
<1> QED
  BY <1>1, <1>2, <1>3, <1>4, <1>5, <1>6 DEF RemovalInv

LEMMA DeleteProjectInv ==
  ASSUME RemovalInv, NEW p \in Websites, DeleteProject(p)
  PROVE  RemovalInv'
<1>1. RemovalTypeOK'
  BY DEF RemovalInv, RemovalTypeOK, DeleteProject, RemovingRows
<1>2. LockInv'
  BY DEF RemovalInv, LockInv, DeleteProject
<1>3. ProjectInv'
  BY DEF RemovalInv, RemovalTypeOK, ProjectInv, DeleteProject, RemovingRows
<1>4. ReconcileInv'
  BY DEF RemovalInv, ReconcileInv, RouteRemoval, Listed, DeleteProject, RemovingRows
<1>5. DeleteInv'
  BY DEF RemovalInv, DeleteInv, RouteRemoval, DeleteProject, RemovingRows
<1>6. NothingOutlivesItsRecord'
  BY DEF RemovalInv, NothingOutlivesItsRecord, DeleteProject, RemovingRows
<1> QED
  BY <1>1, <1>2, <1>3, <1>4, <1>5, <1>6 DEF RemovalInv

LEMMA CreateCustomDomainInv ==
  ASSUME RemovalInv, NEW p \in Websites, CreateCustomDomain(p)
  PROVE  RemovalInv'
<1>1. RemovalTypeOK'
  BY DEF RemovalInv, RemovalTypeOK, CreateCustomDomain
<1>2. LockInv'
  BY DEF RemovalInv, LockInv, CreateCustomDomain
<1>3. ProjectInv'
  BY DEF RemovalInv, ProjectInv, CreateCustomDomain
<1>4. ReconcileInv'
  BY DEF RemovalInv, ReconcileInv, RouteRemoval, Listed, CreateCustomDomain
<1>5. DeleteInv'
  BY DEF RemovalInv, ProjectInv, DeleteInv, RouteRemoval, CreateCustomDomain
<1>6. NothingOutlivesItsRecord'
  BY DEF RemovalInv, NothingOutlivesItsRecord, CreateCustomDomain
<1> QED
  BY <1>1, <1>2, <1>3, <1>4, <1>5, <1>6 DEF RemovalInv

LEMMA VerifyCustomDomainInv ==
  ASSUME RemovalInv, NEW p \in Websites, VerifyCustomDomain(p)
  PROVE  RemovalInv'
<1>1. RemovalTypeOK'
  BY DEF RemovalInv, RemovalTypeOK, VerifyCustomDomain
<1>2. LockInv'
  BY DEF RemovalInv, LockInv, VerifyCustomDomain
<1>3. ProjectInv'
  BY DEF RemovalInv, ProjectInv, VerifyCustomDomain
<1>4. ReconcileInv'
  BY DEF RemovalInv, ReconcileInv, RouteRemoval, Listed, VerifyCustomDomain
<1>5. DeleteInv'
  BY DEF RemovalInv, DeleteInv, RouteRemoval, VerifyCustomDomain
<1>6. NothingOutlivesItsRecord'
  BY DEF RemovalInv, NothingOutlivesItsRecord, VerifyCustomDomain
<1> QED
  BY <1>1, <1>2, <1>3, <1>4, <1>5, <1>6 DEF RemovalInv

LEMMA RemoveCustomDomainInv ==
  ASSUME RemovalInv, NEW p \in Websites, RemoveCustomDomain(p)
  PROVE  RemovalInv'
<1>1. RemovalTypeOK'
  BY DEF RemovalInv, RemovalTypeOK, RemoveCustomDomain
<1>2. LockInv'
  BY DEF RemovalInv, LockInv, RemoveCustomDomain
<1>3. ProjectInv'
  BY DEF RemovalInv, ProjectInv, RemoveCustomDomain
<1>4. ReconcileInv'
  BY DEF RemovalInv, ReconcileInv, RouteRemoval, Listed, RemoveCustomDomain
<1>5. DeleteInv'
  BY DEF RemovalInv, DeleteInv, RouteRemoval, RemoveCustomDomain
<1>6. NothingOutlivesItsRecord'
  BY DEF RemovalInv, NothingOutlivesItsRecord, RemoveCustomDomain
<1> QED
  BY <1>1, <1>2, <1>3, <1>4, <1>5, <1>6 DEF RemovalInv

\* The passes begin, each under its locks.
LEMMA BeginProvisionInv ==
  ASSUME RemovalInv, BeginProvision
  PROVE  RemovalInv'
<1>1. RemovalTypeOK'
  BY DEF RemovalInv, RemovalTypeOK, BeginProvision, Pass
<1>2. LockInv'
  BY DEF RemovalInv, LockInv, BeginProvision, Pass, ProvisionLockFree
<1>3. ProjectInv'
  BY DEF RemovalInv, ProjectInv, BeginProvision, Pass
<1>4. ReconcileInv'
  BY DEF RemovalInv, ReconcileInv, RouteRemoval, Listed, BeginProvision
<1>5. DeleteInv'
  BY DEF RemovalInv, DeleteInv, RouteRemoval, BeginProvision
<1>6. NothingOutlivesItsRecord'
  BY DEF RemovalInv, NothingOutlivesItsRecord, BeginProvision
<1> QED
  BY <1>1, <1>2, <1>3, <1>4, <1>5, <1>6 DEF RemovalInv

LEMMA BeginReconcileInv ==
  ASSUME RemovalInv, BeginReconcile
  PROVE  RemovalInv'
<1>1. RemovalTypeOK'
  BY DEF RemovalInv, RemovalTypeOK, BeginReconcile, Pass
<1>2. LockInv'
  BY DEF RemovalInv, LockInv, BeginReconcile, Pass
<1>3. ProjectInv'
  BY DEF RemovalInv, ProjectInv, BeginReconcile
<1>4. ReconcileInv'
  BY DEF RemovalInv, ReconcileInv, RouteRemoval, Listed, BeginReconcile, Pass
<1>5. DeleteInv'
  BY DEF RemovalInv, DeleteInv, RouteRemoval, BeginReconcile
<1>6. NothingOutlivesItsRecord'
  BY DEF RemovalInv, NothingOutlivesItsRecord, BeginReconcile
<1> QED
  BY <1>1, <1>2, <1>3, <1>4, <1>5, <1>6 DEF RemovalInv

LEMMA BeginDeletionInv ==
  ASSUME RemovalInv, BeginDeletion
  PROVE  RemovalInv'
<1>1. RemovalTypeOK'
  BY DEF RemovalInv, RemovalTypeOK, BeginDeletion, Pass
<1>2. LockInv'
  BY DEF RemovalInv, LockInv, BeginDeletion, Pass, ProvisionLockFree
<1>3. ProjectInv'
  BY DEF RemovalInv, ProjectInv, BeginDeletion, Pass
<1>4. ReconcileInv'
  BY DEF RemovalInv, ReconcileInv, RouteRemoval, Listed, BeginDeletion
<1>5. DeleteInv'
  BY DEF RemovalInv, DeleteInv, BeginDeletion, Pass
<1>6. NothingOutlivesItsRecord'
  BY DEF RemovalInv, NothingOutlivesItsRecord, BeginDeletion
<1> QED
  BY <1>1, <1>2, <1>3, <1>4, <1>5, <1>6 DEF RemovalInv

LEMMA ListDeletionsInv ==
  ASSUME RemovalInv, ListDeletions
  PROVE  RemovalInv'
<1>1. RemovalTypeOK'
  BY DEF RemovalInv, RemovalTypeOK, ListDeletions, Pass
<1>2. LockInv'
  BY DEF RemovalInv, LockInv, ListDeletions, Pass, DomainsLockFree
<1>3. ProjectInv'
  BY DEF RemovalInv, ProjectInv, ListDeletions, Pass
<1>4. ReconcileInv'
  BY DEF RemovalInv, ReconcileInv, RouteRemoval, Listed, ListDeletions
<1>5. DeleteInv'
  BY DEF RemovalInv, DeleteInv, ListDeletions, Pass
<1>6. NothingOutlivesItsRecord'
  BY DEF RemovalInv, NothingOutlivesItsRecord, ListDeletions
<1> QED
  BY <1>1, <1>2, <1>3, <1>4, <1>5, <1>6 DEF RemovalInv

\* provision-projects.py enrols websites; no deletion is under way meanwhile.
LEMMA PrepareWebsiteInv ==
  ASSUME RemovalInv, NEW p \in Websites, PrepareWebsite(p)
  PROVE  RemovalInv'
<1>1. RemovalTypeOK'
  BY DEF RemovalInv, RemovalTypeOK, PrepareWebsite, Pass, Resources
<1>2. LockInv'
  BY DEF RemovalInv, LockInv, PrepareWebsite, Pass
<1>3. ProjectInv'
  BY DEF RemovalInv, ProjectInv, PrepareWebsite, Pass
<1>4. ReconcileInv'
  BY DEF RemovalInv, ReconcileInv, RouteRemoval, Listed, PrepareWebsite
<1>5. DeleteInv'
  BY DEF RemovalInv, LockInv, DeleteInv, PrepareWebsite
<1>6. NothingOutlivesItsRecord'
  BY DEF RemovalInv, RemovalTypeOK, ProjectInv, NothingOutlivesItsRecord, PrepareWebsite
<1> QED
  BY <1>1, <1>2, <1>3, <1>4, <1>5, <1>6 DEF RemovalInv

LEMMA WriteAssignmentsInv ==
  ASSUME RemovalInv, WriteAssignments
  PROVE  RemovalInv'
<1>1. RemovalTypeOK'
  BY DEF RemovalInv, RemovalTypeOK, WriteAssignments, Pass, Resources
<1>2. LockInv'
  BY DEF RemovalInv, LockInv, WriteAssignments, Pass
<1>3. ProjectInv'
  BY DEF RemovalInv, ProjectInv, WriteAssignments, Pass
<1>4. ReconcileInv'
  BY DEF RemovalInv, ReconcileInv, RouteRemoval, Listed, WriteAssignments
<1>5. DeleteInv'
  BY DEF RemovalInv, LockInv, DeleteInv, WriteAssignments
<1>6. NothingOutlivesItsRecord'
  BY DEF RemovalInv, ProjectInv, NothingOutlivesItsRecord, WriteAssignments
<1> QED
  BY <1>1, <1>2, <1>3, <1>4, <1>5, <1>6 DEF RemovalInv

LEMMA RestartWorkerInv ==
  ASSUME RemovalInv, RestartWorker \/ RecordRestart
  PROVE  RemovalInv'
<1>1. RemovalTypeOK'
  BY DEF RemovalInv, RemovalTypeOK, RestartWorker, RecordRestart, Pass, NoPass, Assigned
<1>2. LockInv'
  BY DEF RemovalInv, LockInv, RestartWorker, RecordRestart, Pass, NoPass
<1>3. ProjectInv'
  BY DEF RemovalInv, ProjectInv, RestartWorker, RecordRestart, Pass, NoPass
<1>4. ReconcileInv'
  BY DEF RemovalInv, ReconcileInv, RouteRemoval, Listed, RestartWorker, RecordRestart
<1>5. DeleteInv'
  BY DEF RemovalInv, DeleteInv, RouteRemoval, RestartWorker, RecordRestart, Assigned
<1>6. NothingOutlivesItsRecord'
  BY DEF RemovalInv, NothingOutlivesItsRecord, RestartWorker, RecordRestart, Assigned
<1> QED
  BY <1>1, <1>2, <1>3, <1>4, <1>5, <1>6 DEF RemovalInv

\* reconcile-domains.py works on one row; no deletion has its domains lock.
LEMMA ReconcileRemovalInv ==
  ASSUME RemovalInv, ReconcileRemoval
  PROVE  RemovalInv'
<1>1. RemovalTypeOK'
  BY DEF RemovalInv, RemovalTypeOK, ReconcileRemoval, Pass, NoPass, RemoveRoute, DropRoute,
         NextRemoval
<1>2. LockInv'
  BY DEF RemovalInv, LockInv, ReconcileRemoval, Pass, NoPass, RouteObjects, RemoveRoute,
         NextRemoval
<1>3. ProjectInv'
  BY DEF RemovalInv, RemovalTypeOK, ProjectInv, ReconcileRemoval, RemoveRoute
<1>4. ReconcileInv'
  BY DEF RemovalInv, RemovalTypeOK, ReconcileInv, RouteRemoval, Listed, ReconcileRemoval,
         Pass, NoPass, RemoveRoute, DropRoute, NextRemoval
<1>5. DeleteInv'
  BY DEF RemovalInv, LockInv, DeleteInv, ReconcileRemoval
<1>6. NothingOutlivesItsRecord'
  BY DEF RemovalInv, RemovalTypeOK, ReconcileInv, NothingOutlivesItsRecord, RouteRemoval,
         ReconcileRemoval, RouteObjects, RemoveRoute, DropRoute
<1> QED
  BY <1>1, <1>2, <1>3, <1>4, <1>5, <1>6 DEF RemovalInv

LEMMA RouteConflictInv ==
  ASSUME RemovalInv, RouteConflict
  PROVE  RemovalInv'
<1>1. RemovalTypeOK'
  BY DEF RemovalInv, RemovalTypeOK, RouteConflict, Pass, NoPass
<1>2. LockInv'
  BY DEF RemovalInv, LockInv, RouteConflict, Pass, NoPass
<1>3. ProjectInv'
  BY DEF RemovalInv, ProjectInv, RouteConflict
<1>4. ReconcileInv'
  BY DEF RemovalInv, ReconcileInv, RouteConflict, Pass, NoPass
<1>5. DeleteInv'
  BY DEF RemovalInv, DeleteInv, RouteRemoval, RouteConflict
<1>6. NothingOutlivesItsRecord'
  BY DEF RemovalInv, NothingOutlivesItsRecord, RouteConflict
<1> QED
  BY <1>1, <1>2, <1>3, <1>4, <1>5, <1>6 DEF RemovalInv

LEMMA ApplyIngressInv ==
  ASSUME RemovalInv, ApplyIngress
  PROVE  RemovalInv'
<1>1. RemovalTypeOK'
  BY DEF RemovalInv, RemovalTypeOK, ApplyIngress, Pass, NoPass, RouteObjects
<1>2. LockInv'
  BY DEF RemovalInv, RemovalTypeOK, LockInv, ApplyIngress, Pass, NoPass
<1>3. ProjectInv'
  BY DEF RemovalInv, ProjectInv, ApplyIngress
<1>4. ReconcileInv'
  BY DEF RemovalInv, RemovalTypeOK, ReconcileInv, RouteRemoval, Listed, ApplyIngress, Pass,
         NoPass
<1>5. DeleteInv'
  BY DEF RemovalInv, LockInv, DeleteInv, ApplyIngress
<1>6. NothingOutlivesItsRecord'
  BY DEF RemovalInv, RemovalTypeOK, ReconcileInv, NothingOutlivesItsRecord, Listed,
         ApplyIngress
<1> QED
  BY <1>1, <1>2, <1>3, <1>4, <1>5, <1>6 DEF RemovalInv

LEMMA ApplyCertificateInv ==
  ASSUME RemovalInv, ApplyCertificate
  PROVE  RemovalInv'
<1>1. RemovalTypeOK'
  BY DEF RemovalInv, RemovalTypeOK, ApplyCertificate, RouteObjects
<1>2. LockInv'
  BY DEF RemovalInv, LockInv, ApplyCertificate
<1>3. ProjectInv'
  BY DEF RemovalInv, ProjectInv, ApplyCertificate
<1>4. ReconcileInv'
  BY DEF RemovalInv, ReconcileInv, RouteRemoval, Listed, ApplyCertificate
<1>5. DeleteInv'
  BY DEF RemovalInv, LockInv, DeleteInv, ApplyCertificate
<1>6. NothingOutlivesItsRecord'
  BY DEF RemovalInv, ReconcileInv, NothingOutlivesItsRecord, Listed, ApplyCertificate
<1> QED
  BY <1>1, <1>2, <1>3, <1>4, <1>5, <1>6 DEF RemovalInv

LEMMA RecordRouteInv ==
  ASSUME RemovalInv, NEW s \in {"verified", "active"}, RecordRoute(s)
  PROVE  RemovalInv'
<1>1. RemovalTypeOK'
  BY DEF RemovalInv, RemovalTypeOK, RecordRoute, Pass, NoPass
<1>2. LockInv'
  BY DEF RemovalInv, LockInv, RecordRoute, Pass, NoPass
<1>3. ProjectInv'
  BY DEF RemovalInv, ProjectInv, RecordRoute
<1>4. ReconcileInv'
  BY DEF RemovalInv, ReconcileInv, RecordRoute, Pass, NoPass
<1>5. DeleteInv'
  BY DEF RemovalInv, DeleteInv, RouteRemoval, RecordRoute
<1>6. NothingOutlivesItsRecord'
  BY DEF RemovalInv, NothingOutlivesItsRecord, RecordRoute
<1> QED
  BY <1>1, <1>2, <1>3, <1>4, <1>5, <1>6 DEF RemovalInv

\* delete-projects.py gives the resources of one website back, one at a time.
LEMMA NextDeletionInv ==
  ASSUME RemovalInv, NextDeletion
  PROVE  RemovalInv'
<1>1. RemovalTypeOK'
  BY DEF RemovalInv, RemovalTypeOK, NextDeletion, Pass, NoPass, RemovingRows
<1>2. LockInv'
  BY DEF RemovalInv, LockInv, NextDeletion, Pass, NoPass
<1>3. ProjectInv'
  BY DEF RemovalInv, RemovalTypeOK, ProjectInv, NextDeletion, Pass, NoPass, RemovingRows
<1>4. ReconcileInv'
  BY DEF RemovalInv, LockInv, ReconcileInv, NextDeletion
<1>5. DeleteInv'
  BY DEF RemovalInv, RemovalTypeOK, DeleteInv, RouteRemoval, NextDeletion, Pass, NoPass,
         RemovingRows
<1>6. NothingOutlivesItsRecord'
  BY DEF RemovalInv, RemovalTypeOK, NothingOutlivesItsRecord, NextDeletion, Pass,
         RemovingRows
<1> QED
  BY <1>1, <1>2, <1>3, <1>4, <1>5, <1>6 DEF RemovalInv

LEMMA DeleteRouteInv ==
  ASSUME RemovalInv, DeleteRoute
  PROVE  RemovalInv'
<1>1. RemovalTypeOK'
  BY DEF RemovalInv, RemovalTypeOK, DeleteRoute, RemoveRoute, DropRoute, NextRemoval
<1>2. LockInv'
  BY DEF RemovalInv, LockInv, DeleteRoute, RouteObjects, RemoveRoute, NextRemoval
<1>3. ProjectInv'
  BY DEF RemovalInv, RemovalTypeOK, ProjectInv, DeleteRoute, RemoveRoute
<1>4. ReconcileInv'
  BY DEF RemovalInv, LockInv, ReconcileInv, DeleteRoute
<1>5. DeleteInv'
  BY DEF RemovalInv, RemovalTypeOK, DeleteInv, RouteRemoval, DeleteRoute, RouteObjects,
         RemoveRoute, DropRoute, NextRemoval
<1>6. NothingOutlivesItsRecord'
  BY DEF RemovalInv, RemovalTypeOK, DeleteInv, NothingOutlivesItsRecord, RouteRemoval,
         DeleteRoute, RouteObjects, RemoveRoute, DropRoute
<1> QED
  BY <1>1, <1>2, <1>3, <1>4, <1>5, <1>6 DEF RemovalInv

LEMMA DeleteResourceInv ==
  ASSUME RemovalInv, DeleteResource
  PROVE  RemovalInv'
<1>1. RemovalTypeOK'
  BY DEF RemovalInv, RemovalTypeOK, DeleteResource, Drop, DeletionStep
<1>2. LockInv'
  BY DEF RemovalInv, LockInv, DeleteResource, DeletionStep
<1>3. ProjectInv'
  BY DEF RemovalInv, ProjectInv, DeleteResource
<1>4. ReconcileInv'
  BY DEF RemovalInv, ReconcileInv, RouteRemoval, Listed, DeleteResource
<1>5. DeleteInv'
  BY DEF RemovalInv, RemovalTypeOK, DeleteInv, RouteRemoval, DeleteResource, Resources,
         Drop, DeletionStep
<1>6. NothingOutlivesItsRecord'
  BY DEF RemovalInv, NothingOutlivesItsRecord, DeleteResource, Drop
<1> QED
  BY <1>1, <1>2, <1>3, <1>4, <1>5, <1>6 DEF RemovalInv

LEMMA RestartReducedInv ==
  ASSUME RemovalInv, RestartReduced
  PROVE  RemovalInv'
<1>1. RemovalTypeOK'
  BY DEF RemovalInv, RemovalTypeOK, RestartReduced, Assigned, DeletionStep
<1>2. LockInv'
  BY DEF RemovalInv, LockInv, RestartReduced, DeletionStep
<1>3. ProjectInv'
  BY DEF RemovalInv, ProjectInv, RestartReduced
<1>4. ReconcileInv'
  BY DEF RemovalInv, ReconcileInv, RouteRemoval, Listed, RestartReduced
<1>5. DeleteInv'
  BY DEF RemovalInv, DeleteInv, RouteRemoval, RestartReduced, Assigned, DeletionStep
<1>6. NothingOutlivesItsRecord'
  BY DEF RemovalInv, NothingOutlivesItsRecord, RestartReduced, Assigned
<1> QED
  BY <1>1, <1>2, <1>3, <1>4, <1>5, <1>6 DEF RemovalInv

LEMMA PurgeRecordsInv ==
  ASSUME RemovalInv, PurgeRecords
  PROVE  RemovalInv'
<1>1. RemovalTypeOK'
  BY DEF RemovalInv, RemovalTypeOK, PurgeRecords, Pass
<1>2. LockInv'
  BY DEF RemovalInv, LockInv, PurgeRecords, Pass
<1>3. ProjectInv'
  BY DEF RemovalInv, LockInv, ProjectInv, DeleteInv, PurgeRecords, Pass
<1>4. ReconcileInv'
  BY DEF RemovalInv, ReconcileInv, RouteRemoval, Listed, PurgeRecords
<1>5. DeleteInv'
  BY DEF RemovalInv, DeleteInv, PurgeRecords, Pass
<1>6. NothingOutlivesItsRecord'
  BY DEF RemovalInv, RemovalTypeOK, DeleteInv, NothingOutlivesItsRecord, PurgeRecords,
         Resources
<1> QED
  BY <1>1, <1>2, <1>3, <1>4, <1>5, <1>6 DEF RemovalInv

\* A pass waits, fails or stops: what was given back stays so.
LEMMA DeferDeletionInv ==
  ASSUME RemovalInv, DeferDeletion
  PROVE  RemovalInv'
<1>1. RemovalTypeOK'
  BY DEF RemovalInv, RemovalTypeOK, DeferDeletion, Pass, NoPass
<1>2. LockInv'
  BY DEF RemovalInv, LockInv, DeferDeletion, Pass, NoPass
<1>3. ProjectInv'
  BY DEF RemovalInv, ProjectInv, DeferDeletion, Pass, NoPass
<1>4. ReconcileInv'
  BY DEF RemovalInv, ReconcileInv, RouteRemoval, Listed, DeferDeletion
<1>5. DeleteInv'
  BY DEF RemovalInv, DeleteInv, DeferDeletion, Pass, NoPass
<1>6. NothingOutlivesItsRecord'
  BY DEF RemovalInv, NothingOutlivesItsRecord, DeferDeletion
<1> QED
  BY <1>1, <1>2, <1>3, <1>4, <1>5, <1>6 DEF RemovalInv

LEMMA DeletionFailsInv ==
  ASSUME RemovalInv, DeletionFails
  PROVE  RemovalInv'
<1>1. RemovalTypeOK'
  BY DEF RemovalInv, RemovalTypeOK, DeletionFails, Pass
<1>2. LockInv'
  BY DEF RemovalInv, LockInv, DeletionFails, Pass
<1>3. ProjectInv'
  BY DEF RemovalInv, ProjectInv, DeletionFails, Pass
<1>4. ReconcileInv'
  BY DEF RemovalInv, ReconcileInv, RouteRemoval, Listed, DeletionFails
<1>5. DeleteInv'
  BY DEF RemovalInv, DeleteInv, DeletionFails, Pass
<1>6. NothingOutlivesItsRecord'
  BY DEF RemovalInv, NothingOutlivesItsRecord, DeletionFails
<1> QED
  BY <1>1, <1>2, <1>3, <1>4, <1>5, <1>6 DEF RemovalInv

LEMMA ProgramStopsInv ==
  ASSUME RemovalInv, ProgramStops
  PROVE  RemovalInv'
<1>1. RemovalTypeOK'
  BY DEF RemovalInv, RemovalTypeOK, ProgramStops, Pass, NoPass
<1>2. LockInv'
  BY DEF RemovalInv, LockInv, ProgramStops, Pass, NoPass
<1>3. ProjectInv'
  BY DEF RemovalInv, ProjectInv, ProgramStops, Pass, NoPass
<1>4. ReconcileInv'
  BY DEF RemovalInv, ReconcileInv, RouteRemoval, Listed, ProgramStops, Pass, NoPass
<1>5. DeleteInv'
  BY DEF RemovalInv, DeleteInv, RouteRemoval, ProgramStops, Pass, NoPass
<1>6. NothingOutlivesItsRecord'
  BY DEF RemovalInv, NothingOutlivesItsRecord, ProgramStops
<1> QED
  BY <1>1, <1>2, <1>3, <1>4, <1>5, <1>6 DEF RemovalInv

LEMMA RemovalStutterInv ==
  ASSUME RemovalInv, UNCHANGED removalVars
  PROVE  RemovalInv'
BY DEF RemovalInv, RemovalTypeOK, LockInv, ProjectInv, ReconcileInv, DeleteInv,
       NothingOutlivesItsRecord, RouteRemoval, Listed, removalVars

LEMMA RemovalStepInv == RemovalInv /\ [RemovalNext]_removalVars => RemovalInv'
BY RemovalStutterInv,
   EnqueueJobInv, SettleJobInv, DeleteProjectInv, CreateCustomDomainInv,
   VerifyCustomDomainInv, RemoveCustomDomainInv, BeginProvisionInv, BeginReconcileInv,
   BeginDeletionInv, ListDeletionsInv, PrepareWebsiteInv, WriteAssignmentsInv,
   RestartWorkerInv, ReconcileRemovalInv, RouteConflictInv, ApplyIngressInv,
   ApplyCertificateInv, RecordRouteInv, NextDeletionInv, DeleteRouteInv,
   DeleteResourceInv, RestartReducedInv, PurgeRecordsInv, DeferDeletionInv,
   DeletionFailsInv, ProgramStopsInv
   DEF RemovalNext, ProvisionProceeds, ReconcileProceeds, DeletionProceeds

-----------------------------------------------------------------------------
(* ProjectDeletion: the theorems.                                          *)

\* The invariant holds of the portal, the three programs and what they share.
THEOREM RemovalInvariance == RemovalSpec => []RemovalInv
BY RemovalInitInv, RemovalStepInv, PTL DEF RemovalSpec

\* The variables keep their types (ProjectDeletion).
THEOREM RemovalTypeCorrect == RemovalSpec => []RemovalTypeOK
BY RemovalInvariance, PTL DEF RemovalInv

\* No website, and no row of a domain, goes away while something in the cluster
\* or on the fleet host is still held for it, wherever the three programs are
\* stopped (delete-projects.py, reconcile-domains.py, provision-projects.py).
THEOREM NothingIsLeftBehind == RemovalSpec => []NothingOutlivesItsRecord
BY RemovalInvariance, PTL DEF RemovalInv
=============================================================================
