--------------------------- MODULE HostingBilling ---------------------------
(***************************************************************************)
(* Hosting subscriptions (internal/portal billing_*.go, hosting_access.go, *)
(* internal/hostingbilling, cmd/billing-worker): a workspace asks for a    *)
(* customer and a checkout, a billing worker creates both at the payment   *)
(* provider under an idempotency key, webhooks are kept in a durable inbox *)
(* and only say that something changed, and hosting is allowed on evidence *)
(* read from the provider.                                                 *)
(*                                                                         *)
(* One workspace, one subscription with one paid invoice.  The provider is *)
(* external: it deduplicates creates by key for a day, delivers events     *)
(* late, repeatedly and in any order, and loses some of the signals.  A    *)
(* version of the provider's data is one more than the changes so far.     *)
(***************************************************************************)
EXTENDS Naturals, Sequences, FiniteSets

CONSTANTS
  MaxCheckouts,    \* bound: billing_checkouts the workspace asks for
  BillingWorkers,  \* worker processes
  MaxChanges,      \* bound: changes of the subscription or its charge
  MaxBillingFaults \* bound: failed tasks, reads fenced, observations left to age

ASSUME BillingAssumption ==
  MaxCheckouts \in Nat /\ MaxChanges \in Nat /\ MaxBillingFaults \in Nat

\* Checkouts in the order of their requests, after the customer's request.
Checkouts == 1 .. MaxCheckouts
CustomerRequest == 0
Requests == Checkouts \cup {CustomerRequest}
Versions == 1 .. MaxChanges + 1
Aspects == {"subscription", "charge"}

\* Verified webhook events: a session's end, or a signal that an aspect changed.
SessionEvents == {"completed", "expired"} \X Checkouts
Signals == Aspects \X (1 .. MaxChanges)
Events == SessionEvents \cup Signals

VARIABLES
  request,   \* billing_customers and billing_checkouts
  age,       \* of a pending request: 0, 1 from 23 hours on, 2 after a day
  made,      \* objects the provider created for a request
  session,   \* the provider's checkout sessions
  history,   \* the provider's changes, by aspect
  inbox,     \* billing_events
  known,     \* "yes" once the subscription is recorded
  chargeRow, \* "yes" once the invoice's charge is recorded
  observed,  \* the version the stored snapshot of an aspect shows; 0: none
  fresh,     \* aspects whose snapshot is younger than 900 seconds
  worker,    \* what each worker is doing
  faults     \* faults so far

billingVars == <<request, age, made, session, history, inbox, known, chargeRow,
                 observed, fresh, worker, faults>>

Worker == [task   : {"idle", "create", "subscription", "charge", "event"},
           ref    : Requests,
           event  : 0 .. MaxChanges,
           at     : {"rest", "call", "bind", "read", "store", "signal"},
           fenced : {"yes", "no"},
           seen   : Nat]

BillingTypeOK ==
  /\ request \in [Requests -> {"none", "pending", "open", "completed", "expired"}]
  /\ age \in [Requests -> 0 .. 2]
  /\ made \in [Requests -> Nat]
  /\ session \in [Checkouts -> {"none", "open", "completed", "expired"}]
  /\ history \in Seq(Aspects)
  /\ inbox \in [Events -> {"none", "pending", "processed", "ignored"}]
  /\ known \in {"yes", "no"} /\ chargeRow \in {"yes", "no"}
  /\ observed \in [Aspects -> Nat]
  /\ fresh \subseteq Aspects
  /\ worker \in [BillingWorkers -> Worker]
  /\ faults \in 0 .. MaxBillingFaults

Task(task, ref, event, at) ==
  [task |-> task, ref |-> ref, event |-> event, at |-> at, fenced |-> "no", seen |-> 0]

Resting == Task("idle", CustomerRequest, 0, "rest")

BillingInit ==
  /\ request = [q \in Requests |-> "none"]
  /\ age = [q \in Requests |-> 0]
  /\ made = [q \in Requests |-> 0]
  /\ session = [c \in Checkouts |-> "none"]
  /\ history = << >>
  /\ inbox = [e \in Events |-> "none"]
  /\ known = "no" /\ chargeRow = "no"
  /\ observed = [a \in Aspects |-> 0]
  /\ fresh = {}
  /\ worker = [w \in BillingWorkers |-> Resting]
  /\ faults = 0

-----------------------------------------------------------------------------
(* The provider.                                                           *)

Version == Len(history) + 1

\* An aspect starts in good standing, and every change of it turns it over:
\* past due or paid again, disputed or won.
Good(a, v) ==
  v # 0 /\ Cardinality({k \in 1 .. v - 1 : history[k] = a}) % 2 = 0

\* The customer completes the hosted checkout page, or it expires.
SessionEnds(c, s) ==
  /\ session[c] = "open"
  /\ s = "completed" => request[c] = "open"
  /\ session' = [session EXCEPT ![c] = s]
  /\ UNCHANGED <<request, age, made, history, inbox, known, chargeRow, observed,
                 fresh, worker, faults>>

ProviderChanges(a) ==
  /\ \E c \in Checkouts : session[c] = "completed"
  /\ Len(history) < MaxChanges
  /\ history' = Append(history, a)
  /\ UNCHANGED <<request, age, made, session, inbox, known, chargeRow, observed,
                 fresh, worker, faults>>

Emitted(e) ==
  IF e \in SessionEvents THEN session[e[2]] = e[1]
  ELSE e[2] <= Len(history) /\ history[e[2]] = e[1]

\* A delivery; a repeated one finds the event in the inbox.
AcceptBillingWebhook(e) ==
  /\ Emitted(e) /\ inbox[e] = "none"
  /\ inbox' = [inbox EXCEPT ![e] = "pending"]
  /\ UNCHANGED <<request, age, made, session, history, known, chargeRow,
                 observed, fresh, worker, faults>>

-----------------------------------------------------------------------------
(* The owner's requests.                                                   *)

RequestBillingCustomer ==
  /\ request[CustomerRequest] = "none"
  /\ request' = [request EXCEPT ![CustomerRequest] = "pending"]
  /\ UNCHANGED <<age, made, session, history, inbox, known, chargeRow, observed,
                 fresh, worker, faults>>

HoldsCheckout(c) == request[c] \in {"pending", "open", "completed"}

RequestBillingCheckout(c) ==
  /\ request[CustomerRequest] = "open"
  /\ request[c] = "none" /\ request[c - 1] # "none"
  /\ \A d \in Checkouts : ~HoldsCheckout(d)
  /\ request' = [request EXCEPT ![c] = "pending"]
  /\ UNCHANGED <<age, made, session, history, inbox, known, chargeRow, observed,
                 fresh, worker, faults>>

\* Hours pass before a request is bound.  A create is over within 30 seconds.
HoursPass(q) ==
  /\ request[q] = "pending" /\ age[q] < 2
  /\ age[q] = 1 => \A w \in BillingWorkers : worker[w].ref # q \/ worker[w].task # "create"
  /\ age' = [age EXCEPT ![q] = @ + 1]
  /\ UNCHANGED <<request, made, session, history, inbox, known, chargeRow,
                 observed, fresh, worker, faults>>

-----------------------------------------------------------------------------
(* The worker: one leased task at a time, abandoned at any point.          *)

Take(w, task, ref, event, at) ==
  worker' = [worker EXCEPT ![w] = Task(task, ref, event, at)]

Doing(task) == {w \in BillingWorkers : worker[w].task = task}

\* The task failed, timed out or lost its answer, or the process stopped.
TaskFails(w) ==
  /\ worker[w].task # "idle" /\ faults < MaxBillingFaults
  /\ worker' = [worker EXCEPT ![w] = Resting]
  /\ faults' = faults + 1
  /\ UNCHANGED <<request, age, made, session, history, inbox, known, chargeRow,
                 observed, fresh>>

\* Still pending, and young enough for the provider to remember the key.
CustomerRetryable(q) ==
  q = CustomerRequest /\ request[q] = "pending" /\ age[q] = 0

\* Mutant: a checkout is sent again however old it is.
CheckoutRetryableEver(q) == q \in Checkouts /\ request[q] = "pending"

CheckoutRetryable(q) ==
  q \in Checkouts /\ request[q] = "pending" /\ age[q] = 0

TakeCreate(w, q) ==
  /\ worker[w].task = "idle"
  /\ CustomerRetryable(q) \/ CheckoutRetryable(q)
  /\ \A x \in Doing("create") : worker[x].ref # q
  /\ Take(w, "create", q, 0, "call")
  /\ UNCHANGED <<request, age, made, session, history, inbox, known, chargeRow,
                 observed, fresh, faults>>

\* A create under the key of request q, which the provider knows for a day.
Create(w, q) ==
  /\ worker[w].at = "call" /\ worker[w].ref = q
  /\ made' = IF made[q] = 0 \/ age[q] = 2 THEN [made EXCEPT ![q] = @ + 1] ELSE made
  /\ worker' = [worker EXCEPT ![w].at = "bind"]
  /\ UNCHANGED <<request, age, history, inbox, known, chargeRow, observed, fresh, faults>>

CreateCustomer(w) == Create(w, CustomerRequest) /\ UNCHANGED session

CreatePinnedCheckout(w) ==
  \E q \in Checkouts :
    /\ Create(w, q)
    /\ session' = IF made' = made THEN session ELSE [session EXCEPT ![q] = "open"]

Bind(w, q) ==
  /\ worker[w].at = "bind" /\ worker[w].ref = q
  /\ request' = [request EXCEPT ![q] = "open"]
  /\ age' = [age EXCEPT ![q] = 0]
  /\ worker' = [worker EXCEPT ![w] = Resting]
  /\ UNCHANGED <<made, session, history, inbox, known, chargeRow, observed, fresh, faults>>

BindBillingCustomer(w) == Bind(w, CustomerRequest)
BindBillingCheckout(w) == \E q \in Checkouts : Bind(w, q)

\* ProcessBillingCheckoutEvent.  An event of a session not yet bound waits.
ProcessCheckoutEvent(w, e) ==
  LET c == e[2] IN
  /\ worker[w].task = "idle"
  /\ e \in SessionEvents /\ inbox[e] = "pending"
  /\ IF e[1] = "expired" /\ request[c] = "completed"
     THEN /\ inbox' = [inbox EXCEPT ![e] = "ignored"]
          /\ UNCHANGED <<request, known>>
     ELSE /\ request[c] \in {"open", e[1]}
          /\ request' = [request EXCEPT ![c] = e[1]]
          /\ known' = IF e[1] = "completed" THEN "yes" ELSE known
          /\ inbox' = [inbox EXCEPT ![e] = "processed"]
  /\ UNCHANGED <<age, made, session, history, chargeRow, observed, fresh, worker, faults>>

\* The workers reading an aspect, of the tasks that do.
Reading(tasks) ==
  {w \in BillingWorkers : worker[w].task \in tasks /\ worker[w].at \in {"read", "store"}}

\* A generation taken for an aspect fences the reads of it under way.
Fence(tasks) ==
  [w \in BillingWorkers |->
     IF w \in Reading(tasks) THEN [worker[w] EXCEPT !.fenced = "yes"] ELSE worker[w]]

\* A read is over within 30 seconds while the refreshes are a minute or more
\* apart and retries wait ever longer: that one read of the charge fences
\* another happens, and counts as a fault.
TakeChargeGeneration(w, task, event) ==
  /\ worker' = [Fence({"charge", "event"}) EXCEPT
                  ![w] = Task(task, CustomerRequest, event, "read")]
  /\ IF \A x \in Reading({"charge", "event"}) : worker[x].fenced = "yes"
     THEN UNCHANGED faults
     ELSE faults < MaxBillingFaults /\ faults' = faults + 1

\* ProcessBillingSubscriptionEvent: the snapshot is dropped, reads under way
\* are fenced, and the refresh is due again.
ProcessSubscriptionEvent(w, e) ==
  /\ worker[w].task = "idle"
  /\ e \in Signals /\ e[1] = "subscription" /\ inbox[e] = "pending"
  /\ known = "yes"
  /\ observed' = [observed EXCEPT !["subscription"] = 0]
  /\ fresh' = fresh \ {"subscription"}
  /\ worker' = Fence({"subscription"})
  /\ inbox' = [inbox EXCEPT ![e] = "processed"]
  /\ UNCHANGED <<request, age, made, session, history, known, chargeRow, faults>>

\* Mutant: a subscription that was read once is done, like other tasks.
RefreshDueOnce == observed["subscription"] = 0

\* The task of a subscription is never done: after success or failure it is
\* only put off.
RefreshDue == TRUE

\* ReconcileBillingSubscription takes a generation.  Its lease outlasts the
\* read unless an event reset it.
StartSubscription(w) ==
  /\ worker[w].task = "idle" /\ known = "yes" /\ RefreshDue
  /\ \A x \in Doing("subscription") : worker[x].fenced = "yes"
  /\ Take(w, "subscription", CustomerRequest, 0, "read")
  /\ UNCHANGED <<request, age, made, session, history, inbox, known, chargeRow,
                 observed, fresh, faults>>

\* RefreshBillingChargeOnce: a recorded charge, again and again.
StartCharge(w) ==
  /\ worker[w].task = "idle" /\ chargeRow = "yes" /\ Doing("charge") = {}
  /\ TakeChargeGeneration(w, "charge", 0)
  /\ UNCHANGED <<request, age, made, session, history, inbox, known, chargeRow,
                 observed, fresh>>

\* ProcessBillingChargeEvent first reads the charge again.
StartChargeEvent(w, e) ==
  /\ worker[w].task = "idle"
  /\ e \in Signals /\ e[1] = "charge" /\ inbox[e] = "pending"
  /\ \A x \in Doing("event") : worker[x].event # e[2]
  /\ chargeRow' = "yes"
  /\ TakeChargeGeneration(w, "event", e[2])
  /\ UNCHANGED <<request, age, made, session, history, inbox, known, observed,
                 fresh>>

\* RetrieveSubscription or RetrieveChargeObservation.
ReadProvider(w) ==
  /\ worker[w].at = "read"
  /\ worker' = [worker EXCEPT ![w].seen = Version, ![w].at = "store"]
  /\ UNCHANGED <<request, age, made, session, history, inbox, known, chargeRow,
                 observed, fresh, faults>>

\* Mutant: the generation is not compared.
MayStoreAnyway(w) == worker[w].at = "store"

MayStore(w) == worker[w].at = "store" /\ worker[w].fenced = "no"

\* The snapshot is stored, and with it the charge of the invoice recorded.
StoreSubscription(w) ==
  /\ worker[w].task = "subscription" /\ MayStore(w)
  /\ observed' = [observed EXCEPT !["subscription"] = worker[w].seen]
  /\ fresh' = fresh \cup {"subscription"}
  /\ chargeRow' = "yes"
  /\ worker' = [worker EXCEPT ![w] = Resting]
  /\ UNCHANGED <<request, age, made, session, history, inbox, known, faults>>

\* ReconcileBillingCharge stores what it read of a known subscription's charge.
StoreCharge(w) ==
  /\ worker[w].task \in {"charge", "event"} /\ MayStore(w) /\ known = "yes"
  /\ observed' = [observed EXCEPT !["charge"] = worker[w].seen]
  /\ fresh' = fresh \cup {"charge"}
  /\ worker' = [worker EXCEPT ![w] =
                  IF worker[w].task = "charge" THEN Resting
                  ELSE [worker[w] EXCEPT !.at = "signal", !.seen = 0]]
  /\ UNCHANGED <<request, age, made, session, history, inbox, known, chargeRow, faults>>

\* A newer generation, or a subscription not yet recorded: the read is lost,
\* the task comes up again.
ReadIsDropped(w) ==
  /\ worker[w].at = "store"
  /\ worker[w].fenced = "yes" \/ known = "no"
  /\ worker' = [worker EXCEPT ![w] = Resting]
  /\ UNCHANGED <<request, age, made, session, history, inbox, known, chargeRow,
                 observed, fresh, faults>>

\* The rest of ProcessBillingChargeEvent.
FinishChargeEvent(w) ==
  LET e == <<"charge", worker[w].event>> IN
  /\ worker[w].at = "signal"
  /\ observed' = [observed EXCEPT !["subscription"] = 0]
  /\ fresh' = fresh \ {"subscription"}
  /\ inbox' = [inbox EXCEPT ![e] = "processed"]
  /\ worker' = [Fence({"subscription"}) EXCEPT ![w] = Resting]
  /\ UNCHANGED <<request, age, made, session, history, known, chargeRow, faults>>

\* A snapshot is not refreshed for 900 seconds.
ObservationAges(a) ==
  /\ a \in fresh /\ faults < MaxBillingFaults
  /\ fresh' = fresh \ {a}
  /\ faults' = faults + 1
  /\ UNCHANGED <<request, age, made, session, history, inbox, known, chargeRow,
                 observed, worker>>

WorkerProceeds(w) ==
  \/ CreateCustomer(w) \/ CreatePinnedCheckout(w)
  \/ BindBillingCustomer(w) \/ BindBillingCheckout(w)
  \/ ReadProvider(w) \/ StoreSubscription(w) \/ StoreCharge(w)
  \/ ReadIsDropped(w) \/ FinishChargeEvent(w)

BillingNext ==
  \/ \E c \in Checkouts, s \in {"completed", "expired"} : SessionEnds(c, s)
  \/ \E a \in Aspects : ProviderChanges(a) \/ ObservationAges(a)
  \/ \E e \in Events : AcceptBillingWebhook(e)
  \/ RequestBillingCustomer
  \/ \E c \in Checkouts : RequestBillingCheckout(c)
  \/ \E q \in Requests : HoursPass(q)
  \/ \E w \in BillingWorkers :
       \/ TaskFails(w) \/ WorkerProceeds(w) \/ StartSubscription(w) \/ StartCharge(w)
       \/ \E q \in Requests : TakeCreate(w, q)
       \/ \E e \in Events :
            \/ ProcessCheckoutEvent(w, e)
            \/ ProcessSubscriptionEvent(w, e)
            \/ StartChargeEvent(w, e)

BillingSpec == BillingInit /\ [][BillingNext]_billingVars

\* The loop of RunBillingWorker takes the tasks in the order they are due, so
\* that none is passed over for ever.  Webhooks need not arrive.
BillingFairness ==
  /\ \A w \in BillingWorkers : WF_billingVars(WorkerProceeds(w))
  /\ SF_billingVars(\E w \in BillingWorkers : StartSubscription(w))
  /\ SF_billingVars(\E w \in BillingWorkers : StartCharge(w))

-----------------------------------------------------------------------------
(* Properties.                                                             *)

\* qualifyingHostingEntitlement, for a workspace whose policy requires a
\* subscription.
Allowed ==
  /\ \E c \in Checkouts : request[c] = "completed"
  /\ known = "yes"
  /\ fresh = Aspects
  /\ \A a \in Aspects : Good(a, observed[a])

\* BilledOnce: although creates are repeated after lost answers by workers that
\* remember nothing, no request makes a second customer or session, and a
\* workspace never completes two checkouts (BillingCheckoutWork,
\* RequestBillingCheckout).
BilledOnce ==
  /\ \A q \in Requests : made[q] <= 1
  /\ Cardinality({c \in Checkouts : session[c] = "completed"}) <= 1

\* AccessHeedsSignals: hosting is never allowed on an observation older than a
\* change whose signal was processed, whatever the order in which events and
\* concurrent reads complete (the generations of ReconcileBillingSubscription
\* and ReconcileBillingCharge).
AccessHeedsSignals ==
  Allowed =>
    \A e \in Signals : inbox[e] = "processed" =>
      /\ observed[e[1]] > e[2]
      /\ observed["subscription"] > e[2]

\* AccessFollowsProvider: once the subscription is recorded, the periodic
\* refresh makes access agree with the provider again and again, even if every
\* signal is lost (BillingWorkOnce, RefreshBillingChargeOnce).
AccessFollowsProvider ==
  []<>(known = "yes" => (Allowed <=> \A a \in Aspects : Good(a, Version)))
=============================================================================
