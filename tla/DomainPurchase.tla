--------------------------- MODULE DomainPurchase ---------------------------
(***************************************************************************)
(* Buying a domain name (internal/portal domain_quotes.go,                 *)
(* domain_orders.go, domain_purchases.go, internal/domainbilling,          *)
(* internal/namesilo, the registrar adapter of cmd/customer-portal): an    *)
(* owner orders at a quoted price, starts the purchase for a website, pays *)
(* on the provider's page, and one process after another takes the         *)
(* purchase to registration and DNS.  An intent file stands before every   *)
(* call to the registrar that cannot be repeated.                          *)
(*                                                                         *)
(* Several orders from several workspaces, of the same name or of others.  *)
(* The payment provider and the registrar are external: an answer may be   *)
(* lost after the call took effect.  The process may stop anywhere, and a  *)
(* buyer may never pay.                                                    *)
(***************************************************************************)
EXTENDS Naturals, FiniteSets

CONSTANTS
  Orders,         \* domain_orders, of different workspaces
  Names,          \* domain names
  ListLimit,      \* purchases that Run lists: 100 in the code
  MaxDomainFaults \* bound: lost answers, failed steps and stops

\* No purchase is being processed.
NoOrder == "none"

ASSUME DomainAssumption ==
  /\ NoOrder \notin Orders
  /\ ListLimit \in Nat \ {0}
  /\ MaxDomainFaults \in Nat

VARIABLES
  domain,    \* the name each order is for
  older,     \* purchases created before an order's purchase (created_at)
  order,     \* domain_orders.state
  starting,  \* where the Start of an order is: it waits for a quote, or has created
             \* the purchase and is to process it
  purchase,  \* sandbox_domain_purchases.state
  checkout,  \* checkout_id of the purchase: the session saved; 0: none
  hours,     \* age of a purchase without checkout: 0, 1 from 23 h, 2 after a day
  website,   \* of each purchase: "live", or "removed" once its deletion was requested
  pass,      \* purchases Run has listed and has still to take up
  step,      \* where process is, and with which purchase; it holds the mutex
  attempt,   \* the registration's attempt file
  dnsIntent, \* the DNS intent file
  sessions,  \* the provider's sessions of an order
  paid,      \* orders whose session was paid
  registered,\* registrations made at the registrar, by order
  dns,       \* A records added at the registrar, by order
  setbacks   \* faults so far

domainVars == <<domain, older, order, starting, purchase, checkout, hours, website,
                pass, step, attempt, dnsIntent, sessions, paid, registered, dns, setbacks>>

DomainTypeOK ==
  /\ domain \in [Orders -> Names]
  /\ older \in [Orders -> SUBSET Orders]
  /\ order \in [Orders -> {"none", "awaiting_payment", "canceled"}]
  /\ starting \in [Orders -> {"no", "quote", "process"}]
  /\ purchase \in [Orders -> {"none", "payment_pending", "registering", "connecting",
                             "connected", "needs_review"}]
  /\ checkout \in [Orders -> Nat]
  /\ hours \in [Orders -> 0 .. 2]
  /\ website \in [Orders -> {"live", "removed"}]
  /\ pass \subseteq Orders
  /\ step \in [at : {"rest", "create", "save", "read", "register", "order", "receipt",
                     "confirm", "connect", "record"},
               of : Orders \cup {NoOrder}]
  /\ attempt \in [Orders -> {"none", "intent", "receipt"}]
  /\ dnsIntent \subseteq Orders
  /\ sessions \in [Orders -> Nat]
  /\ paid \subseteq Orders
  /\ registered \in [Orders -> Nat]
  /\ dns \in [Orders -> Nat]
  /\ setbacks \in 0 .. MaxDomainFaults

AtRest == [at |-> "rest", of |-> NoOrder]

DomainInit ==
  /\ domain \in [Orders -> Names]
  /\ older = [o \in Orders |-> {}]
  /\ order = [o \in Orders |-> "none"]
  /\ starting = [o \in Orders |-> "no"]
  /\ purchase = [o \in Orders |-> "none"]
  /\ checkout = [o \in Orders |-> 0]
  /\ hours = [o \in Orders |-> 0]
  /\ website = [o \in Orders |-> "live"]
  /\ pass = {}
  /\ step = AtRest
  /\ attempt = [o \in Orders |-> "none"]
  /\ dnsIntent = {}
  /\ sessions = [o \in Orders |-> 0]
  /\ paid = {}
  /\ registered = [o \in Orders |-> 0]
  /\ dns = [o \in Orders |-> 0]
  /\ setbacks = 0

-----------------------------------------------------------------------------
(* Orders.                                                                 *)

\* RequestDomainOrder, with a quote that still holds when it is asked again: a
\* workspace has one order of the name awaiting payment.
RequestDomainOrder(o) ==
  /\ order[o] = "none"
  /\ order' = [order EXCEPT ![o] = "awaiting_payment"]
  /\ UNCHANGED <<domain, older, starting, purchase, checkout, hours, website,
                 step, pass, attempt, dnsIntent, sessions, paid, registered, dns,
                 setbacks>>

MayCancel(o) == order[o] = "awaiting_payment" /\ purchase[o] = "none"

CancelDomainOrder(o) ==
  /\ MayCancel(o)
  /\ order' = [order EXCEPT ![o] = "canceled"]
  /\ UNCHANGED <<domain, older, starting, purchase, checkout, hours, website,
                 step, pass, attempt, dnsIntent, sessions, paid, registered, dns,
                 setbacks>>

\* Start: the order is checked, then the registrar asked for a fresh price ...
BeginStart(o) ==
  /\ order[o] = "awaiting_payment" /\ purchase[o] = "none"
  /\ starting' = [starting EXCEPT ![o] = "quote"]
  /\ UNCHANGED <<domain, older, order, purchase, checkout, hours, website, step,
                 pass, attempt, dnsIntent, sessions, paid, registered, dns,
                 setbacks>>

\* ... and the transaction looks again: at the order, at the website, and, by
\* its unique name, at other purchases.  It may also refuse for the price.
FinishStart(o) ==
  /\ starting[o] = "quote"
  /\ \/ /\ website[o] = "live" /\ order[o] = "awaiting_payment"
        /\ \A p \in Orders : domain[p] = domain[o] => purchase[p] = "none"
        /\ purchase' = [purchase EXCEPT ![o] = "payment_pending"]
        /\ older' = [older EXCEPT ![o] = {p \in Orders : purchase[p] # "none"}]
        /\ starting' = [starting EXCEPT ![o] = "process"]
     \/ starting' = [starting EXCEPT ![o] = "no"] /\ UNCHANGED <<purchase, older>>
  /\ UNCHANGED <<domain, order, checkout, hours, website, step, pass, attempt,
                 dnsIntent, sessions, paid, registered, dns, setbacks>>

RemoveWebsite(o) ==
  /\ website[o] = "live"
  /\ website' = [website EXCEPT ![o] = "removed"]
  /\ UNCHANGED <<domain, older, order, starting, purchase, checkout, hours, step,
                 pass, attempt, dnsIntent, sessions, paid, registered, dns,
                 setbacks>>

\* A call is over within a minute.
HoursGoBy(o) ==
  /\ purchase[o] = "payment_pending" /\ checkout[o] = 0 /\ hours[o] < 2
  /\ hours[o] = 1 => step.of # o
  /\ hours' = [hours EXCEPT ![o] = @ + 1]
  /\ UNCHANGED <<domain, older, order, starting, purchase, checkout, website,
                 step, pass, attempt, dnsIntent, sessions, paid, registered, dns,
                 setbacks>>

\* The buyer pays on the page whose address was saved.
BuyerPays(o) ==
  /\ checkout[o] # 0 /\ o \notin paid
  /\ paid' = paid \cup {o}
  /\ UNCHANGED <<domain, older, order, starting, purchase, checkout, hours,
                 website, step, pass, attempt, dnsIntent, sessions, registered,
                 dns, setbacks>>

-----------------------------------------------------------------------------
(* process, under the mutex.                                               *)

Review(o) == purchase' = [purchase EXCEPT ![o] = "needs_review"]
Proceed(at) == step' = [step EXCEPT !.at = at]

\* The process stops, or the call's deadline passes: what was saved remains.
ProcessStops ==
  /\ step # AtRest \/ pass # {}
  /\ setbacks < MaxDomainFaults
  /\ step' = AtRest
  /\ pass' \in {pass, {}}
  /\ setbacks' = setbacks + 1
  /\ UNCHANGED <<domain, older, order, starting, purchase, checkout, hours, website,
                 attempt, dnsIntent, sessions, paid, registered, dns>>

\* Where process takes the purchase up.
StepFor(o) ==
  IF purchase[o] = "registering" THEN "register"
  ELSE IF purchase[o] = "connecting" THEN "connect"
  ELSE IF checkout[o] # 0 THEN "read"
  ELSE IF hours[o] = 0 THEN "create"
  ELSE "review"

\* process returns at once from a purchase at its end.
Process(o) ==
  /\ step = AtRest
  /\ IF purchase[o] \in {"connected", "needs_review"}
     THEN UNCHANGED <<purchase, step>>
     ELSE IF website[o] = "live" /\ StepFor(o) # "review"
     THEN step' = [at |-> StepFor(o), of |-> o] /\ UNCHANGED purchase
     ELSE Review(o) /\ UNCHANGED step
  /\ UNCHANGED <<domain, older, order, checkout, hours, website, attempt, dnsIntent,
                 sessions, paid, registered, dns, setbacks>>

\* At the end of Start, beside whatever Run is at.
ProcessStarted(o) ==
  /\ starting[o] = "process"
  /\ starting' = [starting EXCEPT ![o] = "no"]
  /\ Process(o)
  /\ UNCHANGED pass

\* By Run, woken by a Sync.
ProcessWoken(o) ==
  /\ purchase[o] # "none" /\ pass = {}
  /\ Process(o)
  /\ UNCHANGED <<starting, pass>>

\* Mutant: what was being registered is left to the process that began it.
TakenUpUnpaid(o) == purchase[o] \in {"payment_pending", "connecting"}

\* The states that Run's query asks for.
TakenUp(o) == purchase[o] \in {"payment_pending", "registering", "connecting"}

\* ... of which it lists the oldest ListLimit purchases.
RunLists(o) == TakenUp(o) /\ Cardinality({p \in older[o] : TakenUp(p)}) < ListLimit

\* The ticker of Run: the list is read once ...
Tick ==
  /\ pass = {}
  /\ pass' = {o \in Orders : RunLists(o)}
  /\ UNCHANGED <<domain, older, order, starting, purchase, checkout, hours, website,
                 step, attempt, dnsIntent, sessions, paid, registered, dns, setbacks>>

\* ... and its purchases are processed in turn.
ProcessListed(o) ==
  /\ o \in pass
  /\ pass' = pass \ {o}
  /\ Process(o)
  /\ UNCHANGED starting

\* CreateCheckout, under the order's idempotency key, which lasts for a day.
CreateCheckout ==
  LET o == step.of IN
  /\ step.at = "create"
  /\ sessions' = IF sessions[o] = 0 \/ hours[o] = 2 THEN [sessions EXCEPT ![o] = @ + 1] ELSE sessions
  /\ Proceed("save")
  /\ UNCHANGED <<domain, older, order, starting, purchase, checkout, hours,
                 website, pass, attempt, dnsIntent, paid, registered, dns,
                 setbacks>>

SaveCheckout ==
  LET o == step.of IN
  /\ step.at = "save"
  /\ checkout' = [checkout EXCEPT ![o] = sessions[o]]
  /\ hours' = [hours EXCEPT ![o] = 0]
  /\ Proceed("read")
  /\ UNCHANGED <<domain, older, order, starting, purchase, website, pass, attempt,
                 dnsIntent, sessions, paid, registered, dns, setbacks>>

\* ReadCheckout: only a complete and paid session goes further.
ReadCheckout ==
  LET o == step.of IN
  /\ step.at = "read"
  /\ IF o \in paid
     THEN purchase' = [purchase EXCEPT ![o] = "registering"] /\ Proceed("register")
     ELSE step' = AtRest /\ UNCHANGED purchase
  /\ UNCHANGED <<domain, older, order, starting, checkout, hours, website, pass,
                 attempt, dnsIntent, sessions, paid, registered, dns, setbacks>>

\* Mutant: an attempt that was not finished is made again.
AttemptedAndFinished(o) == attempt[o] = "receipt"

Attempted(o) == attempt[o] # "none"

\* ExecuteOnce: the first attempt writes its file before the call; a later one
\* only reads what the first left.
BeginAttempt ==
  LET o == step.of IN
  /\ step.at = "register" /\ ~Attempted(o)
  /\ attempt' = [attempt EXCEPT ![o] = "intent"]
  /\ Proceed("order")
  /\ UNCHANGED <<domain, older, order, starting, purchase, checkout, hours,
                 website, pass, dnsIntent, sessions, paid, registered, dns,
                 setbacks>>

ReplayAttempt ==
  LET o == step.of IN
  /\ step.at = "register" /\ Attempted(o)
  /\ IF attempt[o] = "receipt" THEN Proceed("confirm") /\ UNCHANGED purchase
     ELSE Review(o) /\ step' = AtRest
  /\ UNCHANGED <<domain, older, order, starting, checkout, hours, website, pass,
                 attempt, dnsIntent, sessions, paid, registered, dns, setbacks>>

\* The registrar registers the name, or refuses; the receipt is written after a
\* plain success.
RegisterDomain ==
  LET o == step.of IN
  /\ step.at = "order"
  /\ \/ /\ registered' = [registered EXCEPT ![o] = @ + 1]
        /\ Proceed("receipt") /\ UNCHANGED purchase
     \/ /\ Review(o) /\ step' = AtRest /\ UNCHANGED registered
  /\ UNCHANGED <<domain, older, order, starting, checkout, hours, website, pass,
                 attempt, dnsIntent, sessions, paid, dns, setbacks>>

\* The answer is lost, garbled or warns of a fallback, or the receipt cannot be
\* written.
AnswerIsLost ==
  /\ step.at = "receipt" /\ setbacks < MaxDomainFaults
  /\ Review(step.of) /\ step' = AtRest
  /\ setbacks' = setbacks + 1
  /\ UNCHANGED <<domain, older, order, starting, checkout, hours, website, pass,
                 attempt, dnsIntent, sessions, paid, registered, dns>>

WriteReceipt ==
  LET o == step.of IN
  /\ step.at = "receipt"
  /\ attempt' = [attempt EXCEPT ![o] = "receipt"]
  /\ Proceed("confirm")
  /\ UNCHANGED <<domain, older, order, starting, purchase, checkout, hours,
                 website, pass, dnsIntent, sessions, paid, registered, dns,
                 setbacks>>

\* GetDomainInfo shows our contact as the owner.
ConfirmRegistration ==
  LET o == step.of IN
  /\ step.at = "confirm"
  /\ purchase' = [purchase EXCEPT ![o] = "connecting"]
  /\ Proceed("connect")
  /\ UNCHANGED <<domain, older, order, starting, checkout, hours, website, pass,
                 attempt, dnsIntent, sessions, paid, registered, dns, setbacks>>

\* A read that the next step depends on fails or contradicts it.
ReadFails ==
  /\ step.at \in {"confirm", "connect"} /\ setbacks < MaxDomainFaults
  /\ Review(step.of) /\ step' = AtRest
  /\ setbacks' = setbacks + 1
  /\ UNCHANGED <<domain, older, order, starting, checkout, hours, website, pass,
                 attempt, dnsIntent, sessions, paid, registered, dns>>

\* Connect: the record is there already, or its intent is written first; an
\* intent without a record is for review.
Connect ==
  LET o == step.of IN
  /\ step.at = "connect"
  /\ \/ /\ dns[o] > 0
        /\ purchase' = [purchase EXCEPT ![o] = "connected"]
        /\ step' = AtRest /\ UNCHANGED dnsIntent
     \/ /\ dns[o] = 0 /\ o \in dnsIntent
        /\ Review(o) /\ step' = AtRest /\ UNCHANGED dnsIntent
     \/ /\ dns[o] = 0 /\ o \notin dnsIntent
        /\ dnsIntent' = dnsIntent \cup {o}
        /\ Proceed("record") /\ UNCHANGED purchase
  /\ UNCHANGED <<domain, older, order, starting, checkout, hours, website, pass,
                 attempt, sessions, paid, registered, dns, setbacks>>

\* AddDNSRecord, and the read that confirms it.
AddRecord ==
  /\ step.at = "record"
  /\ dns' = [dns EXCEPT ![step.of] = @ + 1]
  /\ Proceed("connect")
  /\ UNCHANGED <<domain, older, order, starting, purchase, checkout, hours,
                 website, pass, attempt, dnsIntent, sessions, paid, registered,
                 setbacks>>

ProcessProceeds ==
  \/ CreateCheckout \/ SaveCheckout \/ ReadCheckout
  \/ BeginAttempt \/ ReplayAttempt \/ RegisterDomain \/ WriteReceipt
  \/ ConfirmRegistration \/ Connect \/ AddRecord

DomainNext ==
  \/ \E o \in Orders :
       \/ RequestDomainOrder(o) \/ CancelDomainOrder(o)
       \/ BeginStart(o) \/ FinishStart(o)
       \/ HoursGoBy(o) \/ BuyerPays(o) \/ RemoveWebsite(o)
       \/ ProcessStarted(o) \/ ProcessWoken(o) \/ ProcessListed(o)
  \/ Tick \/ ProcessProceeds \/ ProcessStops \/ AnswerIsLost \/ ReadFails

DomainSpec == DomainInit /\ [][DomainNext]_domainVars

\* Run ticks every 15 seconds, and goes through what it listed.  No purchase can
\* count on a wake-up: it is what a page may ask for, and is dropped when there
\* are many.
DomainFairness ==
  /\ WF_domainVars(ProcessProceeds)
  /\ WF_domainVars(Tick)
  /\ WF_domainVars(\E o \in Orders : ProcessListed(o))

-----------------------------------------------------------------------------
(* Properties.                                                             *)

\* DomainBoughtOnce: however often the process stops between a call and the
\* record of its answer, a name is charged, registered and given its record at
\* most once, registered only when paid, and an order that was cancelled is never
\* charged (process, ExecuteOnce, Start, CancelDomainOrder).
DomainBoughtOnce ==
  /\ \A o \in Orders : sessions[o] <= 1 /\ registered[o] <= 1 /\ dns[o] <= 1
  /\ \A n \in Names : Cardinality({o \in Orders : domain[o] = n /\ sessions[o] > 0}) <= 1
  /\ \A o \in Orders : registered[o] > 0 => o \in paid
  /\ \A o \in Orders : order[o] = "canceled" => sessions[o] = 0

\* The domain is connected, or support is told to look.
Answered(o) == purchase[o] \in {"connected", "needs_review"}

\* Purchases that fill the list before o and that nobody has paid.
UnpaidBefore(o) == {p \in older[o] : TakenUp(p) /\ p \notin paid}

\* PaymentsAreAnswered: a purchase whose session was paid comes to its end, unless
\* older purchases that nobody pays fill the list by themselves; paid ones only
\* delay it (process, Run).
PaymentsAreAnswered ==
  []<>(\A o \in paid : Answered(o) \/ Cardinality(UnpaidBefore(o)) >= ListLimit)
=============================================================================
