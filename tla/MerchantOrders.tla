--------------------------- MODULE MerchantOrders ---------------------------
(***************************************************************************)
(* The merchant shop (internal/portal merchant_*.go, internal/             *)
(* merchantbilling, cmd/merchant-worker): a workspace's connected account, *)
(* a buyer's order and its refund.  Each is created at the payment         *)
(* provider once, after it was saved as submitted, and from then on only   *)
(* observed: by event, by maintenance, or by an operator who knows its     *)
(* identity.  Observations are fenced by a generation per row.             *)
(*                                                                         *)
(* One account, order and refund.  The provider is external; its states    *)
(* are numbered so that they only grow:                                    *)
(*   account   1 incomplete, 2 charges enabled, 3 restricted               *)
(*   order     1 open, 2 complete but unpaid, 3 paid, 4 expired            *)
(*   refund    1 pending, 3 succeeded, 4 failed or returned by the bank    *)
(* It delivers events late, repeatedly, in any order or not at all, and    *)
(* calls and their answers are lost.                                       *)
(***************************************************************************)
EXTENDS Naturals

CONSTANT MaxMerchantFaults \* bound: calls and reads that fail, reads of the worker fenced

ASSUME MerchantAssumption == MaxMerchantFaults \in Nat

Objects == {"account", "order", "refund"}

\* Reconciliations at the same time: the worker's, and that of a request.
Readers == {"worker", "request"}

VARIABLES
  stage,      \* state of the row until it is bound to its provider object
  recorded,   \* the provider state the row shows; 0: none
  sender,     \* the dispatch of each object
  reader,     \* the reconciliations under way
  turn,       \* the object the worker looks at next
  notices,    \* objects with a pending row in merchant_events
  fulfilled,  \* "yes" once the owner recorded the delivery
  actual,     \* the provider's state of each object; 0: it does not exist
  creations,  \* create calls that reached the provider
  mishaps     \* faults so far

merchantVars == <<stage, recorded, sender, reader, turn, notices, fulfilled, actual,
                  creations, mishaps>>

Sender == [at : {"none", "call", "answer"}, fenced : {"yes", "no"}]

Reader == [of : Objects, via : {"request", "worker", "event", "operator"},
           at : {"none", "read", "store"}, fenced : {"yes", "no"}, seen : 0 .. 4]

MerchantTypeOK ==
  /\ stage \in [Objects -> {"none", "requested", "submitted", "bound"}]
  /\ recorded \in [Objects -> 0 .. 4]
  /\ sender \in [Objects -> Sender]
  /\ reader \in [Readers -> Reader]
  /\ turn \in Objects
  /\ notices \subseteq Objects
  /\ fulfilled \in {"yes", "no"}
  /\ actual \in [Objects -> 0 .. 4]
  /\ creations \in [Objects -> Nat]
  /\ mishaps \in 0 .. MaxMerchantFaults

NotSending == [at |-> "none", fenced |-> "no"]
NotReading == [of |-> "account", via |-> "request", at |-> "none", fenced |-> "no", seen |-> 0]

MerchantInit ==
  /\ stage = [x \in Objects |-> "none"]
  /\ recorded = [x \in Objects |-> 0]
  /\ sender = [x \in Objects |-> NotSending]
  /\ reader = [r \in Readers |-> NotReading]
  /\ turn = "account"
  /\ notices = {}
  /\ fulfilled = "no"
  /\ actual = [x \in Objects |-> 0]
  /\ creations = [x \in Objects |-> 0]
  /\ mishaps = 0

-----------------------------------------------------------------------------
(* The provider.                                                           *)

Successors(x, s) ==
  {t \in s + 1 .. 4 :
     \/ x = "account" /\ s # 0 /\ t = s + 1 /\ t <= 3
     \/ x = "order" /\ (s = 1 \/ (s = 2 /\ t = 3))
     \/ x = "refund" /\ (s = 3 \/ (s = 1 /\ t >= 3))}

\* The merchant completes onboarding, the buyer pays (with the checkout URL of a
\* bound order), the session expires, the bank answers.
ProviderMoves(x, s) ==
  /\ s \in Successors(x, actual[x])
  /\ x = "order" /\ s \in {2, 3} => stage["order"] = "bound" \/ actual["order"] = 2
  /\ actual' = [actual EXCEPT ![x] = s]
  /\ UNCHANGED <<turn, stage, recorded, sender, reader, notices, fulfilled, creations, mishaps>>

\* verifyMerchantEvent passes what the provider says of an order's session or a
\* refund when it has moved.
EventStands(x) == x \in {"order", "refund"} /\ actual[x] > 1

\* AcceptMerchantEvent keeps the reference of the event, not what it says: an
\* event only asks for the object to be read again.  (One that is delivered again
\* is known by its identity; one that comes after its news asks in vain.)
AcceptMerchantEvent(x) ==
  /\ EventStands(x) /\ x \notin notices
  /\ recorded[x] # actual[x]
  /\ stage[x] \in {"submitted", "bound"}
  /\ notices' = notices \cup {x}
  /\ UNCHANGED <<turn, stage, recorded, sender, reader, fulfilled, actual, creations, mishaps>>

-----------------------------------------------------------------------------
(* Requests.                                                               *)

\* loadFreshMerchantAccount: the account is bound and was last seen to accept
\* charges.  (Its age only makes a request wait for the next refresh.)
AccountReady == stage["account"] = "bound" /\ recorded["account"] = 2

\* The order is recorded as complete and paid.
Paid == stage["order"] = "bound" /\ recorded["order"] = 3

\* One row of each, however often asked for.
RequestObject(x) ==
  /\ stage[x] = "none"
  /\ stage' = [stage EXCEPT ![x] = "requested"]
  /\ UNCHANGED <<turn, recorded, sender, reader, notices, fulfilled, actual, creations, mishaps>>

RequestMerchantAccount == RequestObject("account")
RequestMerchantOrder == AccountReady /\ RequestObject("order")
RequestMerchantRefund == Paid /\ RequestObject("refund")

\* FulfillMerchantOrder: no refund of the order is outstanding or succeeded.
FulfillMerchantOrder ==
  /\ fulfilled = "no" /\ Paid
  /\ stage["refund"] = "none" \/ recorded["refund"] = 4
  /\ fulfilled' = "yes"
  /\ UNCHANGED <<turn, stage, recorded, sender, reader, notices, actual, creations, mishaps>>

-----------------------------------------------------------------------------
(* Dispatch.                                                               *)

\* Mutant: a submission without an answer is sent again.
SendableAgain(x) == stage[x] \in {"requested", "submitted"}

Sendable(x) == stage[x] = "requested"

\* The submission is saved before the call.
Dispatch(x) ==
  /\ Sendable(x) /\ sender[x].at = "none"
  /\ stage' = [stage EXCEPT ![x] = "submitted"]
  /\ sender' = [sender EXCEPT ![x] = [at |-> "call", fenced |-> "no"]]
  /\ UNCHANGED <<turn, recorded, reader, notices, fulfilled, actual, creations, mishaps>>

DispatchMerchantAccount == Dispatch("account")
DispatchMerchantOrder == AccountReady /\ Dispatch("order")
DispatchMerchantRefund == Dispatch("refund")

\* The call to the provider, under the row's idempotency key.
CallArrives(x) ==
  /\ sender[x].at = "call"
  /\ actual' = [actual EXCEPT ![x] = IF @ = 0 THEN 1 ELSE @]
  /\ creations' = [creations EXCEPT ![x] = @ + 1]
  /\ sender' = [sender EXCEPT ![x].at = "answer"]
  /\ UNCHANGED <<turn, stage, recorded, reader, notices, fulfilled, mishaps>>

CreateAccount == CallArrives("account")
CreateCheckout == CallArrives("order")
CreateRefund == CallArrives("refund")

\* The call or its answer is lost, or the process stops: the row stays submitted.
SenderIsLost(x) ==
  /\ sender[x].at # "none" /\ mishaps < MaxMerchantFaults
  /\ sender' = [sender EXCEPT ![x] = NotSending]
  /\ mishaps' = mishaps + 1
  /\ UNCHANGED <<turn, stage, recorded, reader, notices, fulfilled, actual, creations>>

\* bindMerchantCheckout accepts nothing that undoes an end already recorded.
KeepsTheEnd(s) ==
  /\ recorded["order"] = 3 => s = 3
  /\ recorded["order"] = 2 => s \in {2, 3}
  /\ recorded["order"] = 4 => s = 4

\* Mutant: the generation is not compared.
MayBindAnyway(x, fenced, s) == x = "order" => KeepsTheEnd(s)

\* Like bindMerchantRefund, it compares the generation it started from.
MayBind(x, fenced, s) == fenced = "no" /\ (x = "order" => KeepsTheEnd(s))

\* bindMerchantAccount: by whoever comes first.
MayBindAccount == stage["account"] = "submitted"

AnswerCounts(x) ==
  IF x = "account" THEN MayBindAccount ELSE MayBind(x, sender[x].fenced, 1)

BindAnswer(x) ==
  /\ sender[x].at = "answer"
  /\ sender' = [sender EXCEPT ![x] = NotSending]
  /\ IF AnswerCounts(x)
     THEN /\ recorded' = [recorded EXCEPT ![x] = 1]
          /\ stage' = [stage EXCEPT ![x] = "bound"]
     ELSE UNCHANGED <<recorded, stage>>
  /\ UNCHANGED <<turn, reader, notices, fulfilled, actual, creations, mishaps>>

-----------------------------------------------------------------------------
(* Reconciliation.                                                         *)

\* Taking the next generation fences the other read of x, and the answer to its
\* dispatch.  Reads are short and far apart: that a request fences the worker's
\* happens, and counts as a fault.
StartReading(r, x, via) ==
  LET others == {q \in Readers : reader[q].of = x /\ reader[q].at # "none"} IN
  /\ reader[r].at = "none"
  /\ reader' = [q \in Readers |->
       IF q = r THEN [NotReading EXCEPT !.of = x, !.via = via, !.at = "read"]
       ELSE IF q \in others THEN [reader[q] EXCEPT !.fenced = "yes"] ELSE reader[q]]
  /\ sender' = IF x = "account" \/ sender[x].at = "none" THEN sender
               ELSE [sender EXCEPT ![x].fenced = "yes"]
  /\ IF "worker" \in others /\ reader["worker"].fenced = "no"
     THEN mishaps < MaxMerchantFaults /\ mishaps' = mishaps + 1
     ELSE UNCHANGED mishaps
  /\ UNCHANGED <<stage, recorded, notices, fulfilled, actual, creations>>

\* MaintainMerchants looks at every account, and at orders that are not ended.
AccountMaintained == stage["account"] = "bound"
OrderMaintained == stage["order"] = "bound" /\ recorded["order"] \in {1, 2}

\* Mutant: a refund that succeeded is not looked at again.
RefundMaintainedPending == stage["refund"] = "bound" /\ recorded["refund"] = 1

\* MaintainMerchantRefunds looks at every refund: the bank may return one.
RefundMaintained == stage["refund"] = "bound"

Maintained(x) ==
  \/ x = "account" /\ AccountMaintained
  \/ x = "order" /\ OrderMaintained
  \/ x = "refund" /\ RefundMaintained

Following(x) == CASE x = "account" -> "order" [] x = "order" -> "refund" [] x = "refund" -> "account"

\* What the pass of the worker comes to next: what an event asks for
\* (ProcessMerchantEvents) or is maintained, one object after the other.
Due(x) == x \in notices \/ Maintained(x)
NextDue(x) ==
  /\ Due(x)
  /\ \/ x = turn
     \/ ~Due(turn) /\ (x = Following(turn) \/ ~Due(Following(turn)))

MerchantWorker(x) ==
  /\ NextDue(x)
  /\ StartReading("worker", x, IF x \in notices THEN "event" ELSE "worker")
  /\ turn' = Following(x)

RefreshObject(x) ==
  /\ stage[x] = "bound"
  /\ StartReading("request", x, "request")
  /\ UNCHANGED turn

\* By the owner, from the buyer's page, and by the owner again.
RefreshMerchantAccount == RefreshObject("account")
ShopRefreshOrder == RefreshObject("order")
ReconcileMerchantRefund == RefreshObject("refund")

\* ReconcileMerchantAccount, by an operator who looked the account up.
ReconcileMerchantAccount ==
  /\ stage["account"] = "submitted" /\ actual["account"] # 0
  /\ StartReading("request", "account", "operator")
  /\ UNCHANGED turn

ReadObject(r) ==
  /\ reader[r].at = "read"
  /\ reader' = [reader EXCEPT ![r].at = "store", ![r].seen = actual[reader[r].of]]
  /\ UNCHANGED <<turn, stage, recorded, sender, notices, fulfilled, actual, creations, mishaps>>

\* The observation is stored, and the event done; or it is refused, and the
\* event comes up again a minute later.
StoreObservation(r) ==
  LET x == reader[r].of  s == reader[r].seen IN
  /\ reader[r].at = "store"
  /\ reader' = [reader EXCEPT ![r] = NotReading]
  /\ IF IF reader[r].via = "operator" THEN MayBindAccount
        ELSE MayBind(x, reader[r].fenced, s)
     THEN /\ recorded' = [recorded EXCEPT ![x] = s]
          /\ stage' = [stage EXCEPT ![x] = "bound"]
          /\ notices' = IF reader[r].via = "event" THEN notices \ {x} ELSE notices
     ELSE UNCHANGED <<recorded, stage, notices>>
  /\ UNCHANGED <<turn, sender, fulfilled, actual, creations, mishaps>>

ReaderFails(r) ==
  /\ reader[r].at # "none" /\ mishaps < MaxMerchantFaults
  /\ reader' = [reader EXCEPT ![r] = NotReading]
  /\ mishaps' = mishaps + 1
  /\ UNCHANGED <<turn, stage, recorded, sender, notices, fulfilled, actual, creations>>

MerchantNext ==
  \/ \E x \in Objects :
       \/ \E s \in 1 .. 4 : ProviderMoves(x, s)
       \/ BindAnswer(x) \/ SenderIsLost(x)
       \/ AcceptMerchantEvent(x) \/ MerchantWorker(x)
  \/ RequestMerchantAccount \/ RequestMerchantOrder \/ RequestMerchantRefund
  \/ DispatchMerchantAccount \/ DispatchMerchantOrder \/ DispatchMerchantRefund
  \/ CreateAccount \/ CreateCheckout \/ CreateRefund
  \/ RefreshMerchantAccount \/ ShopRefreshOrder \/ ReconcileMerchantRefund
  \/ FulfillMerchantOrder
  \/ ReconcileMerchantAccount
  \/ \E r \in Readers : ReadObject(r) \/ StoreObservation(r) \/ ReaderFails(r)

MerchantSpec == MerchantInit /\ [][MerchantNext]_merchantVars

\* The loop of cmd/merchant-worker goes on: it takes the events by due time and
\* passes over all accounts, orders and refunds with its cursors.  No event need
\* arrive.
MerchantFairness ==
  /\ \A r \in Readers : WF_merchantVars(ReadObject(r) \/ StoreObservation(r))
  /\ WF_merchantVars(\E x \in Objects : MerchantWorker(x))

-----------------------------------------------------------------------------
(* Properties.                                                             *)

\* MerchantActsOnce: whatever is lost, no account, order or refund is created a
\* second time at the provider, and money is returned only of an order that was
\* paid there (Dispatch*, RequestMerchantRefund).
MerchantActsOnce ==
  /\ \A x \in Objects : creations[x] <= 1
  /\ creations["refund"] > 0 => actual["order"] = 3

\* ObservationsAdvance: although events, maintenance and answers complete in any
\* order, a row never goes back to an earlier state of its provider object (the
\* generations of bindMerchantCheckout, bindMerchantRefund and
\* refreshMappedMerchantAccount).
ObservationsAdvance ==
  [][\A x \in Objects : recorded'[x] >= recorded[x]]_merchantVars

\* OutcomesAreRecorded: what is bound, or was once mentioned by an accepted
\* event, catches up with the provider again and again, even when later events
\* never arrive (MaintainMerchants, MaintainMerchantRefunds).
OutcomesAreRecorded ==
  []<>(\A x \in Objects :
         stage[x] = "bound" \/ x \in notices => recorded[x] = actual[x])
=============================================================================
