--------------------------- MODULE MerchantProofs ---------------------------
(***************************************************************************)
(* Proofs about MerchantOrders, for every number of faults.                *)
(***************************************************************************)
EXTENDS MerchantOrders, TLAPS

-----------------------------------------------------------------------------
(* The inductive invariant.                                                *)

\* Reader r is busy with object x.
Reads(r, x) == reader[r].of = x /\ reader[r].at # "none"

\* Nothing happens to an object before its submission is saved.
UnsentInv ==
  \A x \in Objects : stage[x] \in {"none", "requested"} =>
    /\ sender[x].at = "none" /\ creations[x] = 0
    /\ x \notin notices
    /\ \A r \in Readers : ~ Reads(r, x)

\* A call that is still on its way is the first one, and an object exists when
\* a call has arrived.
CallInv ==
  \A x \in Objects :
    /\ creations[x] <= 1
    /\ sender[x].at = "call" => creations[x] = 0
    /\ sender[x].at = "answer" => creations[x] = 1
    /\ actual[x] = 0 <=> creations[x] = 0

\* What is recorded, or about to be, was true at the provider.  A paid order
\* stays paid; the other states only grow.
Shows(x, s) == s <= actual[x] /\ (x = "order" /\ s = 3 => actual[x] = 3)

SeenInv ==
  /\ \A x \in Objects : Shows(x, recorded[x])
  /\ \A x \in Objects : stage[x] # "bound" => recorded[x] = 0
  /\ \A r \in Readers : reader[r].at = "store" => Shows(reader[r].of, reader[r].seen)

\* Only the operator reads an account that is not bound: events do not tell of it.
OperatorInv ==
  /\ "account" \notin notices
  /\ \A r \in Readers :
       /\ reader[r].via = "operator" => reader[r].of = "account"
       /\ Reads(r, "account") /\ reader[r].via # "operator" => stage["account"] = "bound"

\* Of the answer to the dispatch and the reads of an object, the newest alone
\* is not fenced, and nothing newer than it has been recorded.
FenceInv ==
  /\ \A r, q \in Readers : \A x \in Objects :
       Reads(r, x) /\ Reads(q, x) /\ r # q
         => reader[r].fenced = "yes" \/ reader[q].fenced = "yes"
  /\ \A x \in Objects \ {"account"} :
       sender[x].at # "none" /\ sender[x].fenced = "no" =>
         recorded[x] = 0 /\ \A r \in Readers : ~ Reads(r, x)
  /\ \A r \in Readers :
       reader[r].at = "store" /\ reader[r].fenced = "no" /\ reader[r].via # "operator"
         => recorded[reader[r].of] <= reader[r].seen

\* A refund is asked for when the order is paid.
RefundInv == stage["refund"] # "none" => actual["order"] = 3

MerchantInv ==
  /\ MerchantTypeOK
  /\ UnsentInv
  /\ CallInv
  /\ SeenInv
  /\ OperatorInv
  /\ FenceInv
  /\ RefundInv

-----------------------------------------------------------------------------
(* Lemmas about the operators.                                             *)

\* The provider's states only grow, and a paid order has no further state.
LEMMA SuccessorsGrow ==
  ASSUME NEW x \in Objects, NEW a \in 0 .. 4, NEW s \in Successors(x, a)
  PROVE  a # 0 /\ s \in 1 .. 4 /\ s > a /\ ~ (x = "order" /\ a = 3)
BY DEF Successors, Objects

-----------------------------------------------------------------------------
(* Every action preserves the invariant.                                   *)

LEMMA InitInv == MerchantInit => MerchantInv
BY MerchantAssumption
   DEF MerchantInit, MerchantInv, MerchantTypeOK, UnsentInv, CallInv, SeenInv, OperatorInv,
       FenceInv, RefundInv, Reads, Shows, Sender, Reader, NotSending, NotReading, Objects, Readers

LEMMA StutterInv == MerchantInv /\ UNCHANGED merchantVars => MerchantInv'
BY DEF MerchantInv, MerchantTypeOK, UnsentInv, CallInv, SeenInv, OperatorInv,
       FenceInv, RefundInv, Reads, Shows, merchantVars

\* The provider: what was recorded or read is not undone.
LEMMA ProviderMovesInv ==
  ASSUME MerchantInv, NEW x \in Objects, NEW s \in 1 .. 4, ProviderMoves(x, s)
  PROVE  MerchantInv'
<1> USE DEF MerchantInv, ProviderMoves
<1>1. actual[x] \in 0 .. 4 /\ actual[x] # 0 /\ s > actual[x] /\ ~ (x = "order" /\ actual[x] = 3)
  BY SuccessorsGrow DEF MerchantTypeOK
<1>2. MerchantTypeOK'
  BY DEF MerchantTypeOK
<1>3. UnsentInv' /\ OperatorInv' /\ FenceInv'
  BY DEF UnsentInv, OperatorInv, FenceInv, Reads
<1>4. CallInv'
  BY <1>1 DEF CallInv, MerchantTypeOK
<1>5. SeenInv'
  BY <1>1 DEF SeenInv, Shows, MerchantTypeOK, Reader
<1>6. RefundInv'
  BY <1>1 DEF RefundInv, MerchantTypeOK
<1> QED
  BY <1>2, <1>3, <1>4, <1>5, <1>6

LEMMA AcceptMerchantEventInv ==
  ASSUME MerchantInv, NEW x \in Objects, AcceptMerchantEvent(x)
  PROVE  MerchantInv'
BY DEF MerchantInv, AcceptMerchantEvent, EventStands, MerchantTypeOK, UnsentInv, CallInv, SeenInv,
       OperatorInv, FenceInv, RefundInv, Reads, Shows

\* A row is asked for: a refund only when the order was seen to be paid.
LEMMA RequestObjectInv ==
  ASSUME MerchantInv, NEW x \in Objects, RequestObject(x), x = "refund" => Paid
  PROVE  MerchantInv'
<1> USE DEF MerchantInv, RequestObject
<1>1. MerchantTypeOK' /\ CallInv'
  BY DEF MerchantTypeOK, CallInv
<1>2. UnsentInv'
  BY DEF UnsentInv, Reads, MerchantTypeOK
<1>3. SeenInv'
  BY DEF SeenInv, Shows, MerchantTypeOK
<1>4. OperatorInv' /\ FenceInv'
  BY DEF OperatorInv, FenceInv, UnsentInv, Reads, MerchantTypeOK
<1>5. RefundInv'
  BY DEF RefundInv, Paid, SeenInv, Shows, MerchantTypeOK, Objects
<1> QED
  BY <1>1, <1>2, <1>3, <1>4, <1>5

LEMMA FulfillMerchantOrderInv ==
  ASSUME MerchantInv, FulfillMerchantOrder
  PROVE  MerchantInv'
BY DEF MerchantInv, FulfillMerchantOrder, MerchantTypeOK, UnsentInv, CallInv, SeenInv,
       OperatorInv, FenceInv, RefundInv, Reads, Shows

\* The first submission: nothing was sent, read or recorded before it.
LEMMA DispatchInv ==
  ASSUME MerchantInv, NEW x \in Objects, Dispatch(x)
  PROVE  MerchantInv'
<1> USE DEF MerchantInv, Dispatch, Sendable
<1>1. MerchantTypeOK'
  BY DEF MerchantTypeOK, Sender
<1>2. UnsentInv'
  BY DEF UnsentInv, Reads, MerchantTypeOK
<1>3. CallInv'
  BY DEF CallInv, UnsentInv, MerchantTypeOK, Sender
<1>4. SeenInv' /\ OperatorInv'
  BY DEF SeenInv, Shows, OperatorInv, UnsentInv, Reads, MerchantTypeOK
<1>5. FenceInv'
  BY DEF FenceInv, SeenInv, UnsentInv, Reads, MerchantTypeOK, Sender
<1>6. RefundInv'
  BY DEF RefundInv, MerchantTypeOK
<1> QED
  BY <1>1, <1>2, <1>3, <1>4, <1>5, <1>6

LEMMA CallArrivesInv ==
  ASSUME MerchantInv, NEW x \in Objects, CallArrives(x)
  PROVE  MerchantInv'
<1> USE DEF MerchantInv, CallArrives
<1>1. MerchantTypeOK'
  BY DEF MerchantTypeOK, Sender
<1>2. UnsentInv'
  BY DEF UnsentInv, Reads, MerchantTypeOK, Sender
<1>3. CallInv'
  BY DEF CallInv, MerchantTypeOK, Sender
<1>4. SeenInv' /\ OperatorInv'
  BY DEF SeenInv, Shows, OperatorInv, Reads, MerchantTypeOK, Reader
<1>5. FenceInv'
  BY DEF FenceInv, Reads, MerchantTypeOK, Sender
<1>6. RefundInv'
  BY DEF RefundInv, MerchantTypeOK
<1> QED
  BY <1>1, <1>2, <1>3, <1>4, <1>5, <1>6

LEMMA SenderIsLostInv ==
  ASSUME MerchantInv, NEW x \in Objects, SenderIsLost(x)
  PROVE  MerchantInv'
<1> USE DEF MerchantInv, SenderIsLost, NotSending
<1>1. MerchantTypeOK'
  BY MerchantAssumption DEF MerchantTypeOK, Sender
<1>2. UnsentInv' /\ CallInv'
  BY DEF UnsentInv, CallInv, Reads, MerchantTypeOK, Sender
<1>3. SeenInv' /\ OperatorInv' /\ RefundInv'
  BY DEF SeenInv, Shows, OperatorInv, RefundInv, Reads
<1>4. FenceInv'
  BY DEF FenceInv, Reads, MerchantTypeOK, Sender
<1> QED
  BY <1>1, <1>2, <1>3, <1>4

\* An answer that counts was not fenced, so nothing newer is recorded.
LEMMA BindAnswerInv ==
  ASSUME MerchantInv, NEW x \in Objects, BindAnswer(x)
  PROVE  MerchantInv' /\ \A y \in Objects : recorded'[y] >= recorded[y]
<1> USE DEF MerchantInv, BindAnswer, NotSending
<1>1. CASE ~ AnswerCounts(x)
  <2>1. MerchantTypeOK'
    BY <1>1 DEF MerchantTypeOK, Sender
  <2>2. UnsentInv' /\ CallInv'
    BY <1>1 DEF UnsentInv, CallInv, Reads, MerchantTypeOK, Sender
  <2>3. SeenInv' /\ OperatorInv' /\ RefundInv'
    BY <1>1 DEF SeenInv, Shows, OperatorInv, RefundInv, Reads
  <2>4. FenceInv'
    BY <1>1 DEF FenceInv, Reads, MerchantTypeOK, Sender
  <2>5. \A y \in Objects : recorded'[y] >= recorded[y]
    BY <1>1 DEF MerchantTypeOK
  <2> QED
    BY <2>1, <2>2, <2>3, <2>4, <2>5
<1>2. CASE AnswerCounts(x)
  <2>1. recorded[x] = 0 /\ actual[x] >= 1 /\ stage[x] \notin {"none", "requested"}
    BY <1>2 DEF AnswerCounts, MayBindAccount, MayBind, MerchantTypeOK, Sender, UnsentInv,
                CallInv, SeenInv, FenceInv, Objects
  <2>2. MerchantTypeOK'
    BY <1>2 DEF MerchantTypeOK, Sender
  <2>3. UnsentInv' /\ CallInv'
    BY <1>2, <2>1 DEF UnsentInv, CallInv, Reads, MerchantTypeOK, Sender
  <2>4. SeenInv' /\ OperatorInv'
    BY <1>2, <2>1 DEF SeenInv, Shows, OperatorInv, Reads, MerchantTypeOK, Objects
  <2>5. FenceInv'
    <3>1. \A r \in Readers : reader[r].at = "store" /\ reader[r].fenced = "no"
                             /\ reader[r].via # "operator" => reader[r].of # x
      BY <1>2, <2>1 DEF FenceInv, OperatorInv, AnswerCounts, MayBind, MayBindAccount, Reads,
                        MerchantTypeOK, Sender, Reader, Objects
    <3> QED
      BY <1>2, <2>1, <3>1 DEF FenceInv, Reads, MerchantTypeOK, Sender, Reader
  <2>6. RefundInv'
    BY <1>2, <2>1 DEF RefundInv, MerchantTypeOK, Objects
  <2>7. \A y \in Objects : recorded'[y] >= recorded[y]
    BY <1>2, <2>1 DEF MerchantTypeOK
  <2> QED
    BY <2>2, <2>3, <2>4, <2>5, <2>6, <2>7
<1> QED
  BY <1>1, <1>2

\* A new read fences the other read of its object, and the answer to its
\* dispatch.
LEMMA StartReadingInv ==
  ASSUME MerchantInv, NEW r \in Readers, NEW x \in Objects,
         NEW via \in {"request", "worker", "event", "operator"},
         via = "operator" => x = "account",
         stage[x] \notin {"none", "requested"},
         x = "account" /\ via # "operator" => stage[x] = "bound",
         StartReading(r, x, via), turn' \in Objects
  PROVE  MerchantInv'
<1> USE DEF MerchantInv
<1> DEFINE others == {q \in Readers : reader[q].of = x /\ reader[q].at # "none"}
<1>1. reader'[r] = [of |-> x, via |-> via, at |-> "read", fenced |-> "no", seen |-> 0]
  BY DEF StartReading, NotReading
<1>2. \A q \in Readers \ {r} :
        reader'[q] = IF Reads(q, x) THEN [reader[q] EXCEPT !.fenced = "yes"] ELSE reader[q]
  BY DEF StartReading, Reads
<1>3. \A q \in Readers \ {r} :
        /\ reader'[q] \in Reader
        /\ reader'[q].of = reader[q].of /\ reader'[q].via = reader[q].via
        /\ reader'[q].at = reader[q].at /\ reader'[q].seen = reader[q].seen
        /\ reader'[q].fenced = IF Reads(q, x) THEN "yes" ELSE reader[q].fenced
  <2> TAKE q \in Readers \ {r}
  <2>1. reader[q] \in Reader
    BY DEF MerchantTypeOK
  <2> QED
    BY <1>2, <2>1 DEF Reader
<1>4. \A y \in Objects :
        /\ sender'[y] \in Sender /\ sender'[y].at = sender[y].at
        /\ sender'[y].fenced = IF y = x /\ x # "account" /\ sender[y].at # "none"
                               THEN "yes" ELSE sender[y].fenced
  BY DEF StartReading, MerchantTypeOK, Sender
<1>5. mishaps' \in 0 .. MaxMerchantFaults
  BY MerchantAssumption DEF StartReading, MerchantTypeOK
<1>6. UNCHANGED <<stage, recorded, notices, fulfilled, actual, creations>>
  BY DEF StartReading
<1>7. DOMAIN reader' = Readers /\ reader' = [q \in Readers |-> reader'[q]]
  BY DEF StartReading
<1>8. sender' = [y \in Objects |-> sender'[y]]
  BY DEF StartReading, MerchantTypeOK
<1>9. MerchantTypeOK'
  <2>1. reader' \in [Readers -> Reader]
    BY <1>1, <1>3, <1>7 DEF Reader
  <2>2. sender' \in [Objects -> Sender]
    BY <1>4, <1>8
  <2> QED
    BY <1>5, <1>6, <2>1, <2>2 DEF MerchantTypeOK
<1>10. UnsentInv' /\ CallInv'
  BY <1>1, <1>3, <1>4, <1>6 DEF UnsentInv, CallInv, Reads
<1>11. SeenInv' /\ RefundInv'
  BY <1>1, <1>3, <1>6 DEF SeenInv, RefundInv, Shows
<1>12. OperatorInv'
  BY <1>1, <1>3, <1>6 DEF OperatorInv, Reads
<1>13. FenceInv'
  BY <1>1, <1>3, <1>4, <1>6 DEF FenceInv, Reads
<1> QED
  BY <1>9, <1>10, <1>11, <1>12, <1>13

\* The read returns the provider's state, the newest there is.
LEMMA ReadObjectInv ==
  ASSUME MerchantInv, NEW r \in Readers, ReadObject(r)
  PROVE  MerchantInv'
<1> USE DEF MerchantInv, ReadObject
<1>1. /\ reader'[r].of = reader[r].of /\ reader'[r].via = reader[r].via
      /\ reader'[r].fenced = reader[r].fenced
      /\ reader'[r].at = "store" /\ reader'[r].seen = actual[reader[r].of]
      /\ reader'[r] \in Reader
  BY DEF MerchantTypeOK, Reader
<1>2. \A q \in Readers \ {r} : reader'[q] = reader[q]
  BY DEF MerchantTypeOK
<1>3. MerchantTypeOK'
  BY <1>1, <1>2 DEF MerchantTypeOK
<1>4. UnsentInv' /\ OperatorInv'
  <2>1. \A q \in Readers : \A x \in Objects : Reads(q, x)' => Reads(q, x)
    BY <1>1, <1>2 DEF Reads
  <2>2. UnsentInv'
    BY <2>1 DEF UnsentInv
  <2>3. \A q \in Readers : reader'[q].of = reader[q].of /\ reader'[q].via = reader[q].via
    BY <1>1, <1>2
  <2> QED
    BY <2>1, <2>2, <2>3 DEF OperatorInv, Objects
<1>5. CallInv' /\ RefundInv'
  BY DEF CallInv, RefundInv
<1>6. SeenInv'
  BY <1>1, <1>2 DEF SeenInv, Shows, MerchantTypeOK, Reader
<1>7. FenceInv'
  BY <1>1, <1>2 DEF FenceInv, Reads, SeenInv, Shows, MerchantTypeOK, Reader
<1> QED
  BY <1>3, <1>4, <1>5, <1>6, <1>7

\* A reader that stops, or is refused, leaves the row as it is.
LEMMA ReaderEndsInv ==
  ASSUME MerchantInv, NEW r \in Readers, mishaps' \in 0 .. MaxMerchantFaults,
         reader' = [reader EXCEPT ![r] = NotReading],
         UNCHANGED <<turn, stage, recorded, sender, notices, fulfilled, actual, creations>>
  PROVE  MerchantInv'
<1> USE DEF MerchantInv
<1>1. NotReading \in Reader /\ NotReading.at = "none" /\ NotReading.via # "operator"
  BY DEF NotReading, Reader, Objects
<1>2. reader'[r] = NotReading /\ \A q \in Readers \ {r} : reader'[q] = reader[q]
  BY DEF MerchantTypeOK
<1>3. MerchantTypeOK'
  BY <1>1 DEF MerchantTypeOK
<1>4. UnsentInv' /\ CallInv' /\ OperatorInv' /\ RefundInv'
  BY <1>1, <1>2 DEF UnsentInv, CallInv, OperatorInv, RefundInv, Reads
<1>5. SeenInv'
  BY <1>1, <1>2 DEF SeenInv, Shows
<1>6. FenceInv'
  BY <1>1, <1>2 DEF FenceInv, Reads
<1> QED
  BY <1>3, <1>4, <1>5, <1>6

\* An observation that counts is the newest one, or an operator's first.
LEMMA StoreObservationInv ==
  ASSUME MerchantInv, NEW r \in Readers, StoreObservation(r)
  PROVE  MerchantInv' /\ \A y \in Objects : recorded'[y] >= recorded[y]
<1> USE DEF MerchantInv
<1> DEFINE x == reader[r].of
           s == reader[r].seen
           counts == IF reader[r].via = "operator" THEN MayBindAccount
                     ELSE MayBind(x, reader[r].fenced, s)
<1>1. CASE ~ counts
  <2>1. MerchantInv'
    <3>1. mishaps' \in 0 .. MaxMerchantFaults
      BY DEF StoreObservation, MerchantTypeOK
    <3> QED
      BY <1>1, <3>1, ReaderEndsInv DEF StoreObservation
  <2>2. \A y \in Objects : recorded'[y] >= recorded[y]
    BY <1>1 DEF StoreObservation, MerchantTypeOK
  <2> QED
    BY <2>1, <2>2
<1>2. CASE counts
  <2>1. x \in Objects /\ s \in 0 .. 4
    BY DEF MerchantTypeOK, Reader
  <2>2. /\ recorded' = [recorded EXCEPT ![x] = s]
        /\ stage' = [stage EXCEPT ![x] = "bound"]
        /\ notices' \subseteq notices
        /\ reader' = [reader EXCEPT ![r] = NotReading]
        /\ UNCHANGED <<turn, sender, fulfilled, actual, creations, mishaps>>
    BY <1>2 DEF StoreObservation
  <2>3. Reads(r, x) /\ Shows(x, s) /\ recorded[x] <= s /\ stage[x] \notin {"none", "requested"}
    <3>1. Reads(r, x) /\ Shows(x, s)
      BY DEF StoreObservation, Reads, SeenInv
    <3>2. stage[x] \notin {"none", "requested"}
      BY <2>1, <3>1 DEF UnsentInv
    <3>3. CASE reader[r].via = "operator"
      BY <1>2, <2>1, <3>1, <3>2, <3>3 DEF MayBindAccount, OperatorInv, SeenInv
    <3>4. CASE reader[r].via # "operator"
      BY <1>2, <3>1, <3>2, <3>4 DEF MayBind, FenceInv, StoreObservation
    <3> QED
      BY <3>3, <3>4
  <2>4. NotReading \in Reader /\ NotReading.at = "none" /\ NotReading.via # "operator"
    BY DEF NotReading, Reader, Objects
  <2>5. reader'[r] = NotReading /\ \A q \in Readers \ {r} : reader'[q] = reader[q]
    BY <2>2 DEF MerchantTypeOK
  <2> HIDE DEF x, s, counts
  <2>6. MerchantTypeOK'
    BY <2>1, <2>2, <2>4 DEF MerchantTypeOK
  <2>7. UnsentInv' /\ CallInv' /\ RefundInv'
    BY <2>1, <2>2, <2>3, <2>4, <2>5 DEF UnsentInv, CallInv, RefundInv, Reads, MerchantTypeOK, Objects
  <2>8. SeenInv' /\ OperatorInv'
    BY <2>1, <2>2, <2>3, <2>4, <2>5 DEF SeenInv, OperatorInv, Shows, Reads, MerchantTypeOK, Objects
  <2>9. FenceInv'
    <3>1. \A y \in Objects \ {"account"} :
            sender[y].at # "none" /\ sender[y].fenced = "no" => y # x
      BY <2>3 DEF FenceInv
    <3>2. \A q \in Readers \ {r} :
            reader[q].at = "store" /\ reader[q].fenced = "no" /\ reader[q].via # "operator"
              => reader[q].of # x
      BY <1>2, <2>1, <2>3 DEF FenceInv, Reads, counts, MayBind, MayBindAccount, OperatorInv, x
    <3> QED
      BY <2>1, <2>2, <2>4, <2>5, <3>1, <3>2 DEF FenceInv, Reads, MerchantTypeOK, Reader
  <2>10. \A y \in Objects : recorded'[y] >= recorded[y]
    BY <2>1, <2>2, <2>3 DEF MerchantTypeOK
  <2> QED
    BY <2>6, <2>7, <2>8, <2>9, <2>10
<1> QED
  BY <1>1, <1>2

LEMMA ReaderFailsInv ==
  ASSUME MerchantInv, NEW r \in Readers, ReaderFails(r)
  PROVE  MerchantInv'
<1>1. mishaps' \in 0 .. MaxMerchantFaults
  BY MerchantAssumption DEF ReaderFails, MerchantInv, MerchantTypeOK
<1> QED
  BY <1>1, ReaderEndsInv DEF ReaderFails

\* The worker, a request and an operator read what was submitted.
LEMMA ReadsInv ==
  ASSUME MerchantInv,
         \/ \E x \in Objects : MerchantWorker(x)
         \/ RefreshMerchantAccount \/ ShopRefreshOrder \/ ReconcileMerchantRefund
         \/ ReconcileMerchantAccount
  PROVE  MerchantInv'
<1> USE DEF MerchantInv
<1>1. ASSUME NEW x \in Objects, MerchantWorker(x)
      PROVE  MerchantInv'
  <2>1. Due(x) /\ stage[x] \notin {"none", "requested"}
    BY <1>1 DEF MerchantWorker, NextDue, Due, Maintained, AccountMaintained, OrderMaintained,
                RefundMaintained, UnsentInv
  <2>2. x = "account" => stage[x] = "bound"
    BY <1>1, <2>1 DEF Due, Maintained, AccountMaintained, OperatorInv
  <2>3. turn' \in Objects
    BY <1>1 DEF MerchantWorker, Following, Objects
  <2> QED
    BY <1>1, <2>1, <2>2, <2>3, StartReadingInv DEF MerchantWorker, Readers
<1>2. ASSUME NEW x \in Objects, RefreshObject(x)
      PROVE  MerchantInv'
  <2>1. turn' \in Objects
    BY <1>2 DEF RefreshObject, MerchantTypeOK
  <2> QED
    BY <1>2, <2>1, StartReadingInv DEF RefreshObject, Readers
<1>3. CASE ReconcileMerchantAccount
  <2>1. turn' \in Objects
    BY <1>3 DEF ReconcileMerchantAccount, MerchantTypeOK
  <2> QED
    BY <1>3, <2>1, StartReadingInv DEF ReconcileMerchantAccount, Readers, Objects
<1> QED
  BY <1>1, <1>2, <1>3
     DEF RefreshMerchantAccount, ShopRefreshOrder, ReconcileMerchantRefund, Objects

\* Every step of the shop preserves the invariant, and no row goes back.
LEMMA StepInv ==
  ASSUME MerchantInv, MerchantNext
  PROVE  MerchantInv' /\ \A y \in Objects : recorded'[y] >= recorded[y]
<1> DEFINE Forward == \A y \in Objects : recorded'[y] >= recorded[y]
<1>1. UNCHANGED recorded => Forward
  BY DEF MerchantInv, MerchantTypeOK
<1>2. ASSUME NEW x \in Objects,
             \/ \E s \in 1 .. 4 : ProviderMoves(x, s)
             \/ SenderIsLost(x) \/ AcceptMerchantEvent(x)
      PROVE  MerchantInv' /\ Forward
  <2>1. MerchantInv'
    BY <1>2, ProviderMovesInv, SenderIsLostInv, AcceptMerchantEventInv
  <2>2. UNCHANGED recorded
    BY <1>2 DEF ProviderMoves, SenderIsLost, AcceptMerchantEvent
  <2> QED
    BY <1>1, <2>1, <2>2
<1>3. CASE \E x \in Objects : BindAnswer(x)
  BY <1>3, BindAnswerInv
<1>4. CASE RequestMerchantAccount \/ RequestMerchantOrder \/ RequestMerchantRefund
  <2>1. PICK x \in Objects : RequestObject(x) /\ (x = "refund" => Paid)
    BY <1>4 DEF RequestMerchantAccount, RequestMerchantOrder, RequestMerchantRefund, Objects
  <2>2. UNCHANGED recorded
    BY <2>1 DEF RequestObject
  <2> QED
    BY <1>1, <2>1, <2>2, RequestObjectInv
<1>5. CASE DispatchMerchantAccount \/ DispatchMerchantOrder \/ DispatchMerchantRefund
  <2>1. PICK x \in Objects : Dispatch(x)
    BY <1>5 DEF DispatchMerchantAccount, DispatchMerchantOrder, DispatchMerchantRefund, Objects
  <2>2. UNCHANGED recorded
    BY <2>1 DEF Dispatch
  <2> QED
    BY <1>1, <2>1, <2>2, DispatchInv
<1>6. CASE CreateAccount \/ CreateCheckout \/ CreateRefund
  <2>1. PICK x \in Objects : CallArrives(x)
    BY <1>6 DEF CreateAccount, CreateCheckout, CreateRefund, Objects
  <2>2. UNCHANGED recorded
    BY <2>1 DEF CallArrives
  <2> QED
    BY <1>1, <2>1, <2>2, CallArrivesInv
<1>7. CASE FulfillMerchantOrder
  BY <1>1, <1>7, FulfillMerchantOrderInv DEF FulfillMerchantOrder
<1>8. CASE \/ \E x \in Objects : MerchantWorker(x)
           \/ RefreshMerchantAccount \/ ShopRefreshOrder \/ ReconcileMerchantRefund
           \/ ReconcileMerchantAccount
  <2>1. UNCHANGED recorded
    BY <1>8 DEF MerchantWorker, RefreshMerchantAccount, ShopRefreshOrder,
                ReconcileMerchantRefund, ReconcileMerchantAccount, RefreshObject, StartReading
  <2> QED
    BY <1>1, <1>8, <2>1, ReadsInv
<1>9. ASSUME NEW r \in Readers, ReadObject(r) \/ ReaderFails(r)
      PROVE  MerchantInv' /\ Forward
  <2>1. UNCHANGED recorded
    BY <1>9 DEF ReadObject, ReaderFails
  <2> QED
    BY <1>1, <1>9, <2>1, ReadObjectInv, ReaderFailsInv
<1>10. CASE \E r \in Readers : StoreObservation(r)
  BY <1>10, StoreObservationInv
<1> QED
  BY <1>2, <1>3, <1>4, <1>5, <1>6, <1>7, <1>8, <1>9, <1>10 DEF MerchantNext

-----------------------------------------------------------------------------
(* The theorems.                                                           *)

\* The invariant holds of the shop whatever is lost, and however often.
THEOREM Invariance == MerchantSpec => []MerchantInv
<1>1. MerchantInv /\ [MerchantNext]_merchantVars => MerchantInv'
  BY StepInv, StutterInv
<1> QED
  BY <1>1, InitInv, PTL DEF MerchantSpec

\* The variables keep their types (MerchantOrders): the provider's states are
\* recorded, and no bound on the faults is passed.
THEOREM TypeCorrect == MerchantSpec => []MerchantTypeOK
BY Invariance, PTL DEF MerchantInv

\* No account, order or refund is created twice at the provider, and only a paid
\* order is refunded, whatever calls and answers are lost (Dispatch*,
\* RequestMerchantRefund).
THEOREM ActsOnce == MerchantSpec => []MerchantActsOnce
<1>1. MerchantInv => MerchantActsOnce
  BY DEF MerchantInv, MerchantTypeOK, CallInv, UnsentInv, RefundInv, MerchantActsOnce, Objects
<1> QED
  BY <1>1, Invariance, PTL

\* A row never goes back to an earlier state of its provider object, in whatever
\* order answers, reads and events complete (the generations of
\* bindMerchantCheckout, bindMerchantRefund and refreshMappedMerchantAccount).
THEOREM RowsAdvance == MerchantSpec => ObservationsAdvance
<1>1. MerchantInv /\ [MerchantNext]_merchantVars
        => [\A x \in Objects : recorded'[x] >= recorded[x]]_merchantVars
  BY StepInv
<1> QED
  BY <1>1, Invariance, PTL DEF MerchantSpec, ObservationsAdvance
=============================================================================
