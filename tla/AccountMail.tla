---------------------------- MODULE AccountMail ----------------------------
(***************************************************************************)
(* The mail outbox (internal/portal/mail.go, smtp.go) beside the accounts: *)
(* every link that an account operation issues is queued in the same       *)
(* transaction, and workers lease a due message, look whether its link is  *)
(* still good, send it and acknowledge it, each in a step of its own.      *)
(***************************************************************************)
EXTENDS Accounts

CONSTANTS
  Workers,
  NoWorker,
  MaxAttempts  \* 10 in the code

ASSUME MailAssumption == NoWorker \notin Workers /\ MaxAttempts \in Nat \ {0}

VARIABLES
  mail,      \* mail_outbox: the message of each link
  accepted,  \* messages the mail server has taken
  worker     \* where each DeliverOne is

mailVars == <<mail, accepted, worker>>
allVars == <<vars, mailVars>>

\* due: next_attempt and lease_until have passed. lease: the lease's holder.
Message == [state    : {"none", "pending", "sent", "discarded", "failed"},
            due      : BOOLEAN,
            lease    : Workers \cup {NoWorker},
            attempts : 0 .. MaxAttempts]

Row(state, due, lease, attempts) ==
  [state |-> state, due |-> due, lease |-> lease, attempts |-> attempts]

Step == [pc : {"idle", "leased", "invalid", "send", "acknowledge"}, link : 0 .. MaxLinks]

Idle == [pc |-> "idle", link |-> 0]

MailTypeOK ==
  /\ TypeOK
  /\ mail \in [Links -> Message]
  /\ accepted \subseteq Links
  /\ worker \in [Workers -> Step]
  /\ \A i \in Links : mail[i].state = "none" <=> link[i].state = "unissued"

MailInit ==
  /\ Init
  /\ mail = [i \in Links |-> Row("none", FALSE, NoWorker, 0)]
  /\ accepted = {}
  /\ worker = [w \in Workers |-> Idle]

-----------------------------------------------------------------------------

\* enqueue: the message of a link is inserted by the transaction that issues it.
Enqueue ==
  mail' = [i \in Links |-> IF link[i].state = "unissued" /\ link'[i].state # "unissued"
                           THEN Row("pending", TRUE, NoWorker, 0) ELSE mail[i]]

AccountStep == Next /\ Enqueue /\ UNCHANGED <<accepted, worker>>

\* The time of the next attempt comes, or the lease runs out; the lease's
\* holder may still be at work.
BecomesDue(i) ==
  /\ mail[i].state = "pending" /\ ~ mail[i].due
  /\ mail' = [mail EXCEPT ![i] = Row("pending", TRUE, @.lease, @.attempts)]
  /\ UNCHANGED <<vars, accepted, worker>>

\* attempts is compared with the limit only, so counting stops there.
Lease(w, i) ==
  /\ worker[w] = Idle
  /\ mail[i].state = "pending" /\ mail[i].due
  /\ mail' = [mail EXCEPT ![i] =
       Row("pending", FALSE, w, IF @.attempts = MaxAttempts THEN MaxAttempts ELSE @.attempts + 1)]
  /\ worker' = [worker EXCEPT ![w] = [pc |-> "leased", link |-> i]]
  /\ UNCHANGED <<vars, accepted>>

\* The query on the link's row, by purpose.
LinkIsGood(i) ==
  \/ Acceptable(i)
  \/ LiveClientInvitation(i)
  \/ Pending(i) /\ link[i].purpose \in {"verify", "reset"} /\ link[i].to \notin disabled

CheckLink(w) ==
  /\ worker[w].pc = "leased"
  /\ worker' = [worker EXCEPT ![w] =
       [pc |-> IF LinkIsGood(@.link) THEN "send" ELSE "invalid", link |-> @.link]]
  /\ UNCHANGED <<vars, mail, accepted>>

\* finish: only the holder of the lease changes the row; a settled message loses
\* its payload and its lease.
Finish(w, state) ==
  LET i == worker[w].link
  IN /\ mail' = [mail EXCEPT ![i] =
                   IF @.lease = w THEN Row(state, FALSE, NoWorker, @.attempts) ELSE @]
     /\ worker' = [worker EXCEPT ![w] = Idle]

Discard(w) ==
  /\ worker[w].pc = "invalid"
  /\ Finish(w, "discarded")
  /\ UNCHANGED <<vars, accepted>>

\* The server takes the message.
Send(w) ==
  /\ worker[w].pc = "send"
  /\ accepted' = accepted \cup {worker[w].link}
  /\ worker' = [worker EXCEPT ![w] = [pc |-> "acknowledge", link |-> @.link]]
  /\ UNCHANGED <<vars, mail>>

\* A mutant: attempts are counted and never looked at.
SendFailsForever(w) ==
  /\ worker[w].pc = "send"
  /\ Finish(w, "pending")
  /\ UNCHANGED vars
  /\ accepted' \in {accepted, accepted \cup {worker[w].link}}

\* A mutant: the first failure is the last attempt.
SendFailsOnce(w) ==
  /\ worker[w].pc = "send"
  /\ Finish(w, "failed")
  /\ UNCHANGED vars
  /\ accepted' \in {accepted, accepted \cup {worker[w].link}}

\* Decryption or delivery fails, perhaps after the server took the message:
\* another attempt later, or none once they are used up.
SendFails(w) ==
  /\ worker[w].pc = "send"
  /\ Finish(w, IF mail[worker[w].link].attempts = MaxAttempts THEN "failed" ELSE "pending")
  /\ UNCHANGED vars
  /\ accepted' \in {accepted, accepted \cup {worker[w].link}}

Acknowledge(w) ==
  /\ worker[w].pc = "acknowledge"
  /\ Finish(w, "sent")
  /\ UNCHANGED <<vars, accepted>>

\* The process stops, or a database error ends DeliverOne.
WorkerStops(w) ==
  /\ worker[w] # Idle
  /\ worker' = [worker EXCEPT ![w] = Idle]
  /\ UNCHANGED <<vars, mail, accepted>>

WorkerProgress(w) ==
  \/ \E i \in Links : Lease(w, i)
  \/ CheckLink(w) \/ Discard(w) \/ Send(w) \/ SendFails(w) \/ Acknowledge(w)

MailNext ==
  \/ AccountStep
  \/ \E i \in Links : BecomesDue(i)
  \/ \E w \in Workers : WorkerProgress(w) \/ WorkerStops(w)

MailSpec == MailInit /\ [][MailNext]_allVars

\* AccountMail.Run polls every few seconds and clocks advance.
MailFairness ==
  /\ \A i \in Links : WF_allVars(BecomesDue(i))
  /\ \A w \in Workers : WF_allVars(WorkerProgress(w))

FairMailSpec == MailSpec /\ MailFairness

-----------------------------------------------------------------------------
(* Properties.                                                             *)

\* Unless its attempts are used up, a link that somebody could still use is on
\* its way or was taken by the mail server: no crash, lost lease or stale check
\* drops it, and a link whose message was discarded never becomes good again
\* (DeliverOne). Client invitations are excepted, see
\* ClientInvitationDiesWithAuthority.
UsableLinkIsMailed ==
  \A i \in Links : LinkIsGood(i) /\ link[i].purpose # "client-invite" =>
    \/ mail[i].state = "pending"
    \/ i \in accepted
    \/ mail[i].state = "failed" /\ mail[i].attempts = MaxAttempts

\* A worker stops, or its lease runs out while it is at work.
Mishap ==
  \/ \E w \in Workers : WorkerStops(w) /\ ~WorkerProgress(w)
  \/ \E i \in Links : BecomesDue(i) /\ \E w \in Workers : mail[i].lease = w /\ worker[w].link = i

\* Every message leaves the queue, even if the mail server refuses everything,
\* once workers stop dying and leases outlast the 30 second limit on a delivery
\* (DeliverOne, Run).
MailSettles ==
  <>[][~ Mishap]_allVars => \A i \in Links : []<>(mail[i].state # "pending")
=============================================================================
